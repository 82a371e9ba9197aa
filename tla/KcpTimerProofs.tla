--------------------------- MODULE KcpTimerProofs ---------------------------
(***************************************************************************)
(* Theorems about KcpTimer, for every word size, interval, time-out and    *)
(* delay that satisfies TimerAssumption.                                   *)
(***************************************************************************)
EXTENDS KcpTimer, WellFoundedInduction, TLAPS

(***************************************************************************)
(* Arithmetic of words.                                                    *)
(***************************************************************************)
(* A remainder is a word. *)
LEMMA ModRange ==
  ASSUME NEW w \in Nat \ {0}, NEW x \in Int
  PROVE  x % w \in 0 .. (w - 1)
OBVIOUS

(* A quotient is a whole number. *)
LEMMA DivInt ==
  ASSUME NEW w \in Nat \ {0}, NEW x \in Int
  PROVE  x \div w \in Int
OBVIOUS

(* Quotient and remainder make up the number. *)
LEMMA DivMod ==
  ASSUME NEW w \in Nat \ {0}, NEW x \in Int
  PROVE  x = (w * (x \div w)) + (x % w)
OBVIOUS

(* The remainder is the only one. *)
LEMMA ModUnique ==
  ASSUME NEW w \in Nat \ {0}, NEW x \in Int, NEW q \in Int, NEW r \in 0 .. (w - 1),
         x = (w * q) + r
  PROVE  x % w = r
OBVIOUS

(* The words of a number and of the number whole words away are the same. *)
LEMMA ModShift ==
  ASSUME NEW w \in Nat \ {0}, NEW x \in Int, NEW q \in Int
  PROVE  (x + (w * q)) % w = x % w
<1> DEFINE p == x \div w
           r == x % w
<1>1. p \in Int /\ r \in 0 .. (w - 1) /\ x = (w * p) + r
  BY ModRange, DivInt, DivMod
<1> HIDE DEF p, r
<1>2. x + (w * q) = (w * (p + q)) + r
  BY <1>1
<1>3. p + q \in Int /\ x + (w * q) \in Int
  BY <1>1
<1>4. (x + (w * q)) % w = r
  BY <1>1, <1>2, <1>3, ModUnique
<1> QED BY <1>4 DEF r

(* The word of a sum, and of a difference, from the words of its terms. *)
LEMMA ModSum ==
  ASSUME NEW w \in Nat \ {0}, NEW a \in Int, NEW b \in Int
  PROVE  ((a % w) + b) % w = (a + b) % w
<1> DEFINE p == a \div w
           r == a % w
<1>1. p \in Int /\ r \in 0 .. (w - 1) /\ a = (w * p) + r
  BY ModRange, DivInt, DivMod
<1> HIDE DEF p, r
<1>2. a + b = (r + b) + (w * p) /\ r + b \in Int
  BY <1>1
<1>3. (a + b) % w = (r + b) % w
  BY <1>1, <1>2, ModShift, ZenonT(90)
<1> QED BY <1>3 DEF r

LEMMA ModDifference ==
  ASSUME NEW w \in Nat \ {0}, NEW a \in Int, NEW b \in Int
  PROVE  ((a % w) - (b % w)) % w = (a - b) % w
<1> DEFINE q == b \div w
           s == b % w
<1>1. q \in Int /\ s \in 0 .. (w - 1) /\ b = (w * q) + s
  BY ModRange, DivInt, DivMod
<1> HIDE DEF q, s
<1>2. a - s = (a - b) + (w * q) /\ a - b \in Int
  BY <1>1
<1>3. (a - s) % w = (a - b) % w
  BY <1>1, <1>2, ModShift, ZenonT(90)
<1>4. ((a % w) + (-s)) % w = (a + (-s)) % w
  <2> DEFINE m == -s
  <2>1. m \in Int
    BY <1>1
  <2> HIDE DEF m
  <2>2. ((a % w) + m) % w = (a + m) % w
    BY <2>1, ModSum
  <2> QED BY <2>2 DEF m
<1>5. a % w \in Int
  BY ModRange
<1>6. (a % w) + (-s) = (a % w) - s /\ a + (-s) = a - s
  BY <1>1, <1>5
<1>7. ((a % w) - s) % w = (a - b) % w
  BY <1>3, <1>4, <1>6
<1> QED BY <1>7 DEF s

(* What TimerAssumption says of the word and of the periods. *)
LEMMA Words ==
  /\ Word \in Nat \ {0} /\ Half \in Nat /\ Word = 2 * Half
  /\ Interval \in Nat \ {0} /\ SlapLimit \in Nat /\ SlapLimit > Interval
  /\ MaxLate \in Nat /\ \A late \in Late : late \in Nat /\ late <= MaxLate
  /\ RtoDef \in RtoMin .. RtoMax /\ RtoMin \in Nat \ {0} /\ RtoMax \in Nat \ {0}
  /\ FastResend \in Nat \ {0} /\ FastLimit \in Nat \ {0}
  /\ ProbeInit \in Nat \ {0} /\ ProbeLimit \in Nat /\ ProbeInit <= ProbeLimit
  /\ MaxXmit \in Nat /\ RtoMax * (MaxXmit + 1) \in Nat
  /\ RtoMax * (MaxXmit + 1) + ProbeLimit + Interval + MaxLate < Half
<1>1. RtoMax * (MaxXmit + 1) \in Nat
  BY TimerAssumption
<1> DEFINE p == RtoMax * (MaxXmit + 1)
<1>2. p + ProbeLimit + Interval + MaxLate + MaxAge < Half /\ p \in Nat
  BY <1>1, TimerAssumption
<1> HIDE DEF p
<1>3. p + ProbeLimit + Interval + MaxLate < Half
  BY <1>2, TimerAssumption
<1>4. p + ProbeLimit + Interval + MaxLate < Half /\ p \in Nat
  BY <1>2, <1>3
<1> USE DEF p
<1> QED BY <1>4, TimerAssumption

(* _itimediff: two times less than half a word apart, of which the code    *)
(* has the words, have the difference of their words.                      *)
LEMMA Serial ==
  ASSUME NEW a \in Int, NEW b \in Int, -Half <= a - b, a - b < Half
  PROVE  itimediff(a % Word, b % Word) = a - b
<1>1. Word \in Nat \ {0} /\ Half \in Nat /\ Word = 2 * Half
  BY Words
<1>2. ((a % Word) - (b % Word)) % Word = (a - b) % Word
  BY <1>1, ModDifference
<1>3. CASE a - b >= 0
  <2>1. a - b = (Word * 0) + (a - b) /\ a - b \in 0 .. (Word - 1) /\ a - b \in Int
    BY <1>1, <1>3
  <2>2. (a - b) % Word = a - b
    BY <1>1, <2>1, ModUnique
  <2> QED BY <1>2, <2>2 DEF itimediff
<1>4. CASE a - b < 0
  <2>1. a - b = (Word * (-1)) + (a - b + Word) /\ a - b + Word \in 0 .. (Word - 1)
          /\ a - b \in Int
    BY <1>1, <1>4
  <2>2. (a - b) % Word = a - b + Word
    BY <1>1, <2>1, ModUnique
  <2>3. ~(a - b + Word < Half) /\ (a - b + Word) - Word = a - b
    BY <1>1
  <2> QED BY <1>2, <2>2, <2>3 DEF itimediff
<1> QED BY <1>3, <1>4

(* Adding to a word is adding to the time. *)
LEMMA PlusWord ==
  ASSUME NEW a \in Int, NEW b \in Int
  PROVE  Plus(a % Word, b) = (a + b) % Word
BY Words, ModSum DEF Plus

(* Every non-empty set of naturals has a least element, which is Min.      *)
LEMMA NatMin ==
  ASSUME NEW S \in SUBSET Nat, S # {}
  PROVE  Min(S) \in S /\ \A y \in S : Min(S) =< y
<1> DEFINE R == {ss \in Nat \X Nat : ss[1] < ss[2]}
<1>1. IsWellFoundedOn(R, Nat)
  BY NatLessThanWellFounded DEF OpToRel
<1>2. \E x \in S : \A y \in S : ~ (<<y, x>> \in R)
  <2> HIDE DEF R
  <2> QED BY <1>1, WFMin
<1>3. PICK x \in S : \A y \in S : ~ (<<y, x>> \in R)
  BY <1>2
<1>4. ASSUME NEW y \in S PROVE x =< y
  <2>1. x \in Nat /\ y \in Nat /\ ~ (<<y, x>> \in R)
    BY <1>3
  <2>2. <<y, x>> \in R <=> y < x
    BY <2>1
  <2> QED BY <2>1, <2>2
<1> QED BY <1>4 DEF Min

-----------------------------------------------------------------------------
(***************************************************************************)
(* The inductive invariant.                                                *)
(***************************************************************************)
Words32 == 0 .. (Word - 1)

Bufs == UNION {[D -> Seg] : D \in SUBSET (0 .. (MaxSegs - 1))}

Block == [updated : BOOLEAN, current : Words32, ts_flush : Words32, snd_una : Nat,
          snd_nxt : 0 .. MaxSegs, snd_buf : Bufs, rx_srtt : Nat, rx_rttval : Nat,
          rx_rto : RtoMin .. RtoMax, rmt_open : BOOLEAN, probe_wait : Nat,
          ts_probe : Words32]

TypeInv ==
  /\ k \in Block
  /\ k.snd_una <= k.snd_nxt
  /\ DOMAIN k.snd_buf \subseteq k.snd_una .. (k.snd_nxt - 1)
  /\ clock \in Nat /\ asked \in Nat
  /\ maxack \in Idle .. (MaxSegs - 1)
  /\ echo \subseteq [sn : 0 .. (MaxSegs - 1), at : Nat]

HistInv ==
  /\ DOMAIN k.snd_buf \subseteq DOMAIN sentAt
  /\ DOMAIN k.snd_buf \subseteq DOMAIN fast
  /\ \A sn \in DOMAIN fast : sn \in 0 .. (k.snd_nxt - 1) /\ fast[sn] \in 0 .. FastLimit

(* A segment s that was last sent at the real time `at', f times of them   *)
(* early, as it is at the real time `now'.                                 *)
SegInv(s, at, f, now) ==
  /\ s \in Seg /\ at \in Nat /\ at <= now
  /\ s.xmit \in 1 .. (MaxXmit + 1)
  /\ s.rto \in RtoMin .. (RtoMax * s.xmit)
  /\ s.resendts = (at + s.rto) % Word
  /\ now - at < s.rto
  /\ f \in 0 .. FastLimit /\ f < s.xmit

SegsInv ==
  \A sn \in DOMAIN k.snd_buf : SegInv(k.snd_buf[sn], sentAt[sn], fast[sn], clock)

ClockInv ==
  /\ lastFlush = clock
  /\ k.updated =>
       /\ k.current = clock % Word
       /\ \E d \in 1 .. Interval : k.ts_flush = (clock + d) % Word
  /\ ~k.updated => DOMAIN k.snd_buf = {} /\ k.probe_wait = 0

ProbeInv ==
  /\ k.probe_wait = 0 => asked = clock
  /\ k.probe_wait # 0 =>
       /\ k.probe_wait \in ProbeInit .. ProbeLimit
       /\ k.ts_probe = (asked + k.probe_wait) % Word
       /\ asked <= clock /\ clock - asked < k.probe_wait

IInv == TypeInv /\ HistInv /\ SegsInv /\ ClockInv /\ ProbeInv

-----------------------------------------------------------------------------
(* Segments. *)
(* The rto of a segment grows by at most RtoMax with each transmission, so *)
(* that it stays far below half a word.                                    *)
LEMMA RtoBound ==
  ASSUME NEW x \in 1 .. (MaxXmit + 1), NEW r \in RtoMin .. (RtoMax * x)
  PROVE  /\ r \in Nat \ {0}
         /\ r + ProbeLimit + Interval + MaxLate < Half
<1>1. /\ RtoMax \in Nat /\ RtoMin \in Nat \ {0} /\ MaxXmit \in Nat
      /\ ProbeLimit \in Nat /\ Interval \in Nat /\ MaxLate \in Nat /\ Half \in Nat
      /\ RtoMax * (MaxXmit + 1) + ProbeLimit + Interval + MaxLate < Half
  BY Words
<1>2. RtoMax * x <= RtoMax * (MaxXmit + 1)
  BY <1>1
<1>3. RtoMax * x \in Nat /\ RtoMax * (MaxXmit + 1) \in Nat
  BY <1>1
<1> DEFINE p == RtoMax * x
           m == RtoMax * (MaxXmit + 1)
<1>4. p \in Nat /\ m \in Nat /\ p <= m /\ r \in RtoMin .. p
        /\ m + ProbeLimit + Interval + MaxLate < Half
  BY <1>1, <1>2, <1>3
<1> HIDE DEF p, m
<1> QED BY <1>1, <1>4

LEMMA RtoGrows ==
  ASSUME NEW x \in Nat \ {0}, NEW r \in RtoMin .. (RtoMax * x), NEW d \in 0 .. RtoMax
  PROVE  r + d \in RtoMin .. (RtoMax * (x + 1))
<1>1. RtoMax \in Nat /\ RtoMin \in Nat
  BY Words
<1>2. RtoMax * x \in Nat /\ RtoMax * (x + 1) = (RtoMax * x) + RtoMax
  BY <1>1
<1> DEFINE p == RtoMax * x
           m == RtoMax * (x + 1)
<1>3. p \in Nat /\ m = p + RtoMax /\ r \in RtoMin .. p
  BY <1>2
<1> HIDE DEF p, m
<1>4. r + d \in RtoMin .. m
  BY <1>1, <1>3
<1> QED BY <1>4 DEF m

LEMMA HalfInt ==
  ASSUME NEW x \in Nat
  PROVE  x \div 2 \in 0 .. x
OBVIOUS

(* A word is a natural number. *)
LEMMA WordNat ==
  ASSUME NEW x \in Int
  PROVE  x % Word \in Words32 /\ x % Word \in Nat
<1>1. Word \in Nat \ {0}
  BY Words
<1>2. x % Word \in 0 .. (Word - 1)
  BY <1>1, ModRange
<1> QED BY <1>1, <1>2 DEF Words32

(* A flush keeps the invariant of a segment that has been sent before, and *)
(* sends those that are late.                                              *)
LEMMA SegStep ==
  ASSUME NEW s, NEW at, NEW f, NEW now \in Nat, SegInv(s, at, f, now),
         s.xmit < MaxXmit,
         NEW t \in Nat, now <= t, t <= now + Interval + MaxLate,
         NEW c, c.current = t % Word, c.rx_rto \in RtoMin .. RtoMax
  PROVE  SegInv(Resent(c, s), IF Kind(c, s) # "none" THEN t ELSE at,
                IF Kind(c, s) = "fast" THEN f + 1 ELSE f, t)
<1>1. /\ RtoMax \in Nat \ {0} /\ RtoMin \in Nat \ {0} /\ MaxXmit \in Nat
      /\ Interval \in Nat /\ MaxLate \in Nat /\ Half \in Nat /\ ProbeLimit \in Nat
      /\ FastLimit \in Nat
  BY Words
<1>2. /\ s.xmit \in 1 .. (MaxXmit + 1) /\ s.rto \in RtoMin .. (RtoMax * s.xmit)
      /\ s.xmit \in Nat \ {0}
      /\ at \in Nat /\ at <= now /\ now - at < s.rto
      /\ s.resendts = (at + s.rto) % Word
      /\ f \in 0 .. FastLimit /\ f < s.xmit
      /\ s \in Seg
  BY <1>1 DEF SegInv
<1>3. s.rto \in Nat \ {0} /\ s.rto + ProbeLimit + Interval + MaxLate < Half
  BY <1>2, RtoBound
<1> DEFINE due == at + s.rto
<1>4. due \in Int /\ -Half <= t - due /\ t - due < Half
  BY <1>1, <1>2, <1>3
<1>5. itimediff(c.current, s.resendts) = t - due
  BY <1>2, <1>4, Serial
<1>6. t % Word \in Nat
  BY WordNat
<1>7. CASE Kind(c, s) = "none"
  <2>1. t - due < 0
    BY <1>2, <1>4, <1>5, <1>7 DEF Kind
  <2>2. Resent(c, s) = s
    BY <1>7 DEF Resent
  <2>3. t - at < s.rto
    BY <1>2, <1>3, <2>1
  <2> QED BY <1>2, <1>7, <2>2, <2>3 DEF SegInv
<1>8. CASE Kind(c, s) = "timeout"
  <2> DEFINE d == c.rx_rto \div 2
             r == s.rto + d
  <2>1. d \in 0 .. RtoMax
    <3>1. c.rx_rto \in Nat /\ c.rx_rto <= RtoMax
      BY <1>1
    <3>2. d \in 0 .. c.rx_rto
      BY <3>1, HalfInt
    <3> QED BY <1>1, <3>1, <3>2
  <2>2. r \in RtoMin .. (RtoMax * (s.xmit + 1))
    BY <1>2, <2>1, RtoGrows
  <2>3. r \in Nat \ {0}
    BY <1>3, <2>1
  <2>4. Plus(c.current, r) = (t + r) % Word
    BY <2>3, PlusWord
  <2>5. (t + r) % Word \in Nat
    BY <2>3, WordNat
  <2>6. Resent(c, s) = [s EXCEPT !.xmit = s.xmit + 1, !.ts = c.current, !.rto = r,
                                 !.resendts = (t + r) % Word]
    BY <1>8, <2>4 DEF Resent
  <2> HIDE DEF r
  <2>7. /\ Resent(c, s) \in Seg
        /\ Resent(c, s).xmit = s.xmit + 1 /\ Resent(c, s).rto = r
        /\ Resent(c, s).resendts = (t + r) % Word
    <3>1. s.xmit + 1 \in Nat /\ c.current \in Nat /\ r \in Nat
      BY <1>2, <1>6, <2>3
    <3> DEFINE w == (t + r) % Word
               u == Resent(c, s)
               x == s.xmit + 1
               a == c.current
    <3>2. /\ s \in Seg /\ x \in Nat /\ a \in Nat /\ r \in Nat /\ w \in Nat
          /\ u = [s EXCEPT !.xmit = x, !.ts = a, !.rto = r, !.resendts = w]
      BY <1>2, <2>5, <2>6, <3>1
    <3> HIDE DEF w, u, x, a
    <3>3. u \in Seg /\ u.xmit = x /\ u.resendts = w /\ u.rto = r
      BY <3>2 DEF Seg
    <3> QED BY <3>3 DEF w, u, x
  <2>8. s.xmit + 1 \in 1 .. (MaxXmit + 1) /\ t - t < r /\ f < s.xmit + 1
    BY <1>1, <1>2, <2>3
  <2> QED BY <1>2, <1>8, <2>2, <2>7, <2>8 DEF SegInv
<1>9. CASE Kind(c, s) = "fast"
  <2>1. s.xmit <= FastLimit
    BY <1>9 DEF Kind
  <2>2. s.rto \in RtoMin .. (RtoMax * (s.xmit + 1))
    <3>1. 0 \in 0 .. RtoMax /\ s.rto + 0 = s.rto
      BY <1>1, <1>3
    <3> QED BY <1>2, <3>1, RtoGrows
  <2>4. Plus(c.current, s.rto) = (t + s.rto) % Word
    <3> DEFINE r == s.rto
    <3>1. r \in Int
      BY <1>3
    <3> HIDE DEF r
    <3>2. Plus(t % Word, r) = (t + r) % Word
      BY <3>1, PlusWord
    <3> QED BY <3>2 DEF r
  <2>5. (t + s.rto) % Word \in Nat
    BY <1>3, WordNat
  <2>6. Resent(c, s) = [s EXCEPT !.xmit = s.xmit + 1, !.ts = c.current, !.fastack = 0,
                                 !.resendts = (t + s.rto) % Word]
    BY <1>9, <2>4 DEF Resent
  <2>7. /\ Resent(c, s) \in Seg
        /\ Resent(c, s).xmit = s.xmit + 1 /\ Resent(c, s).rto = s.rto
        /\ Resent(c, s).resendts = (t + s.rto) % Word
    <3>1. s.xmit + 1 \in Nat /\ c.current \in Nat
      BY <1>2, <1>6
    <3> DEFINE w == (t + s.rto) % Word
               u == Resent(c, s)
               x == s.xmit + 1
               a == c.current
    <3>2. /\ s \in Seg /\ x \in Nat /\ a \in Nat /\ w \in Nat
          /\ u = [s EXCEPT !.xmit = x, !.ts = a, !.fastack = 0, !.resendts = w]
      BY <1>2, <2>5, <2>6, <3>1
    <3> HIDE DEF w, u, x, a
    <3>3. u \in Seg /\ u.xmit = x /\ u.resendts = w /\ u.rto = s.rto
      BY <3>2 DEF Seg
    <3> QED BY <3>3 DEF w, u, x
  <2>8. s.xmit + 1 \in 1 .. (MaxXmit + 1) /\ t - t < s.rto
          /\ f + 1 < s.xmit + 1 /\ f + 1 \in 0 .. FastLimit
    BY <1>1, <1>2, <1>3, <2>1
  <2> QED BY <1>9, <2>2, <2>7, <2>8 DEF SegInv
<1>10. Kind(c, s) \in {"none", "timeout", "fast"}
  BY <1>2 DEF Kind
<1> QED BY <1>7, <1>8, <1>9, <1>10

(* A flush sends a new segment. *)
LEMMA NewStep ==
  ASSUME NEW t \in Nat, NEW c, c.current = t % Word, c.rx_rto \in RtoMin .. RtoMax
  PROVE  /\ Kind(c, NewSeg(c)) = "first"
         /\ SegInv(Resent(c, NewSeg(c)), t, 0, t)
<1>1. /\ RtoMax \in Nat \ {0} /\ RtoMin \in Nat \ {0} /\ MaxXmit \in Nat /\ FastLimit \in Nat
  BY Words
<1>2. Kind(c, NewSeg(c)) = "first" /\ NewSeg(c).xmit = 0
  BY DEF Kind, NewSeg
<1>3. c.rx_rto \in Nat \ {0} /\ t % Word \in Nat /\ (t + c.rx_rto) % Word \in Nat
  BY <1>1, WordNat
<1>4. NewSeg(c) \in Seg
  BY <1>3 DEF NewSeg, Seg
<1>5. Plus(c.current, c.rx_rto) = (t + c.rx_rto) % Word
  <2> DEFINE r == c.rx_rto
  <2>1. r \in Int
    BY <1>3
  <2> HIDE DEF r
  <2>2. Plus(t % Word, r) = (t + r) % Word
    BY <2>1, PlusWord
  <2> QED BY <2>2 DEF r
<1> DEFINE s == NewSeg(c)
<1> HIDE DEF s
<1>6. Resent(c, s) = [s EXCEPT !.xmit = 1, !.ts = c.current, !.rto = c.rx_rto,
                               !.resendts = (t + c.rx_rto) % Word]
  BY <1>2, <1>5 DEF Resent, s
<1>7. /\ Resent(c, s) \in Seg /\ Resent(c, s).xmit = 1 /\ Resent(c, s).rto = c.rx_rto
      /\ Resent(c, s).resendts = (t + c.rx_rto) % Word
  <2>1. 1 \in Nat /\ c.current \in Nat /\ c.rx_rto \in Nat /\ s \in Seg
    BY <1>3, <1>4 DEF s
  <2> DEFINE w == (t + c.rx_rto) % Word
             u == Resent(c, s)
             a == c.current
             r == c.rx_rto
  <2>2. /\ a \in Nat /\ r \in Nat /\ w \in Nat
        /\ u = [s EXCEPT !.xmit = 1, !.ts = a, !.rto = r, !.resendts = w]
    BY <1>3, <1>6, <2>1
  <2> HIDE DEF w, u, a, r
  <2>3. u \in Seg /\ u.xmit = 1 /\ u.resendts = w /\ u.rto = r
    BY <2>1, <2>2 DEF Seg
  <2> QED BY <2>3 DEF w, u, r
<1>8. 1 \in 1 .. (MaxXmit + 1) /\ t - t < c.rx_rto /\ c.rx_rto \in RtoMin .. (RtoMax * 1)
        /\ 0 \in 0 .. FastLimit
  BY <1>1, <1>3
<1>9. SegInv(Resent(c, s), t, 0, t)
  BY <1>7, <1>8 DEF SegInv
<1> QED BY <1>2, <1>9 DEF s

(* What an acknowledgement does to a segment that stays in snd_buf.        *)
LEMMA SegFastack ==
  ASSUME NEW s, NEW at, NEW f, NEW now, SegInv(s, at, f, now), NEW n \in Nat
  PROVE  SegInv([s EXCEPT !.fastack = n], at, f, now)
BY DEF SegInv, Seg

-----------------------------------------------------------------------------
(* The timers. *)
(* Every call flushes, and leaves ts_flush at most a period ahead.         *)
LEMMA ClockStep ==
  ASSUME clock \in Nat, ClockInv, NEW late \in Late,
         NEW t, t = IF k.updated THEN clock + Interval + late ELSE clock
  PROVE  /\ t \in Nat /\ clock <= t /\ t <= clock + Interval + MaxLate
         /\ Flushes(k, t % Word)
         /\ \E d \in 1 .. Interval : NextFlush(k, t % Word) = (t + d) % Word
<1>1. /\ Interval \in Nat \ {0} /\ MaxLate \in Nat /\ Half \in Nat /\ SlapLimit \in Nat
      /\ SlapLimit > Interval /\ Interval + MaxLate < Half
      /\ late \in Nat /\ late <= MaxLate
  <2> DEFINE p == RtoMax * (MaxXmit + 1)
  <2>1. p \in Nat /\ p + ProbeLimit + Interval + MaxLate < Half
    BY Words
  <2> HIDE DEF p
  <2> QED BY <2>1, Words
<1>2. t \in Nat /\ clock <= t /\ t <= clock + Interval + MaxLate
  BY <1>1
<1> DEFINE now == t % Word
<1>3. ASSUME NEW b \in Int, SlapBase(k, now) = b % Word, b <= t,
             t - b < Half, t - b < Interval \/ b + Interval <= t
      PROVE  /\ Flushes(k, now)
             /\ \E d \in 1 .. Interval : NextFlush(k, now) = (t + d) % Word
  <2>1. itimediff(now, SlapBase(k, now)) = t - b
    <3>1. t \in Int /\ b \in Int /\ -Half <= t - b /\ t - b < Half
      BY <1>1, <1>2, <1>3
    <3>2. itimediff(t % Word, b % Word) = t - b
      BY <3>1, Serial
    <3> QED BY <1>3, <3>2
  <2>2. Flushes(k, now)
    BY <1>2, <1>3, <2>1 DEF Flushes
  <2> DEFINE e == b + Interval
  <2>3. e \in Int /\ -Half <= t - e /\ t - e < Half
    BY <1>1, <1>2, <1>3
  <2>4. Plus(SlapBase(k, now), Interval) = e % Word
    <3>1. Plus(b % Word, Interval) = (b + Interval) % Word
      BY <1>1, PlusWord
    <3> QED BY <1>3, <3>1
  <2>5. itimediff(now, e % Word) = t - e
    BY <1>2, <2>3, Serial
  <2>6. CASE t - e >= 0
    <3>1. NextFlush(k, now) = Plus(now, Interval)
      BY <2>2, <2>4, <2>5, <2>6 DEF NextFlush
    <3>2. Plus(now, Interval) = (t + Interval) % Word
      <4>1. t \in Int /\ Interval \in Int
        BY <1>1, <1>2
      <4> QED BY <4>1, PlusWord
    <3>3. Interval \in 1 .. Interval
      BY <1>1
    <3> QED BY <2>2, <3>1, <3>2, <3>3
  <2>7. CASE ~(t - e >= 0)
    <3>1. NextFlush(k, now) = e % Word
      BY <2>2, <2>4, <2>5, <2>7 DEF NextFlush
    <3>2. e - t \in 1 .. Interval /\ t + (e - t) = e
      BY <1>1, <1>2, <1>3, <2>3, <2>7
    <3> QED BY <2>2, <3>1, <3>2
  <2> QED BY <2>6, <2>7
<1>4. CASE ~k.updated
  <2>1. SlapBase(k, now) = t % Word
    BY <1>4 DEF SlapBase
  <2>2. t \in Int /\ t <= t /\ t - t < Half /\ t - t < Interval
    BY <1>1, <1>2
  <2> HIDE DEF now
  <2> QED BY <1>2, <1>3, <2>1, <2>2 DEF now
<1>5. CASE k.updated
  <2>1. PICK d \in 1 .. Interval : k.ts_flush = (clock + d) % Word
    BY <1>5 DEF ClockInv
  <2> DEFINE b == clock + d
  <2>2. b \in Int /\ b <= t /\ t - b < Half /\ -Half <= t - b
    BY <1>1, <1>5, <2>1
  <2>3. itimediff(now, k.ts_flush) = t - b
    BY <1>2, <2>1, <2>2, Serial
  <2>4. ~(itimediff(now, k.ts_flush) < -SlapLimit)
    BY <1>1, <1>2, <2>2, <2>3
  <2>5. CASE t - b >= SlapLimit
    <3>1. SlapBase(k, now) = t % Word
      BY <2>3, <2>5 DEF SlapBase
    <3>2. t \in Int /\ t <= t /\ t - t < Half /\ t - t < Interval
      BY <1>1, <1>2
    <3> HIDE DEF now
    <3> QED BY <1>2, <1>3, <3>1, <3>2 DEF now
  <2>6. CASE ~(t - b >= SlapLimit)
    <3>1. SlapBase(k, now) = b % Word
      BY <1>5, <2>1, <2>3, <2>4, <2>6 DEF SlapBase
    <3>2. t - b < Interval \/ b + Interval <= t
      BY <1>1, <1>2, <2>2
    <3> HIDE DEF now, b
    <3> QED BY <1>2, <1>3, <2>2, <3>1, <3>2 DEF now
  <2> QED BY <2>5, <2>6
<1> QED BY <1>2, <1>4, <1>5

(* The probe timer. *)
LEMMA ProbeStep ==
  ASSUME TypeInv, ProbeInv, NEW t \in Nat, clock <= t, t <= clock + Interval + MaxLate,
         NEW c, c.current = t % Word, c.rmt_open = k.rmt_open,
         c.probe_wait = k.probe_wait, c.ts_probe = k.ts_probe,
         NEW p, p = ProbeWait(c), NEW q, q = ProbeTs(c),
         NEW a, a = IF c.rmt_open \/ c.probe_wait = 0 \/ Asks(c) THEN t ELSE asked
  PROVE  /\ p \in Nat /\ q \in Words32 /\ a \in Nat
         /\ p = 0 => a = t
         /\ p # 0 => /\ p \in ProbeInit .. ProbeLimit /\ q = (a + p) % Word
                     /\ a <= t /\ t - a < p
<1>1. /\ Interval \in Nat /\ MaxLate \in Nat /\ Half \in Nat
      /\ ProbeInit \in Nat \ {0} /\ ProbeLimit \in Nat /\ ProbeInit <= ProbeLimit
      /\ Interval + MaxLate < Half /\ ProbeLimit < Half
  <2> DEFINE m == RtoMax * (MaxXmit + 1)
  <2>1. m \in Nat /\ m + ProbeLimit + Interval + MaxLate < Half
    BY Words
  <2> HIDE DEF m
  <2> QED BY <2>1, Words
<1>2. k.rmt_open \in BOOLEAN /\ k.probe_wait \in Nat /\ k.ts_probe \in Words32
        /\ asked \in Nat /\ clock \in Nat
  BY DEF TypeInv, Block
<1>3. CASE c.rmt_open
  <2>1. p = 0 /\ q = 0 /\ a = t
    BY <1>3 DEF ProbeWait, ProbeTs
  <2>2. 0 \in Words32
    BY Words DEF Words32
  <2> QED BY <2>1, <2>2
<1>4. CASE ~c.rmt_open /\ c.probe_wait = 0
  <2>1. p = ProbeInit /\ q = Plus(c.current, p) /\ a = t
    BY <1>4 DEF ProbeWait, ProbeTs
  <2>2. q = (t + p) % Word /\ q \in Words32
    <3>1. t \in Int /\ p \in Int /\ t + p \in Int
      BY <1>1, <2>1
    <3>2. Plus(t % Word, p) = (t + p) % Word /\ (t + p) % Word \in Words32
      BY <3>1, PlusWord, WordNat
    <3> QED BY <2>1, <3>2
  <2>3. p \in ProbeInit .. ProbeLimit /\ p \in Nat \ {0} /\ a <= t /\ t - a < p /\ a \in Nat
    BY <1>1, <2>1
  <2> QED BY <2>1, <2>2, <2>3
<1>5. CASE ~c.rmt_open /\ c.probe_wait # 0
  <2> DEFINE w == k.probe_wait
             due == asked + w
  <2>1. /\ w \in ProbeInit .. ProbeLimit /\ k.ts_probe = due % Word
        /\ asked <= clock /\ clock - asked < w
    BY <1>5 DEF ProbeInv
  <2>2. due \in Int /\ -Half <= t - due /\ t - due < Half
    BY <1>1, <1>2, <2>1
  <2>3. itimediff(c.current, c.ts_probe) = t - due
    BY <2>1, <2>2, Serial
  <2>4. Asks(c) <=> t - due >= 0
    BY <1>5, <2>3 DEF Asks
  <2>5. CASE Asks(c)
    <3> DEFINE more == w + w \div 2
    <3>1. w \div 2 \in 0 .. w
      BY <1>2, HalfInt
    <3>2. p = IF more > ProbeLimit THEN ProbeLimit ELSE more
      BY <1>5, <2>5 DEF ProbeWait
    <3>3. p \in ProbeInit .. ProbeLimit
      BY <1>1, <1>2, <2>1, <3>1, <3>2
    <3>4. a = t /\ q = Plus(c.current, p)
      BY <1>5, <2>5 DEF ProbeTs
    <3>5. q = (t + p) % Word /\ q \in Words32
      <4>1. t \in Int /\ p \in Int /\ t + p \in Int
        BY <1>1, <3>3
      <4>2. Plus(t % Word, p) = (t + p) % Word /\ (t + p) % Word \in Words32
        BY <4>1, PlusWord, WordNat
      <4> QED BY <3>4, <4>2
    <3>6. p \in Nat \ {0} /\ a <= t /\ t - a < p /\ a \in Nat
      BY <1>1, <3>3, <3>4
    <3> QED BY <3>3, <3>4, <3>5, <3>6
  <2>6. CASE ~Asks(c)
    <3>1. p = w /\ q = k.ts_probe /\ a = asked
      BY <1>5, <2>6 DEF ProbeWait, ProbeTs
    <3>2. t - due < 0
      BY <1>2, <2>2, <2>4, <2>6
    <3>3. a <= t /\ t - a < p
      BY <1>2, <2>1, <3>1, <3>2
    <3> QED BY <1>1, <1>2, <2>1, <3>1, <3>3
  <2> QED BY <2>5, <2>6
<1> QED BY <1>2, <1>3, <1>4, <1>5

-----------------------------------------------------------------------------
(* snd_buf. *)
LEMMA BufElim ==
  ASSUME NEW f \in Bufs
  PROVE  /\ DOMAIN f \subseteq 0 .. (MaxSegs - 1)
         /\ \A sn \in DOMAIN f : f[sn] \in Seg
BY DEF Bufs

LEMMA BufIntro ==
  ASSUME NEW f, f = [sn \in DOMAIN f |-> f[sn]], DOMAIN f \subseteq 0 .. (MaxSegs - 1),
         \A sn \in DOMAIN f : f[sn] \in Seg
  PROVE  f \in Bufs
<1>1. f \in [DOMAIN f -> Seg]
  OBVIOUS
<1> QED BY <1>1 DEF Bufs

(* The parts of a block that ikcp_input leaves alone. *)
SameTimers(c, r) ==
  /\ r.updated = c.updated /\ r.current = c.current /\ r.ts_flush = c.ts_flush
  /\ r.snd_nxt = c.snd_nxt /\ r.probe_wait = c.probe_wait /\ r.ts_probe = c.ts_probe

Bounded(c) ==
  /\ c \in Block /\ c.snd_una <= c.snd_nxt
  /\ DOMAIN c.snd_buf \subseteq c.snd_una .. (c.snd_nxt - 1)

(* ikcp_shrink_buf moves snd_una to the first segment that is left. *)
LEMMA ShrunkStep ==
  ASSUME NEW c, Bounded(c), NEW S, NEW r, r = Shrunk(c, S)
  PROVE  /\ Bounded(r) /\ SameTimers(c, r)
         /\ r.rmt_open = c.rmt_open /\ r.rx_rto = c.rx_rto
         /\ DOMAIN r.snd_buf \subseteq DOMAIN c.snd_buf
         /\ \A sn \in DOMAIN r.snd_buf : r.snd_buf[sn] = c.snd_buf[sn]
<1> DEFINE D == DOMAIN c.snd_buf \ S
           buf == [sn \in D |-> c.snd_buf[sn]]
           una == IF D = {} THEN c.snd_nxt ELSE Min(D)
<1>1. /\ c.snd_buf \in Bufs /\ c.snd_nxt \in 0 .. MaxSegs /\ c.snd_una \in Nat
      /\ c.snd_una <= c.snd_nxt
      /\ DOMAIN c.snd_buf \subseteq c.snd_una .. (c.snd_nxt - 1)
  BY DEF Bounded, Block
<1>2. DOMAIN buf = D
  OBVIOUS
<1>3. buf \in Bufs
  <2>1. D \subseteq 0 .. (MaxSegs - 1) /\ \A sn \in D : c.snd_buf[sn] \in Seg
    BY <1>1, BufElim
  <2>2. buf = [sn \in DOMAIN buf |-> buf[sn]] /\ \A sn \in DOMAIN buf : buf[sn] \in Seg
    BY <2>1
  <2>3. DOMAIN buf \subseteq 0 .. (MaxSegs - 1)
    BY <1>2, <2>1
  <2> HIDE DEF buf
  <2> QED BY <2>2, <2>3, BufIntro
<1>4. una \in Nat /\ una <= c.snd_nxt /\ D \subseteq una .. (c.snd_nxt - 1)
  <2>0. MaxSegs \in Nat
    BY TimerAssumption
  <2>1. CASE D = {}
    BY <1>1, <2>0, <2>1
  <2>2. CASE D # {}
    <3>1. D \in SUBSET Nat
      BY <1>1, <2>0
    <3>2. Min(D) \in D /\ \A y \in D : Min(D) =< y
      BY <2>2, <3>1, NatMin
    <3>3. Min(D) \in c.snd_una .. (c.snd_nxt - 1) /\ una = Min(D)
      BY <1>1, <2>2, <3>2
    <3>4. ASSUME NEW y \in D PROVE y \in una .. (c.snd_nxt - 1)
      <4>1. y \in c.snd_una .. (c.snd_nxt - 1) /\ Min(D) =< y
        BY <1>1, <3>2
      <4> HIDE DEF D
      <4> QED BY <1>1, <2>0, <3>3, <4>1
    <3> QED BY <1>1, <2>0, <3>3, <3>4
  <2> QED BY <2>1, <2>2
<1>5. r = [c EXCEPT !.snd_buf = buf, !.snd_una = una]
  BY <1>2 DEF Shrunk
<1> HIDE DEF buf, una
<1>6. /\ r \in Block /\ r.snd_una = una /\ r.snd_buf = buf
      /\ r.snd_nxt = c.snd_nxt /\ SameTimers(c, r)
      /\ r.rmt_open = c.rmt_open /\ r.rx_rto = c.rx_rto
  BY <1>3, <1>4, <1>5 DEF Bounded, Block, SameTimers
<1>7. \A sn \in DOMAIN buf : sn \in DOMAIN c.snd_buf /\ buf[sn] = c.snd_buf[sn]
  BY <1>2 DEF buf
<1> QED BY <1>2, <1>4, <1>6, <1>7 DEF Bounded

(* The steps of ikcp_input keep the invariant: they take segments away and *)
(* count skipped ones, and do not touch the timers.                        *)
InputEffect ==
  /\ Bounded(k') /\ SameTimers(k, k')
  /\ DOMAIN k'.snd_buf \subseteq DOMAIN k.snd_buf
  /\ \A sn \in DOMAIN k'.snd_buf :
       \/ k'.snd_buf[sn] = k.snd_buf[sn]
       \/ \E m \in Nat : k'.snd_buf[sn] = [k.snd_buf[sn] EXCEPT !.fastack = m]
  /\ maxack' \in Idle .. (MaxSegs - 1)
  /\ UNCHANGED <<clock, echo, hist>>

LEMMA InputStep ==
  ASSUME IInv, InputEffect
  PROVE  IInv'
<1> USE DEF IInv, SameTimers, hist, InputEffect
<1>1. TypeInv'
  BY DEF TypeInv, Bounded
<1>2. HistInv'
  BY DEF HistInv
<1>3. SegsInv'
  <2> SUFFICES ASSUME NEW sn \in DOMAIN k'.snd_buf
               PROVE  SegInv(k'.snd_buf[sn], sentAt[sn], fast[sn], clock)
    BY DEF SegsInv
  <2>1. SegInv(k.snd_buf[sn], sentAt[sn], fast[sn], clock)
    BY DEF SegsInv
  <2>2. CASE k'.snd_buf[sn] = k.snd_buf[sn]
    BY <2>1, <2>2
  <2>3. ASSUME NEW m \in Nat, k'.snd_buf[sn] = [k.snd_buf[sn] EXCEPT !.fastack = m]
        PROVE  SegInv(k'.snd_buf[sn], sentAt[sn], fast[sn], clock)
    <3> DEFINE s == k.snd_buf[sn]
    <3>1. SegInv([s EXCEPT !.fastack = m], sentAt[sn], fast[sn], clock)
      <4> HIDE DEF s
      <4>1. SegInv(s, sentAt[sn], fast[sn], clock)
        BY <2>1 DEF s
      <4> QED BY <4>1, SegFastack
    <3> QED BY <2>3, <3>1
  <2> QED BY <2>2, <2>3
<1>4. ClockInv'
  <2>1. DOMAIN k.snd_buf = {} => DOMAIN k'.snd_buf = {}
    OBVIOUS
  <2> QED BY <2>1 DEF ClockInv
<1>5. ProbeInv'
  BY DEF ProbeInv
<1> QED BY <1>1, <1>2, <1>3, <1>4, <1>5

-----------------------------------------------------------------------------
(* The invariant holds at first, and every step keeps it.                  *)
LEMMA InitInv ==
  ASSUME Init
  PROVE  IInv
<1>1. /\ clock \in Nat /\ Word \in Nat /\ Interval \in 0 .. (Word - 1) /\ 0 \in 0 .. (Word - 1)
      /\ RtoDef \in RtoMin .. RtoMax /\ MaxSegs \in Nat
  <2> DEFINE m == RtoMax * (MaxXmit + 1)
  <2>1. m \in Nat /\ m + ProbeLimit + Interval + MaxLate < Half
    BY Words
  <2> HIDE DEF m
  <2> QED BY <2>1, Words, TimerAssumption DEF Init
<1> DEFINE b == <<>>
<1>2. DOMAIN b = {} /\ b = [sn \in DOMAIN b |-> b[sn]]
  OBVIOUS
<1> HIDE DEF b
<1>3. b \in Bufs
  BY <1>2, BufIntro
<1>4. k = [updated |-> FALSE, current |-> 0, ts_flush |-> Interval, snd_una |-> 0,
           snd_nxt |-> 0, snd_buf |-> b, rx_srtt |-> 0, rx_rttval |-> 0,
           rx_rto |-> RtoDef, rmt_open |-> TRUE, probe_wait |-> 0, ts_probe |-> 0]
        /\ sentAt = b /\ fast = b
  BY DEF Init, ikcp_create, b
<1>5. k \in Block /\ k.snd_una = 0 /\ k.snd_nxt = 0 /\ k.snd_buf = b
        /\ ~k.updated /\ k.probe_wait = 0
  BY <1>1, <1>3, <1>4 DEF Block, Words32
<1>6. maxack \in Idle .. (MaxSegs - 1)
  BY <1>1 DEF Init, Idle
<1>7. TypeInv
  BY <1>1, <1>2, <1>5, <1>6 DEF TypeInv, Init
<1>8. HistInv /\ SegsInv
  BY <1>2, <1>4, <1>5 DEF HistInv, SegsInv
<1>9. ClockInv /\ ProbeInv
  BY <1>2, <1>5 DEF ClockInv, ProbeInv, Init
<1> QED BY <1>7, <1>8, <1>9 DEF IInv

LEMMA InputDoes ==
  ASSUME IInv, NEW una, NEW open \in BOOLEAN, Input(una, open)
  PROVE  InputEffect
<1> DEFINE c == [k EXCEPT !.rmt_open = open]
           S == {sn \in DOMAIN k.snd_buf : sn < una}
<1>1. Bounded(c) /\ SameTimers(k, c) /\ c.snd_buf = k.snd_buf
  BY DEF IInv, TypeInv, Bounded, Block, SameTimers
<1>2. k' = Shrunk(c, S)
  BY DEF Input
<1> HIDE DEF c, S
<1>3. /\ Bounded(k') /\ SameTimers(c, k')
      /\ DOMAIN k'.snd_buf \subseteq DOMAIN k.snd_buf
      /\ \A sn \in DOMAIN k'.snd_buf : k'.snd_buf[sn] = k.snd_buf[sn]
  BY <1>1, <1>2, ShrunkStep
<1>4. SameTimers(k, k')
  BY <1>1, <1>3 DEF SameTimers
<1>5. maxack' \in Idle .. (MaxSegs - 1)
  BY TimerAssumption DEF Input, Idle
<1> QED BY <1>3, <1>4, <1>5 DEF InputEffect, Input

(* ikcp_update_ack keeps rx_rto within its bounds. *)
LEMMA UpdateAck ==
  ASSUME NEW c, Bounded(c), NEW rtt \in Nat, NEW r, r = ikcp_update_ack(c, rtt)
  PROVE  Bounded(r) /\ SameTimers(c, r) /\ r.snd_buf = c.snd_buf
<1> DEFINE dev    == 3 * c.rx_rttval + AbsDiff(rtt, c.rx_srtt)
           sum    == 7 * c.rx_srtt + rtt
           mean   == sum \div 8
           rttval == IF c.rx_srtt = 0 THEN rtt \div 2 ELSE dev \div 4
           srtt   == IF c.rx_srtt = 0 THEN rtt ELSE IF mean < 1 THEN 1 ELSE mean
<1>1. c \in Block /\ c.rx_srtt \in Nat /\ c.rx_rttval \in Nat
  BY DEF Bounded, Block
<1>2. dev \in Nat /\ sum \in Nat
  BY <1>1 DEF AbsDiff
<1>3. dev \div 4 \in Nat /\ mean \in Nat /\ rtt \div 2 \in Nat
  <2> HIDE DEF dev, sum
  <2> QED BY <1>2
<1>4. rttval \in Nat /\ srtt \in Nat
  <2> HIDE DEF mean, dev
  <2> QED BY <1>1, <1>3
<1>5. r = [c EXCEPT !.rx_srtt = srtt, !.rx_rttval = rttval, !.rx_rto = Rto(srtt, rttval)]
  BY DEF ikcp_update_ack
<1> HIDE DEF srtt, rttval
<1>6. Rto(srtt, rttval) \in RtoMin .. RtoMax
  BY <1>4, Words, TimerAssumption DEF Rto
<1> HIDE DEF Rto
<1> QED BY <1>1, <1>4, <1>5, <1>6 DEF Bounded, Block, SameTimers

LEMMA InputAckDoes ==
  ASSUME IInv, NEW e \in echo, InputAck(e)
  PROVE  InputEffect
<1> DEFINE rtt == itimediff(k.current, e.at % Word)
           c   == IF rtt >= 0 THEN ikcp_update_ack(k, rtt) ELSE k
           S   == {sn \in {e.sn} : c.snd_una <= sn /\ sn < c.snd_nxt}
<1>1. Bounded(k) /\ k.current \in Int /\ e.sn \in 0 .. (MaxSegs - 1) /\ e.at \in Nat
        /\ maxack \in Idle .. (MaxSegs - 1) /\ MaxSegs \in Nat
  <2>1. e \in [sn : 0 .. (MaxSegs - 1), at : Nat]
    BY DEF IInv, TypeInv
  <2>2. Word \in Nat
    BY Words
  <2> QED BY <2>1, <2>2, TimerAssumption DEF IInv, TypeInv, Bounded, Block, Words32
<1>2. rtt \in Int
  <2> DEFINE w == e.at % Word
             d == (k.current - w) % Word
  <2>1. w \in Int
    BY <1>1, WordNat
  <2> HIDE DEF w
  <2>2. k.current - w \in Int
    BY <1>1, <2>1
  <2>3. d \in Int
    BY <2>2, WordNat
  <2>4. rtt = IF d < Half THEN d ELSE d - Word
    BY DEF itimediff, w
  <2> HIDE DEF d
  <2> QED BY <2>3, <2>4, Words
<1>3. k' = Shrunk(c, S)
  BY DEF InputAck
<1> HIDE DEF rtt
<1>4. Bounded(c) /\ SameTimers(k, c) /\ c.snd_buf = k.snd_buf
  <2>1. CASE rtt >= 0
    <3>1. rtt \in Nat
      BY <1>2, <2>1
    <3> QED BY <1>1, <2>1, <3>1, UpdateAck
  <2>2. CASE ~(rtt >= 0)
    BY <1>1, <2>2 DEF SameTimers
  <2> QED BY <2>1, <2>2
<1> HIDE DEF c, S
<1>5. /\ Bounded(k') /\ SameTimers(c, k')
      /\ DOMAIN k'.snd_buf \subseteq DOMAIN k.snd_buf
      /\ \A sn \in DOMAIN k'.snd_buf : k'.snd_buf[sn] = k.snd_buf[sn]
  BY <1>3, <1>4, ShrunkStep
<1>6. SameTimers(k, k')
  BY <1>4, <1>5 DEF SameTimers
<1>7. maxack' \in Idle .. (MaxSegs - 1)
  BY <1>1 DEF InputAck, Idle
<1> QED BY <1>5, <1>6, <1>7 DEF InputEffect, InputAck

LEMMA InputEndDoes ==
  ASSUME IInv, InputEnd
  PROVE  InputEffect
<1>1. Bounded(k)
  BY DEF IInv, TypeInv, Bounded
<1> DEFINE fa(s) == Min({k.snd_buf[s].fastack + 1, FastResend})
           buf == [s \in DOMAIN k.snd_buf |->
                     IF s < maxack THEN [k.snd_buf[s] EXCEPT !.fastack = fa(s)]
                     ELSE k.snd_buf[s]]
<1>2. k' = k \/ k' = [k EXCEPT !.snd_buf = buf]
  <2>1. k' = k \/ k' = ikcp_parse_fastack(k, maxack)
    BY DEF InputEnd
  <2>2. \/ ikcp_parse_fastack(k, maxack) = k
        \/ ikcp_parse_fastack(k, maxack) = [k EXCEPT !.snd_buf = buf]
    BY Zenon DEF ikcp_parse_fastack
  <2> HIDE DEF buf
  <2> QED BY <2>1, <2>2
<1>3. \A s \in DOMAIN k.snd_buf : k.snd_buf[s] \in Seg
  BY <1>1, BufElim DEF Bounded, Block
<1>4. ASSUME NEW s \in DOMAIN k.snd_buf PROVE fa(s) \in Nat
  <2> DEFINE a == k.snd_buf[s].fastack
  <2>1. a \in Nat /\ FastResend \in Nat
    BY <1>3, Words DEF Seg
  <2> HIDE DEF a
  <2>2. {a + 1, FastResend} \in SUBSET Nat /\ {a + 1, FastResend} # {}
    BY <2>1
  <2>3. Min({a + 1, FastResend}) \in {a + 1, FastResend}
    BY <2>2, NatMin
  <2> QED BY <2>1, <2>3 DEF a
<1> HIDE DEF fa
<1>5. \A s \in DOMAIN buf : \/ buf[s] = k.snd_buf[s]
                            \/ \E m \in Nat : buf[s] = [k.snd_buf[s] EXCEPT !.fastack = m]
  BY <1>4
<1>6. ASSUME NEW s \in DOMAIN buf PROVE buf[s] \in Seg
  <2>1. k.snd_buf[s] \in Seg
    BY <1>3
  <2> DEFINE g == k.snd_buf[s]
  <2>2. ASSUME NEW m \in Nat PROVE [g EXCEPT !.fastack = m] \in Seg
    <3>1. g \in Seg
      BY <2>1
    <3> HIDE DEF g
    <3> QED BY <3>1 DEF Seg
  <2> QED BY <1>5, <2>1, <2>2
<1>7. DOMAIN buf = DOMAIN k.snd_buf /\ buf = [s \in DOMAIN buf |-> buf[s]]
  OBVIOUS
<1> HIDE DEF buf
<1>8. DOMAIN buf \subseteq 0 .. (MaxSegs - 1)
  BY <1>1, <1>7, BufElim DEF Bounded, Block
<1>9. buf \in Bufs
  BY <1>6, <1>7, <1>8, BufIntro
<1>10. maxack' \in Idle .. (MaxSegs - 1)
  BY TimerAssumption DEF InputEnd, Idle
<1>11. CASE k' = k
  BY <1>1, <1>10, <1>11 DEF InputEffect, SameTimers, InputEnd
<1>12. CASE k' = [k EXCEPT !.snd_buf = buf]
  <2>1. Bounded(k') /\ SameTimers(k, k') /\ k'.snd_buf = buf
    BY <1>1, <1>7, <1>9, <1>12 DEF Bounded, Block, SameTimers
  <2>2. \A s \in DOMAIN k'.snd_buf :
          \/ k'.snd_buf[s] = k.snd_buf[s]
          \/ \E m \in Nat : k'.snd_buf[s] = [k.snd_buf[s] EXCEPT !.fastack = m]
    BY <1>5, <2>1
  <2> QED BY <1>7, <1>10, <2>1, <2>2 DEF InputEffect, InputEnd
<1> QED BY <1>2, <1>11, <1>12

(* The real time of a call of ikcp_update, and the block that it flushes.  *)
Tick(late) == IF k.updated THEN clock + Interval + late ELSE clock

Called(t) ==
  [k EXCEPT !.updated = TRUE, !.current = t % Word, !.ts_flush = NextFlush(k, t % Word)]

(* What a call of ikcp_update does. *)
Effect(n, t, c) ==
  /\ t \in Nat /\ clock <= t /\ t <= clock + Interval + MaxLate
  /\ k.updated => clock + Interval <= t
  /\ \E d \in 1 .. Interval : c.ts_flush = (t + d) % Word
  /\ maxack = Idle /\ maxack' = maxack
  /\ clock' = t /\ lastFlush' = t
  /\ c.snd_nxt + n <= MaxSegs
  /\ \A sn \in DOMAIN k.snd_buf : k.snd_buf[sn].xmit < MaxXmit
  /\ out' = [sn \in Sends(c, n) |-> Kind(c, Filled(c, n)[sn])]
  /\ sentAt' = [sn \in DOMAIN Filled(c, n) |->
                  IF sn \in Sends(c, n) THEN t ELSE sentAt[sn]]
  /\ fast' = [sn \in DOMAIN Filled(c, n) |->
                IF sn \notin DOMAIN fast THEN 0
                ELSE IF Kind(c, Filled(c, n)[sn]) = "fast"
                THEN fast[sn] + 1 ELSE fast[sn]]
  /\ asked' = IF c.rmt_open \/ c.probe_wait = 0 \/ Asks(c) THEN t ELSE asked
  /\ echo' = {e \in echo : e.at + MaxAge >= t} \cup [sn : Sends(c, n), at : {t}]
  /\ c \in Block /\ c.updated /\ c.current = t % Word
  /\ c.snd_una = k.snd_una /\ c.snd_nxt = k.snd_nxt /\ c.snd_buf = k.snd_buf
  /\ c.rx_rto = k.rx_rto /\ c.rmt_open = k.rmt_open
  /\ c.probe_wait = k.probe_wait /\ c.ts_probe = k.ts_probe
  /\ k' = [c EXCEPT !.snd_buf = [sn \in DOMAIN Filled(c, n) |->
                                   Resent(c, Filled(c, n)[sn])],
                    !.snd_nxt = k.snd_nxt + n,
                    !.probe_wait = ProbeWait(c), !.ts_probe = ProbeTs(c)]
  /\ DOMAIN Filled(c, n) = DOMAIN k.snd_buf \cup k.snd_nxt .. (k.snd_nxt + n - 1)
  /\ \A sn \in DOMAIN Filled(c, n) :
       Filled(c, n)[sn] = IF sn \in DOMAIN k.snd_buf THEN k.snd_buf[sn] ELSE NewSeg(c)

LEMMA UpdateEffect ==
  ASSUME IInv, NEW n \in 0 .. MaxSegs, NEW late \in Late, Update(n, late),
         NEW t, t = Tick(late), NEW c, c = Called(t)
  PROVE  Effect(n, t, c)
<1>1. k \in Block /\ clock \in Nat
  BY DEF IInv, TypeInv
<1>2. /\ t \in Nat /\ clock <= t /\ t <= clock + Interval + MaxLate
      /\ Flushes(k, t % Word)
      /\ \E d \in 1 .. Interval : NextFlush(k, t % Word) = (t + d) % Word
  BY <1>1, ClockStep DEF IInv, Tick
<1>3. k.updated => clock + Interval <= t
  BY <1>1, Words DEF Tick
<1>4. /\ maxack = Idle /\ maxack' = maxack
      /\ clock' = t /\ lastFlush' = t
      /\ c.snd_nxt + n <= MaxSegs
      /\ \A sn \in DOMAIN k.snd_buf : k.snd_buf[sn].xmit < MaxXmit
      /\ k' = ikcp_flush(c, n)
      /\ out' = [sn \in Sends(c, n) |-> Kind(c, Filled(c, n)[sn])]
      /\ sentAt' = [sn \in DOMAIN Filled(c, n) |->
                      IF sn \in Sends(c, n) THEN t ELSE sentAt[sn]]
      /\ fast' = [sn \in DOMAIN Filled(c, n) |->
                    IF sn \notin DOMAIN fast THEN 0
                    ELSE IF Kind(c, Filled(c, n)[sn]) = "fast"
                    THEN fast[sn] + 1 ELSE fast[sn]]
      /\ asked' = IF c.rmt_open \/ c.probe_wait = 0 \/ Asks(c) THEN t ELSE asked
      /\ echo' = {e \in echo : e.at + MaxAge >= t} \cup [sn : Sends(c, n), at : {t}]
  BY <1>2, ZenonT(90) DEF Update, Tick, Called
<1> DEFINE cur == t % Word
           flush == NextFlush(k, t % Word)
<1>5. cur \in Words32 /\ flush \in Words32
  <2>1. ASSUME NEW d \in 1 .. Interval PROVE (t + d) % Word \in Words32
    <3>1. t + d \in Int
      BY <1>2, Words
    <3> QED BY <3>1, WordNat
  <2>2. t \in Int
    BY <1>2
  <2> QED BY <1>2, <2>1, <2>2, WordNat DEF cur, flush
<1>6. c = [k EXCEPT !.updated = TRUE, !.current = cur, !.ts_flush = flush]
  BY DEF Called
<1>7. /\ c \in Block /\ c.updated /\ c.current = t % Word /\ c.ts_flush = flush
      /\ c.snd_una = k.snd_una /\ c.snd_nxt = k.snd_nxt /\ c.snd_buf = k.snd_buf
      /\ c.rx_rto = k.rx_rto /\ c.rmt_open = k.rmt_open
      /\ c.probe_wait = k.probe_wait /\ c.ts_probe = k.ts_probe
  <2> HIDE DEF cur, flush
  <2>1. /\ c \in Block /\ c.updated /\ c.current = cur /\ c.ts_flush = flush
        /\ c.snd_una = k.snd_una /\ c.snd_nxt = k.snd_nxt /\ c.snd_buf = k.snd_buf
        /\ c.rx_rto = k.rx_rto /\ c.rmt_open = k.rmt_open
        /\ c.probe_wait = k.probe_wait /\ c.ts_probe = k.ts_probe
    BY <1>1, <1>5, <1>6 DEF Block
  <2> QED BY <2>1 DEF cur
<1>8. k' = [c EXCEPT !.snd_buf = [sn \in DOMAIN Filled(c, n) |->
                                    Resent(c, Filled(c, n)[sn])],
                     !.snd_nxt = k.snd_nxt + n,
                     !.probe_wait = ProbeWait(c), !.ts_probe = ProbeTs(c)]
  <2>1. ikcp_flush(c, n) = [c EXCEPT !.snd_buf = [sn \in DOMAIN Filled(c, n) |->
                                                    Resent(c, Filled(c, n)[sn])],
                                     !.snd_nxt = c.snd_nxt + n,
                                     !.probe_wait = ProbeWait(c), !.ts_probe = ProbeTs(c)]
    BY DEF ikcp_flush
  <2> QED BY <1>4, <1>7, <2>1
<1>9. /\ DOMAIN Filled(c, n) = DOMAIN k.snd_buf \cup k.snd_nxt .. (k.snd_nxt + n - 1)
      /\ \A sn \in DOMAIN Filled(c, n) :
           Filled(c, n)[sn] = IF sn \in DOMAIN k.snd_buf THEN k.snd_buf[sn] ELSE NewSeg(c)
  BY <1>7 DEF Filled
<1>10. \E d \in 1 .. Interval : c.ts_flush = (t + d) % Word
  BY <1>2, <1>7
<1> HIDE DEF cur, flush
<1> QED BY <1>2, <1>3, <1>4, <1>7, <1>8, <1>9, <1>10 DEF Effect

(* ikcp_update: every segment is sent in time, new ones at once. *)
LEMMA UpdateInv ==
  ASSUME IInv, NEW n \in 0 .. MaxSegs, NEW late \in Late, Update(n, late)
  PROVE  IInv'
<1> DEFINE t == Tick(late)
           c == Called(t)
           F == Filled(c, n)
           B == [sn \in DOMAIN F |-> Resent(c, F[sn])]
           p == ProbeWait(c)
           q == ProbeTs(c)
           a == IF c.rmt_open \/ c.probe_wait = 0 \/ Asks(c) THEN t ELSE asked
<1>1. /\ k \in Block /\ k.snd_nxt \in 0 .. MaxSegs /\ k.snd_una \in Nat
      /\ k.snd_buf \in Bufs /\ k.rx_rto \in RtoMin .. RtoMax
      /\ k.snd_una <= k.snd_nxt /\ clock \in Nat /\ MaxSegs \in Nat
      /\ DOMAIN k.snd_buf \subseteq k.snd_una .. (k.snd_nxt - 1)
      /\ echo \subseteq [sn : 0 .. (MaxSegs - 1), at : Nat]
  BY TimerAssumption DEF IInv, TypeInv, Block
<1> HIDE DEF t, c
<1>2. t = Tick(late) /\ c = Called(t)
  BY DEF t, c
<1>3. Effect(n, t, c)
  BY <1>2, UpdateEffect
<1>4. /\ t \in Nat /\ clock <= t /\ t <= clock + Interval + MaxLate
      /\ \E d \in 1 .. Interval : c.ts_flush = (t + d) % Word
      /\ maxack = Idle /\ maxack' = maxack
      /\ clock' = t /\ lastFlush' = t
      /\ c.snd_nxt + n <= MaxSegs
      /\ \A sn \in DOMAIN k.snd_buf : k.snd_buf[sn].xmit < MaxXmit
      /\ sentAt' = [sn \in DOMAIN F |-> IF sn \in Sends(c, n) THEN t ELSE sentAt[sn]]
      /\ fast' = [sn \in DOMAIN F |->
                    IF sn \notin DOMAIN fast THEN 0
                    ELSE IF Kind(c, F[sn]) = "fast" THEN fast[sn] + 1 ELSE fast[sn]]
      /\ asked' = a
      /\ echo' = {e \in echo : e.at + MaxAge >= t} \cup [sn : Sends(c, n), at : {t}]
  BY <1>3 DEF Effect
<1>6. /\ c \in Block /\ c.updated /\ c.current = t % Word
      /\ c.snd_una = k.snd_una /\ c.snd_nxt = k.snd_nxt /\ c.snd_buf = k.snd_buf
      /\ c.rx_rto = k.rx_rto /\ c.rmt_open = k.rmt_open
      /\ c.probe_wait = k.probe_wait /\ c.ts_probe = k.ts_probe
  BY <1>3 DEF Effect
<1>7. k' = [c EXCEPT !.snd_buf = B, !.snd_nxt = k.snd_nxt + n,
                     !.probe_wait = p, !.ts_probe = q]
  BY <1>3 DEF Effect
<1>8. /\ DOMAIN F = DOMAIN k.snd_buf \cup k.snd_nxt .. (k.snd_nxt + n - 1)
      /\ \A sn \in DOMAIN F :
           F[sn] = IF sn \in DOMAIN k.snd_buf THEN k.snd_buf[sn] ELSE NewSeg(c)
  BY <1>3 DEF Effect
<1> HIDE DEF F
<1>9. DOMAIN B = DOMAIN F /\ \A sn \in DOMAIN F : B[sn] = Resent(c, F[sn])
  OBVIOUS
<1>10. ASSUME NEW sn \in DOMAIN F
       PROVE  /\ SegInv(B[sn], sentAt'[sn], fast'[sn], clock')
              /\ sn \in k.snd_una .. (k.snd_nxt + n - 1)
              /\ sn \in DOMAIN sentAt' /\ sn \in DOMAIN fast'
  <2>1. /\ sentAt'[sn] = (IF Kind(c, F[sn]) # "none" THEN t ELSE sentAt[sn])
        /\ sn \in DOMAIN sentAt' /\ sn \in DOMAIN fast'
    <3>1. sn \in Sends(c, n) <=> Kind(c, F[sn]) # "none"
      BY DEF Sends, F
    <3> QED BY <1>4, <3>1
  <2>2. CASE sn \in DOMAIN k.snd_buf
    <3>1. SegInv(k.snd_buf[sn], sentAt[sn], fast[sn], clock) /\ sn \in DOMAIN fast
      BY <2>2 DEF IInv, SegsInv, HistInv
    <3>2. F[sn] = k.snd_buf[sn] /\ k.snd_buf[sn].xmit < MaxXmit
      BY <1>4, <1>8, <2>2
    <3>3. SegInv(Resent(c, F[sn]),
                 IF Kind(c, F[sn]) # "none" THEN t ELSE sentAt[sn],
                 IF Kind(c, F[sn]) = "fast" THEN fast[sn] + 1 ELSE fast[sn], t)
      <4> DEFINE s == F[sn]
      <4>1. SegInv(s, sentAt[sn], fast[sn], clock) /\ s.xmit < MaxXmit
        BY <3>1, <3>2
      <4>2. c.current = t % Word /\ c.rx_rto \in RtoMin .. RtoMax
        BY <1>1, <1>6
      <4> HIDE DEF s
      <4>3. SegInv(Resent(c, s), IF Kind(c, s) # "none" THEN t ELSE sentAt[sn],
                   IF Kind(c, s) = "fast" THEN fast[sn] + 1 ELSE fast[sn], t)
        BY <1>1, <1>4, <4>1, <4>2, SegStep
      <4> QED BY <4>3 DEF s
    <3>4. fast'[sn] = IF Kind(c, F[sn]) = "fast" THEN fast[sn] + 1 ELSE fast[sn]
      BY <1>4, <3>1
    <3>5. sn \in k.snd_una .. (k.snd_nxt + n - 1)
      BY <1>1, <2>2
    <3> QED BY <1>4, <1>9, <2>1, <3>3, <3>4, <3>5
  <2>3. CASE sn \notin DOMAIN k.snd_buf
    <3>1. F[sn] = NewSeg(c) /\ sn \in k.snd_nxt .. (k.snd_nxt + n - 1)
      BY <1>8, <2>3
    <3>2. Kind(c, NewSeg(c)) = "first" /\ SegInv(Resent(c, NewSeg(c)), t, 0, t)
      BY <1>1, <1>4, <1>6, NewStep
    <3>3. sn \notin DOMAIN fast
      <4>1. sn \in DOMAIN fast => sn \in 0 .. (k.snd_nxt - 1)
        BY DEF IInv, HistInv
      <4> QED BY <1>1, <3>1, <4>1
    <3>4. fast'[sn] = 0 /\ sentAt'[sn] = t
      BY <1>4, <2>1, <3>1, <3>2, <3>3
    <3>5. sn \in k.snd_una .. (k.snd_nxt + n - 1)
      BY <1>1, <3>1
    <3> QED BY <1>4, <1>9, <2>1, <3>1, <3>2, <3>4, <3>5
  <2> QED BY <2>2, <2>3
<1> HIDE DEF B
<1>11. DOMAIN B \subseteq k.snd_una .. (k.snd_nxt + n - 1)
         /\ DOMAIN B \subseteq 0 .. (MaxSegs - 1)
  <2>1. k.snd_nxt + n <= MaxSegs
    BY <1>4, <1>6
  <2>2. DOMAIN B \subseteq k.snd_una .. (k.snd_nxt + n - 1)
    BY <1>9, <1>10
  <2>3. k.snd_una .. (k.snd_nxt + n - 1) \subseteq 0 .. (MaxSegs - 1)
    BY <1>1, <2>1
  <2> QED BY <2>2, <2>3
<1>12. B \in Bufs
  <2>1. \A sn \in DOMAIN B : B[sn] \in Seg
    BY <1>9, <1>10 DEF SegInv
  <2>2. B = [sn \in DOMAIN B |-> B[sn]]
    BY DEF B
  <2> QED BY <1>11, <2>1, <2>2, BufIntro
<1>13. /\ p \in Nat /\ q \in Words32 /\ a \in Nat
       /\ p = 0 => a = t
       /\ p # 0 => /\ p \in ProbeInit .. ProbeLimit /\ q = (a + p) % Word
                   /\ a <= t /\ t - a < p
  <2> DEFINE r == p
             w == q
             b == a
  <2>1. r = ProbeWait(c) /\ w = ProbeTs(c)
          /\ b = IF c.rmt_open \/ c.probe_wait = 0 \/ Asks(c) THEN t ELSE asked
    OBVIOUS
  <2> HIDE DEF r, w, b, p, q, a
  <2>2. /\ r \in Nat /\ w \in Words32 /\ b \in Nat
        /\ r = 0 => b = t
        /\ r # 0 => /\ r \in ProbeInit .. ProbeLimit /\ w = (b + r) % Word
                    /\ b <= t /\ t - b < r
    BY <1>4, <1>6, <2>1, ProbeStep DEF IInv
  <2> QED BY <2>2 DEF r, w, b
<1> HIDE DEF p, q, a
<1>14. k.snd_nxt + n \in 0 .. MaxSegs
  BY <1>1, <1>4, <1>6
<1>15. /\ k' \in Block /\ k'.updated /\ k'.current = t % Word /\ k'.ts_flush = c.ts_flush
       /\ k'.snd_una = k.snd_una /\ k'.snd_nxt = k.snd_nxt + n /\ k'.snd_buf = B
       /\ k'.probe_wait = p /\ k'.ts_probe = q
  BY <1>6, <1>7, <1>12, <1>13, <1>14 DEF Block
<1>16. TypeInv'
  <2>1. maxack' \in Idle .. (MaxSegs - 1)
    BY <1>4 DEF IInv, TypeInv
  <2>2. k.snd_una <= k.snd_nxt + n
    BY <1>1
  <2>3. Sends(c, n) \subseteq DOMAIN F
    BY DEF Sends, F
  <2>4. Sends(c, n) \subseteq 0 .. (MaxSegs - 1)
    BY <1>9, <1>11, <2>3
  <2>5. echo' \subseteq [sn : 0 .. (MaxSegs - 1), at : Nat]
    <3>1. [sn : Sends(c, n), at : {t}] \subseteq [sn : 0 .. (MaxSegs - 1), at : Nat]
      BY <1>4, <2>4
    <3> QED BY <1>1, <1>4, <3>1
  <2>6. /\ k' \in Block /\ k'.snd_una <= k'.snd_nxt
        /\ DOMAIN k'.snd_buf \subseteq k'.snd_una .. (k'.snd_nxt - 1)
    <3> DEFINE m == k.snd_nxt + n
    <3>1. k.snd_una <= m /\ DOMAIN B \subseteq k.snd_una .. (m - 1)
      BY <1>1, <1>11, <1>14, <2>2
    <3>2. k' \in Block /\ k'.snd_una = k.snd_una /\ k'.snd_nxt = m /\ k'.snd_buf = B
      BY <1>15
    <3> HIDE DEF m
    <3> QED BY <3>1, <3>2
  <2>7. clock' \in Nat /\ asked' \in Nat
    BY <1>4, <1>13
  <2> QED BY <2>1, <2>5, <2>6, <2>7 DEF TypeInv
<1>17. SegsInv'
  BY <1>9, <1>10, <1>15 DEF SegsInv
<1>18. HistInv'
  <2>1. \A sn \in DOMAIN F : fast'[sn] \in 0 .. FastLimit
    BY <1>10 DEF SegInv
  <2>2. DOMAIN fast' = DOMAIN F
    BY <1>4
  <2>3. DOMAIN F \subseteq 0 .. (k.snd_nxt + n - 1)
    BY <1>1, <1>9, <1>11
  <2>4. \A sn \in DOMAIN fast' : sn \in 0 .. (k'.snd_nxt - 1) /\ fast'[sn] \in 0 .. FastLimit
    <3> DEFINE m == k.snd_nxt + n
    <3>1. DOMAIN F \subseteq 0 .. (m - 1) /\ k'.snd_nxt = m
      BY <1>1, <1>14, <1>15, <2>3
    <3> HIDE DEF m
    <3> QED BY <2>1, <2>2, <3>1
  <2>5. DOMAIN k'.snd_buf \subseteq DOMAIN sentAt' /\ DOMAIN k'.snd_buf \subseteq DOMAIN fast'
    BY <1>9, <1>10, <1>15
  <2> QED BY <2>4, <2>5 DEF HistInv
<1>19. ClockInv'
  BY <1>4, <1>15 DEF ClockInv
<1>20. ProbeInv'
  BY <1>4, <1>13, <1>15 DEF ProbeInv
<1> QED BY <1>16, <1>17, <1>18, <1>19, <1>20 DEF IInv

(* The invariant is inductive. *)
LEMMA NextInv ==
  ASSUME IInv, [Next]_vars
  PROVE  IInv'
<1>1. CASE Next
  <2>1. ASSUME NEW n \in 0 .. MaxSegs, NEW late \in Late, Update(n, late) PROVE IInv'
    BY <2>1, UpdateInv
  <2>2. ASSUME NEW una \in k.snd_una .. k.snd_nxt, NEW open \in BOOLEAN, Input(una, open)
        PROVE  IInv'
    BY <2>2, InputDoes, InputStep
  <2>3. ASSUME NEW e \in echo, InputAck(e) PROVE IInv'
    BY <2>3, InputAckDoes, InputStep
  <2>4. ASSUME InputEnd PROVE IInv'
    BY <2>4, InputEndDoes, InputStep
  <2> QED BY <1>1, <2>1, <2>2, <2>3, <2>4 DEF Next
<1>2. CASE UNCHANGED vars
  BY <1>2 DEF vars, hist, IInv, TypeInv, HistInv, SegsInv, SegInv, ClockInv, ProbeInv
<1> QED BY <1>1, <1>2

LEMMA Invariant == Spec => []IInv
BY InitInv, NextInv, PTL DEF Spec


-----------------------------------------------------------------------------
(* The counters and times of the control block stay in their ranges        *)
(* (TypeOK, of ikcp_update, ikcp_flush and ikcp_input).                    *)
THEOREM TypeCorrect == Spec => []TypeOK
<1>1. IInv => TypeOK
  <2> SUFFICES ASSUME IInv PROVE TypeOK
    OBVIOUS
  <2>1. /\ k \in Block /\ k.snd_una <= k.snd_nxt /\ k.snd_buf \in Bufs
        /\ DOMAIN k.snd_buf \subseteq k.snd_una .. (k.snd_nxt - 1)
        /\ clock \in Nat /\ asked \in Nat /\ lastFlush = clock
        /\ maxack \in Idle .. (MaxSegs - 1)
        /\ DOMAIN k.snd_buf \subseteq DOMAIN sentAt \cap DOMAIN fast
    BY DEF IInv, TypeInv, HistInv, ClockInv, Block
  <2>2. k.snd_una \in 0 .. k.snd_nxt /\ k.snd_nxt \in 0 .. MaxSegs
    BY <2>1, TimerAssumption DEF Block
  <2>3. \A sn \in DOMAIN k.snd_buf : k.snd_buf[sn] \in Seg
    BY <2>1, BufElim
  <2> QED BY <2>1, <2>2, <2>3 DEF TypeOK, Block, Words32
<1> QED BY <1>1, Invariant, PTL

(* Every call of ikcp_update flushes: the timer of the update coroutine    *)
(* and ts_flush cannot drift apart, whatever the delays and the wraps.     *)
THEOREM UpdateFlushes == Spec => []AlwaysFlushes
<1>1. IInv => AlwaysFlushes
  BY DEF IInv, ClockInv, AlwaysFlushes
<1> QED BY <1>1, Invariant, PTL

(* After every call of ikcp_update, no segment of snd_buf has been waiting *)
(* for longer than its rto.                                                *)
THEOREM RetransmitsPunctually == Spec => []Punctual
<1>1. IInv => Punctual
  BY DEF IInv, SegsInv, SegInv, Punctual
<1> QED BY <1>1, Invariant, PTL

(* ikcp_flush retransmits no segment early more than fastlimit times.      *)
THEOREM FastRetransmitsLimited == Spec => []FastLimited
<1>1. IInv => FastLimited
  <2> SUFFICES ASSUME IInv, NEW sn \in DOMAIN fast PROVE fast[sn] <= FastLimit
    BY DEF FastLimited
  <2>1. fast[sn] \in 0 .. FastLimit /\ FastLimit \in Nat
    BY Words DEF IInv, HistInv
  <2> QED BY <2>1
<1> QED BY <1>1, Invariant, PTL

(* ikcp_update_ack keeps rx_rto between its bounds, and the time-out of a  *)
(* segment is explained by the number of its transmissions.                *)
THEOREM RtoBounded == Spec => []RtoInRange
<1>1. IInv => RtoInRange
  BY DEF IInv, TypeInv, Block, SegsInv, SegInv, RtoInRange
<1> QED BY <1>1, Invariant, PTL

(* A closed window is probed at least every IKCP_PROBE_LIMIT. *)
THEOREM ProbesPunctually == Spec => []ProbePunctual
<1>1. IInv => ProbePunctual
  <2> SUFFICES ASSUME IInv PROVE clock - asked < ProbeLimit
    BY DEF ProbePunctual
  <2>1. /\ k.probe_wait \in Nat /\ asked \in Nat /\ clock \in Nat
        /\ ProbeInit \in Nat \ {0} /\ ProbeLimit \in Nat /\ ProbeInit <= ProbeLimit
    BY Words DEF IInv, TypeInv, Block
  <2>2. CASE k.probe_wait = 0
    BY <2>1, <2>2 DEF IInv, ProbeInv
  <2>3. CASE k.probe_wait # 0
    <3>1. k.probe_wait \in ProbeInit .. ProbeLimit /\ clock - asked < k.probe_wait
      BY <2>3 DEF IInv, ProbeInv
    <3> QED BY <2>1, <3>1
  <2> QED BY <2>2, <2>3
<1> QED BY <1>1, Invariant, PTL

-----------------------------------------------------------------------------
(***************************************************************************)
(* The refinement of Retransmission.                                       *)
(***************************************************************************)
(* What KcpTimer substitutes for `now' and `due' of Retransmission: a      *)
(* segment is due an rto after its last transmission.                      *)
Now == IF k.updated THEN clock ELSE clock - Interval

Due == [sn \in DOMAIN k.snd_buf |-> clock + itimediff(k.snd_buf[sn].resendts, k.current)]

LEMMA DueIs ==
  ASSUME IInv, NEW sn \in DOMAIN k.snd_buf
  PROVE  /\ Due[sn] = sentAt[sn] + k.snd_buf[sn].rto
         /\ Due[sn] \in Nat /\ Due[sn] > clock /\ k.updated
<1> DEFINE s == k.snd_buf[sn]
           at == sentAt[sn]
           due == at + s.rto
<1>1. SegInv(s, at, fast[sn], clock)
  BY DEF IInv, SegsInv
<1>2. clock \in Nat /\ k.updated /\ k.current = clock % Word
  BY DEF IInv, TypeInv, ClockInv
<1>3. /\ s.rto \in Nat \ {0} /\ s.rto + ProbeLimit + Interval + MaxLate < Half
      /\ Half \in Nat /\ ProbeLimit \in Nat /\ Interval \in Nat /\ MaxLate \in Nat
  <2>1. s.xmit \in 1 .. (MaxXmit + 1) /\ s.rto \in RtoMin .. (RtoMax * s.xmit)
    BY <1>1 DEF SegInv
  <2> HIDE DEF s
  <2> QED BY <2>1, RtoBound, Words
<1>4. at \in Nat /\ at <= clock /\ clock - at < s.rto /\ s.resendts = due % Word
  BY <1>1 DEF SegInv
<1>5. due \in Nat /\ due > clock /\ -Half <= due - clock /\ due - clock < Half
  BY <1>2, <1>3, <1>4
<1>6. itimediff(s.resendts, k.current) = due - clock
  <2> HIDE DEF due
  <2>1. due \in Int /\ clock \in Int
    BY <1>2, <1>5
  <2>2. itimediff(due % Word, clock % Word) = due - clock
    BY <1>5, <2>1, Serial
  <2> QED BY <1>2, <1>4, <2>2
<1>7. Due[sn] = clock + (due - clock)
  BY <1>6 DEF Due
<1>8. Due[sn] = due
  <2> HIDE DEF due
  <2> QED BY <1>2, <1>5, <1>7
<1> QED BY <1>2, <1>5, <1>8

DueInv ==
  \A sn \in DOMAIN k.snd_buf :
    Due[sn] = sentAt[sn] + k.snd_buf[sn].rto /\ Due[sn] \in Nat /\ Due[sn] > clock

LEMMA DueInvariant == IInv => DueInv
BY DueIs DEF DueInv

(* A step of ikcp_input takes segments away and changes no due time. *)
LEMMA InputDue ==
  ASSUME IInv, k'.current = k.current, k'.updated = k.updated,
         DOMAIN k'.snd_buf \subseteq DOMAIN k.snd_buf,
         \A sn \in DOMAIN k'.snd_buf : k'.snd_buf[sn].resendts = k.snd_buf[sn].resendts,
         UNCHANGED <<clock, out>>
  PROVE  /\ DOMAIN Due' \subseteq DOMAIN Due /\ \A sn \in DOMAIN Due' : Due'[sn] = Due[sn]
         /\ Now' = Now /\ out' = out
BY DEF Due, Now

(* A flush sends what is due, and nothing that is not but what is new or   *)
(* overtaken.                                                              *)
LEMMA UpdateDue ==
  ASSUME IInv, NEW n \in 0 .. MaxSegs, NEW late \in Late, Update(n, late)
  PROVE  /\ Now' >= Now + Interval
         /\ DOMAIN Due \subseteq DOMAIN Due' /\ DOMAIN out' \subseteq DOMAIN Due'
         /\ \A sn \in DOMAIN Due' :
              /\ Due'[sn] > Now'
              /\ sn \notin DOMAIN Due => sn \in DOMAIN out' /\ out'[sn] = "first"
              /\ sn \in DOMAIN Due /\ Due[sn] <= Now'
                   => sn \in DOMAIN out' /\ out'[sn] = "timeout"
              /\ sn \in DOMAIN Due /\ Due[sn] > Now'
                   => IF sn \in DOMAIN out' THEN out'[sn] = "fast"
                      ELSE Due'[sn] = Due[sn]
<1> DEFINE t == Tick(late)
           c == Called(t)
           F == Filled(c, n)
<1> HIDE DEF t, c
<1>1. t = Tick(late) /\ c = Called(t)
  BY DEF t, c
<1>2. Effect(n, t, c)
  BY <1>1, UpdateEffect
<1>3. IInv'
  BY UpdateInv
<1>4. /\ t \in Nat /\ clock <= t /\ t <= clock + Interval + MaxLate
      /\ k.updated => clock + Interval <= t
      /\ clock' = t /\ c.current = t % Word
      /\ out' = [sn \in Sends(c, n) |-> Kind(c, F[sn])]
      /\ sentAt' = [sn \in DOMAIN F |-> IF sn \in Sends(c, n) THEN t ELSE sentAt[sn]]
  BY <1>2 DEF Effect
<1>5. /\ DOMAIN F = DOMAIN k.snd_buf \cup k.snd_nxt .. (k.snd_nxt + n - 1)
      /\ \A sn \in DOMAIN F :
           F[sn] = IF sn \in DOMAIN k.snd_buf THEN k.snd_buf[sn] ELSE NewSeg(c)
  BY <1>2 DEF Effect
<1>6. /\ k'.updated /\ DOMAIN k'.snd_buf = DOMAIN F
      /\ \A sn \in DOMAIN F : k'.snd_buf[sn] = Resent(c, F[sn])
  <2> DEFINE B == [sn \in DOMAIN F |-> Resent(c, F[sn])]
             u == k.snd_nxt + n
             p == ProbeWait(c)
             q == ProbeTs(c)
  <2>1. k' = [c EXCEPT !.snd_buf = B, !.snd_nxt = u, !.probe_wait = p, !.ts_probe = q]
          /\ c \in Block /\ c.updated
    BY <1>2 DEF Effect
  <2> HIDE DEF B, u, p, q, F
  <2>2. k'.updated /\ k'.snd_buf = B
    BY <2>1 DEF Block
  <2> QED BY <2>2 DEF B
<1>7. clock \in Nat /\ Interval \in Nat /\ MaxLate \in Nat /\ Half \in Nat
  BY Words DEF IInv, TypeInv
<1>8. Now' = t /\ t >= Now + Interval
  BY <1>4, <1>6, <1>7 DEF Now
<1>9. Sends(c, n) = {sn \in DOMAIN F : Kind(c, F[sn]) # "none"}
  BY DEF Sends
<1>10. DOMAIN Due = DOMAIN k.snd_buf /\ DOMAIN Due' = DOMAIN F /\ DOMAIN out' = Sends(c, n)
  BY <1>4, <1>6 DEF Due
<1> HIDE DEF F
<1>11. ASSUME NEW sn \in DOMAIN F
       PROVE  /\ Due'[sn] > t /\ Due'[sn] = sentAt'[sn] + k'.snd_buf[sn].rto
              /\ k'.snd_buf[sn] = Resent(c, F[sn])
              /\ sn \in Sends(c, n) => out'[sn] = Kind(c, F[sn])
              /\ sn \in Sends(c, n) <=> Kind(c, F[sn]) # "none"
              /\ sn \notin Sends(c, n) => sentAt'[sn] = sentAt[sn]
  <2>0. DueInv'
    BY <1>3, DueInvariant, PTL
  <2>1. Due'[sn] = sentAt'[sn] + k'.snd_buf[sn].rto /\ Due'[sn] > clock'
    BY <1>6, <2>0 DEF DueInv
  <2> QED BY <1>4, <1>6, <1>9, <2>1
<1>12. ASSUME NEW sn \in DOMAIN F, sn \notin DOMAIN k.snd_buf
       PROVE  sn \in Sends(c, n) /\ out'[sn] = "first"
  <2>1. F[sn] = NewSeg(c)
    BY <1>5, <1>12
  <2>2. Kind(c, F[sn]) = "first"
    BY <2>1 DEF Kind, NewSeg
  <2> QED BY <1>11, <2>2
<1>13. ASSUME NEW sn \in DOMAIN k.snd_buf
       PROVE  /\ Due[sn] <= t => sn \in Sends(c, n) /\ out'[sn] = "timeout"
              /\ Due[sn] > t => IF sn \in Sends(c, n) THEN out'[sn] = "fast"
                                ELSE Due'[sn] = Due[sn]
  <2> DEFINE s == k.snd_buf[sn]
             due == Due[sn]
  <2>1. /\ due = sentAt[sn] + s.rto /\ due \in Nat /\ due > clock
        /\ sn \in DOMAIN F /\ F[sn] = s
    BY <1>5, DueIs
  <2>2. /\ SegInv(s, sentAt[sn], fast[sn], clock) /\ s.xmit # 0
        /\ s.resendts = (sentAt[sn] + s.rto) % Word
    BY <1>7 DEF IInv, SegsInv, SegInv
  <2>3. -Half <= t - due /\ t - due < Half
    <3>1. s.xmit \in 1 .. (MaxXmit + 1) /\ s.rto \in RtoMin .. (RtoMax * s.xmit)
      BY <2>2 DEF SegInv
    <3>2. sentAt[sn] \in Nat /\ sentAt[sn] <= clock
      BY <2>2 DEF SegInv
    <3>3. s.rto \in Nat \ {0} /\ s.rto + ProbeLimit + Interval + MaxLate < Half
            /\ ProbeLimit \in Nat
      <4> HIDE DEF s
      <4> QED BY <3>1, RtoBound, Words
    <3> HIDE DEF s, due
    <3> QED BY <1>4, <1>7, <2>1, <3>2, <3>3
  <2>4. itimediff(c.current, s.resendts) = t - due
    <3> HIDE DEF s, due
    <3>1. s.resendts = due % Word /\ due \in Int /\ t \in Int
      BY <1>4, <2>1, <2>2
    <3>2. itimediff(t % Word, due % Word) = t - due
      BY <2>3, <3>1, Serial
    <3> QED BY <1>4, <3>1, <3>2
  <2>5. CASE due <= t
    <3>1. t - due >= 0 /\ ~(t - due < 0)
      BY <1>4, <2>1, <2>5
    <3>2. Kind(c, s) = "timeout"
      BY <2>2, <2>4, <3>1 DEF Kind
    <3> QED BY <1>11, <2>1, <2>5, <3>2, <1>4
  <2>6. CASE due > t
    <3>1. ~(t - due >= 0)
      BY <1>4, <2>1, <2>6
    <3>2. Kind(c, s) \in {"fast", "none"}
      BY <2>2, <2>4, <3>1 DEF Kind
    <3>3. CASE Kind(c, s) = "none"
      <4>1. Resent(c, s) = s
        BY <3>3 DEF Resent
      <4>2. Due'[sn] = due /\ sn \notin Sends(c, n)
        BY <1>11, <2>1, <3>3, <4>1
      <4> QED BY <1>4, <2>1, <2>6, <4>2
    <3>4. CASE Kind(c, s) = "fast"
      BY <1>4, <1>11, <2>1, <2>6, <3>4
    <3> QED BY <3>2, <3>3, <3>4
  <2> QED BY <1>4, <2>1, <2>5, <2>6
<1> QED
  <2>1. DOMAIN Due \subseteq DOMAIN Due' /\ DOMAIN out' \subseteq DOMAIN Due'
    BY <1>5, <1>9, <1>10
  <2> QED BY <1>8, <1>10, <1>11, <1>12, <1>13, <2>1

LEMMA RefinesInit ==
  ASSUME Init
  PROVE  Timing!Init
<1> DEFINE b == <<>>
<1>1. DOMAIN b = {} /\ b = [sn \in DOMAIN b |-> b[sn]]
  OBVIOUS
<1>2. k.snd_buf = b /\ ~k.updated /\ out = b
  BY DEF Init, ikcp_create
<1>3. clock \in Nat /\ Interval \in Nat
  BY Words, TimerAssumption DEF Init
<1>4. Now \in Int
  BY <1>2, <1>3 DEF Now
<1> HIDE DEF b
<1>5. Due = b
  BY <1>1, <1>2 DEF Due
<1> QED BY <1>2, <1>4, <1>5 DEF Timing!Init, Now, Due, b

LEMMA RefinesNext ==
  ASSUME IInv, [Next]_vars
  PROVE  [Timing!Update \/ Timing!Acknowledge]_(Timing!rvars)
<1>1. ASSUME NEW n \in 0 .. MaxSegs, NEW late \in Late, Update(n, late)
      PROVE  Timing!Update
  BY <1>1, UpdateDue DEF Timing!Update, Now, Due
<1>2. ASSUME InputEffect PROVE Timing!Acknowledge
  <2>1. ASSUME NEW sn \in DOMAIN k'.snd_buf
        PROVE  k'.snd_buf[sn].resendts = k.snd_buf[sn].resendts
    <3> DEFINE s == k.snd_buf[sn]
    <3>1. s \in Seg
      BY <1>2 DEF IInv, SegsInv, SegInv, InputEffect
    <3>2. k'.snd_buf[sn] = s \/ \E m \in Nat : k'.snd_buf[sn] = [s EXCEPT !.fastack = m]
      BY <1>2 DEF InputEffect
    <3> HIDE DEF s
    <3>3. k'.snd_buf[sn].resendts = s.resendts
      BY <3>1, <3>2 DEF Seg
    <3> QED BY <3>3 DEF s
  <2>2. /\ k'.current = k.current /\ k'.updated = k.updated
        /\ DOMAIN k'.snd_buf \subseteq DOMAIN k.snd_buf
        /\ clock' = clock /\ out' = out
    BY <1>2 DEF InputEffect, SameTimers, hist
  <2> QED BY <2>1, <2>2, InputDue DEF Timing!Acknowledge, Now, Due
<1>3. CASE Next
  <2>1. ASSUME NEW una \in k.snd_una .. k.snd_nxt, NEW open \in BOOLEAN, Input(una, open)
        PROVE  InputEffect
    BY <2>1, InputDoes
  <2>2. ASSUME NEW e \in echo, InputAck(e) PROVE InputEffect
    BY <2>2, InputAckDoes
  <2>3. ASSUME InputEnd PROVE InputEffect
    BY <2>3, InputEndDoes
  <2> QED BY <1>1, <1>2, <1>3, <2>1, <2>2, <2>3 DEF Next
<1>4. CASE UNCHANGED vars
  <2>1. UNCHANGED <<Now, Due, out>>
    BY <1>4 DEF vars, hist, Now, Due
  <2> QED BY <2>1 DEF Timing!rvars, Now, Due
<1> QED BY <1>3, <1>4

(* With its wrapping clock the control block does what Retransmission does *)
(* in real time: ikcp_flush sends again whatever is due and nothing else.  *)
THEOREM ImplementsTiming == Spec => RetransmitsInTime
<1>1. Init => Timing!Init
  BY RefinesInit
<1>2. IInv /\ [Next]_vars => [Timing!Update \/ Timing!Acknowledge]_(Timing!rvars)
  BY RefinesNext
<1> QED BY <1>1, <1>2, Invariant, PTL DEF Spec, RetransmitsInTime, Timing!Spec
=============================================================================
