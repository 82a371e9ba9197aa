----------------------------- MODULE IkcpProofs -----------------------------
(***************************************************************************)
(* What the functions of ikcp.c in module Ikcp do to a control block, for  *)
(* every control block and every size and window.                          *)
(***************************************************************************)
EXTENDS Ikcp, WellFoundedInduction, TLAPS

(* Every non-empty set of naturals has a least element, which is Min.      *)
LEMMA NatMin ==
  ASSUME NEW S \in SUBSET Nat, S # {}
  PROVE  Min(S) \in S /\ \A y \in S : Min(S) =< y
<1> DEFINE R == {ss \in Nat \X Nat : ss[1] < ss[2]}
<1>1. IsWellFoundedOn(R, Nat)
  BY NatLessThanWellFounded DEF OpToRel
<1>2. \E x \in S : \A y \in S : ~ (<<y, x>> \in R)
  <2> HIDE DEF R
  <2> QED BY <1>1, WFMin
<1>3. PICK x \in S : \A y \in S : ~ (<<y, x>> \in R)
  BY <1>2
<1>4. ASSUME NEW y \in S PROVE x =< y
  <2>1. x \in Nat /\ y \in Nat /\ ~ (<<y, x>> \in R)
    BY <1>3
  <2>2. <<y, x>> \in R <=> y < x
    BY <2>1
  <2> QED BY <2>1, <2>2
<1> QED BY <1>4 DEF Min

-----------------------------------------------------------------------------
(* Maps from sequence numbers. *)
LEMMA SnMapElim ==
  ASSUME NEW S, NEW f \in SnMap(S)
  PROVE  /\ DOMAIN f \subseteq Nat
         /\ \A x \in DOMAIN f : f[x] \in S
BY DEF SnMap

LEMMA SnMapIntro ==
  ASSUME NEW S, NEW f, f = [x \in DOMAIN f |-> f[x]], DOMAIN f \subseteq Nat,
         \A x \in DOMAIN f : f[x] \in S
  PROVE  f \in SnMap(S)
<1>1. f \in [DOMAIN f -> S]
  OBVIOUS
<1> QED BY <1>1 DEF SnMap

LEMMA WithoutType ==
  ASSUME NEW S, NEW f \in SnMap(S), NEW T
  PROVE  /\ Without(f, T) \in SnMap(S)
         /\ DOMAIN Without(f, T) = DOMAIN f \ T
         /\ \A x \in DOMAIN f \ T : Without(f, T)[x] = f[x]
<1> DEFINE g == Without(f, T)
<1>1. DOMAIN g = DOMAIN f \ T /\ g = [x \in DOMAIN g |-> g[x]]
  BY DEF Without
<1>2. \A x \in DOMAIN f \ T : g[x] = f[x]
  BY DEF Without
<1>3. DOMAIN g \subseteq Nat /\ \A x \in DOMAIN g : g[x] \in S
  BY <1>1, <1>2, SnMapElim
<1>4. g \in SnMap(S)
  <2> HIDE DEF g
  <2> QED BY <1>1, <1>3, SnMapIntro
<1> QED BY <1>1, <1>2, <1>4

-----------------------------------------------------------------------------
(* ikcp_send *)
LEMMA FragCountType ==
  ASSUME NEW n \in Nat \ {0}
  PROVE  /\ FragCount(n) \in Nat \ {0}
         /\ \A i \in 1..FragCount(n) : (i - 1) * Mss < n
<1>1. Mss \in Nat \ {0}
  BY SizesAssumption
<1>2. CASE n <= Mss
  BY <1>1, <1>2 DEF FragCount
<1>3. CASE n > Mss
  <2> DEFINE q == (n + Mss - 1) \div Mss
  <2>1. q \in Int /\ q * Mss <= n + Mss - 1 /\ n + Mss - 1 < (q + 1) * Mss
    BY <1>1, <1>3
  <2>2. q > 0
    BY <1>1, <1>3, <2>1
  <2>3. ASSUME NEW i \in 1..q PROVE (i - 1) * Mss < n
    <3>1. i \in Int /\ (q - i) >= 0
      BY <2>1, <2>3
    <3> HIDE DEF q
    <3>2. (q - i) * Mss >= 0
      BY <3>1, <1>1, <2>1
    <3>3. (q - i) * Mss = q * Mss - i * Mss /\ (i - 1) * Mss = i * Mss - Mss
      BY <3>1, <1>1, <2>1
    <3> QED BY <3>1, <3>2, <3>3, <2>1, <1>1
  <2>4. FragCount(n) = q
    BY <1>1, <1>3 DEF FragCount
  <2> HIDE DEF q
  <2> QED BY <2>1, <2>2, <2>3, <2>4
<1> QED BY <1>1, <1>2, <1>3

LEMMA FragmentsType ==
  ASSUME NEW off \in Nat, NEW n \in Nat \ {0}
  PROVE  /\ Fragments(off, n) \in Seq(Seg)
         /\ Len(Fragments(off, n)) = FragCount(n)
         /\ \A i \in 1..FragCount(n) : Fragments(off, n)[i].frg = FragCount(n) - i
<1> DEFINE c == FragCount(n)
           s(i) == [frg |-> c - i, off |-> off + (i - 1) * Mss,
                    len |-> IF n > i * Mss THEN Mss ELSE n - (i - 1) * Mss]
<1>1. c \in Nat \ {0} /\ \A i \in 1..c : (i - 1) * Mss < n
  BY FragCountType
<1>2. Mss \in Nat \ {0}
  BY SizesAssumption
<1> HIDE DEF c
<1>3. ASSUME NEW i \in 1..c PROVE s(i) \in Seg
  <2>1. (i - 1) * Mss \in Nat /\ i * Mss \in Nat
    BY <1>1, <1>2
  <2>2. c - i \in Nat /\ off + (i - 1) * Mss \in Nat /\ n - (i - 1) * Mss \in Nat
    BY <1>1, <2>1
  <2> QED BY <1>2, <2>1, <2>2 DEF Seg
<1>4. Fragments(off, n) = [i \in 1..c |-> s(i)]
  BY DEF Fragments, c
<1>5. \A i \in 1..c : s(i).frg = c - i
  OBVIOUS
<1> HIDE DEF s
<1>6. [i \in 1..c |-> s(i)] \in Seq(Seg) /\ Len([i \in 1..c |-> s(i)]) = c
  BY <1>1, <1>3
<1> QED BY <1>1, <1>4, <1>5, <1>6 DEF c

(* A run of segments of which each starts where the one before it ends. *)
Joined(q) == \A i \in 2..Len(q) : q[i].off = q[i - 1].off + q[i - 1].len

(* The fragments follow each other, and stay within the message. *)
LEMMA FragmentsJoined ==
  ASSUME NEW off \in Nat, NEW n \in Nat \ {0}
  PROVE  LET m == Fragments(off, n)
         IN  /\ Joined(m) /\ m[1].off = off
             /\ \A i \in 1..Len(m) : off <= m[i].off /\ m[i].off + m[i].len <= off + n
<1> DEFINE m == Fragments(off, n)
           c == FragCount(n)
<1>1. c \in Nat \ {0} /\ \A i \in 1..c : (i - 1) * Mss < n
  BY FragCountType
<1>2. Mss \in Nat \ {0}
  BY SizesAssumption
<1>3. Len(m) = c
  BY FragmentsType
<1>4. \A i \in 1..c : /\ m[i].off = off + (i - 1) * Mss
                      /\ m[i].len = IF n > i * Mss THEN Mss ELSE n - (i - 1) * Mss
  BY DEF Fragments
<1> HIDE DEF m, c
<1>5. \A i \in Int : (i - 1) * Mss = i * Mss - Mss /\ i * Mss \in Int
  BY <1>2
<1>6. ASSUME NEW i \in 2..c PROVE m[i].off = m[i - 1].off + m[i - 1].len
  <2>1. i \in 1..c /\ i - 1 \in 1..c /\ i - 1 \in Int
    BY <1>1
  <2> DEFINE j == i - 1
             x == j * Mss
             y == (j - 1) * Mss
  <2>2. x < n /\ m[i].off = off + x /\ m[j].off = off + y
        /\ m[j].len = IF n > x THEN Mss ELSE n - y
    BY <1>1, <1>4, <2>1
  <2>3. y = x - Mss /\ x \in Int
    BY <1>5, <2>1
  <2> HIDE DEF x, y
  <2> QED BY <1>2, <2>2, <2>3
<1>7. ASSUME NEW i \in 1..c PROVE off <= m[i].off /\ m[i].off + m[i].len <= off + n
  <2> DEFINE x == i * Mss
             y == (i - 1) * Mss
  <2>1. y < n /\ m[i].off = off + y /\ m[i].len = IF n > x THEN Mss ELSE n - y
    BY <1>1, <1>4
  <2>2. y = x - Mss /\ x \in Int
    BY <1>1, <1>5
  <2>3. y >= 0
    <3>1. i - 1 \in Nat
      BY <1>1
    <3> QED BY <1>2, <3>1
  <2> HIDE DEF x, y
  <2> QED BY <1>2, <2>1, <2>2, <2>3
<1>8. m[1].off = off
  <2>1. 1 \in 1..c /\ (1 - 1) * Mss = 0
    BY <1>1, <1>2
  <2>2. m[1].off = off + (1 - 1) * Mss
    BY <1>4, <2>1
  <2> QED BY <2>1, <2>2
<1> QED BY <1>3, <1>6, <1>7, <1>8 DEF Joined, m

LEMMA SendLemma ==
  ASSUME NEW k \in Kcp, NEW off \in Nat, NEW n \in Nat \ {0}, FragCount(n) < WndRcv
  PROVE  /\ ikcp_send(k, off, n) = [k EXCEPT !.snd_queue = @ \o Fragments(off, n)]
         /\ ikcp_send(k, off, n) \in Kcp
<1>1. FragCount(n) < WndRcv /\ WndRcv \in Nat
  BY SizesAssumption
<1>2. FragCount(n) \in Nat /\ Fragments(off, n) \in Seq(Seg)
  BY <1>1, FragCountType, FragmentsType
<1>3. ikcp_send(k, off, n) = [k EXCEPT !.snd_queue = @ \o Fragments(off, n)]
  BY <1>1, <1>2 DEF ikcp_send
<1>4. k.snd_queue \o Fragments(off, n) \in Seq(Seg)
  BY <1>2 DEF Kcp
<1>5. [k EXCEPT !.snd_queue = @ \o Fragments(off, n)] \in Kcp
  BY <1>4 DEF Kcp
<1> QED BY <1>3, <1>5

-----------------------------------------------------------------------------
(* The functions of the receiver.  The sender's half of a control block,   *)
(* and how a control block r follows from k when `c' segments are taken    *)
(* from rcv_queue and `n' are then moved into it from rcv_buf.             *)
SameSender(k, r) ==
  /\ r.snd_queue = k.snd_queue /\ r.snd_buf = k.snd_buf
  /\ r.snd_una = k.snd_una /\ r.snd_nxt = k.snd_nxt

Shifted(k, r, c, n) ==
  /\ r \in Kcp /\ SameSender(k, r) /\ r.acklist = k.acklist
  /\ r.rcv_nxt = k.rcv_nxt + n
  /\ Len(r.rcv_queue) = Len(k.rcv_queue) - c + n
  /\ \A i \in 1 .. (Len(k.rcv_queue) - c) : r.rcv_queue[i] = k.rcv_queue[c + i]
  /\ \A i \in 1 .. n :
       /\ k.rcv_nxt + i - 1 \in DOMAIN k.rcv_buf
       /\ r.rcv_queue[Len(k.rcv_queue) - c + i] = k.rcv_buf[k.rcv_nxt + i - 1]
  /\ DOMAIN r.rcv_buf = DOMAIN k.rcv_buf \ (k.rcv_nxt .. (k.rcv_nxt + n - 1))
  /\ \A sn \in DOMAIN r.rcv_buf : r.rcv_buf[sn] = k.rcv_buf[sn]
  /\ Len(k.rcv_queue) - c <= RcvWnd => Len(r.rcv_queue) <= RcvWnd

LEMMA RcvWndType == RcvWnd \in Nat \ {0}
BY SizesAssumption DEF RcvWnd

LEMMA ReadyCountLemma ==
  ASSUME NEW k \in Kcp
  PROVE  /\ ReadyCount(k) \in 0..RcvWnd
         /\ \A i \in 0 .. (ReadyCount(k) - 1) :
              /\ k.rcv_nxt + i \in DOMAIN k.rcv_buf
              /\ Len(k.rcv_queue) + i < RcvWnd
         /\ \/ k.rcv_nxt + ReadyCount(k) \notin DOMAIN k.rcv_buf
            \/ Len(k.rcv_queue) + ReadyCount(k) >= RcvWnd
<1> DEFINE P(i) == \/ k.rcv_nxt + i \notin DOMAIN k.rcv_buf
                   \/ Len(k.rcv_queue) + i >= RcvWnd
           S == {i \in 0..RcvWnd : P(i)}
<1>1. k.rcv_nxt \in Nat /\ Len(k.rcv_queue) \in Nat /\ RcvWnd \in Nat
  BY RcvWndType DEF Kcp
<1>2. P(RcvWnd)
  BY <1>1
<1>3. ReadyCount(k) = Min(S)
  BY DEF ReadyCount
<1>4. ASSUME NEW i \in Nat, ~P(i)
      PROVE  k.rcv_nxt + i \in DOMAIN k.rcv_buf /\ Len(k.rcv_queue) + i < RcvWnd
  BY <1>1, <1>4
<1> HIDE DEF P
<1>5. S \in SUBSET Nat /\ S # {}
  BY <1>1, <1>2
<1>6. Min(S) \in S /\ \A y \in S : Min(S) =< y
  <2> HIDE DEF S
  <2> QED BY <1>5, NatMin
<1>7. P(Min(S))
  BY <1>6
<1>8. \/ k.rcv_nxt + Min(S) \notin DOMAIN k.rcv_buf
      \/ Len(k.rcv_queue) + Min(S) >= RcvWnd
  BY <1>7 DEF P
<1>9. ASSUME NEW i \in 0 .. (Min(S) - 1) PROVE i \in Nat /\ ~P(i)
  <2>1. Min(S) \in 0..RcvWnd
    BY <1>6
  <2>2. i \in 0..RcvWnd /\ ~(Min(S) =< i)
    BY <2>1, <1>1
  <2>3. i \notin S
    BY <2>2, <1>6
  <2> QED BY <2>2, <2>3
<1> QED BY <1>3, <1>4, <1>6, <1>9, <1>8

LEMMA MoveReadyLemma ==
  ASSUME NEW k \in Kcp
  PROVE  \E n \in Nat : Shifted(k, MoveReady(k), 0, n)
<1> DEFINE n == ReadyCount(k)
           q == [i \in 1..n |-> k.rcv_buf[k.rcv_nxt + i - 1]]
           b == Without(k.rcv_buf, k.rcv_nxt .. (k.rcv_nxt + n - 1))
           r == MoveReady(k)
<1>1. n \in Nat /\ n \in 0..RcvWnd /\ RcvWnd \in Nat /\ k.rcv_nxt \in Nat
      /\ k.rcv_buf \in SnMap(Seg) /\ k.rcv_queue \in Seq(Seg)
  BY ReadyCountLemma, RcvWndType DEF Kcp
<1>2. \A i \in 0..(n - 1) : k.rcv_nxt + i \in DOMAIN k.rcv_buf /\ Len(k.rcv_queue) + i < RcvWnd
  BY ReadyCountLemma
<1>3. r = [k EXCEPT !.rcv_queue = k.rcv_queue \o q, !.rcv_buf = b, !.rcv_nxt = k.rcv_nxt + n]
  BY DEF MoveReady
<1> HIDE DEF n, r
<1>4. \A i \in 1..n : k.rcv_nxt + i - 1 \in DOMAIN k.rcv_buf
  <2> TAKE i \in 1..n
  <2>1. i - 1 \in 0..(n - 1) /\ k.rcv_nxt + i - 1 = k.rcv_nxt + (i - 1)
    BY <1>1
  <2> QED BY <2>1, <1>2
<1>5. q \in Seq(Seg) /\ Len(q) = n /\ \A i \in 1..n : q[i] = k.rcv_buf[k.rcv_nxt + i - 1]
  <2>1. \A i \in 1..n : k.rcv_buf[k.rcv_nxt + i - 1] \in Seg
    BY <1>1, <1>4, SnMapElim
  <2> QED BY <2>1, <1>1
<1>6. b \in SnMap(Seg) /\ DOMAIN b = DOMAIN k.rcv_buf \ (k.rcv_nxt .. (k.rcv_nxt + n - 1))
      /\ \A sn \in DOMAIN b : b[sn] = k.rcv_buf[sn]
  <2> DEFINE T == k.rcv_nxt .. (k.rcv_nxt + n - 1)
             f == k.rcv_buf
  <2>0. f \in SnMap(Seg)
    BY <1>1
  <2> HIDE DEF T, f
  <2>1. Without(f, T) \in SnMap(Seg) /\ DOMAIN Without(f, T) = DOMAIN f \ T
        /\ \A sn \in DOMAIN f \ T : Without(f, T)[sn] = f[sn]
    BY <2>0, WithoutType, ZenonT(90)
  <2> QED BY <2>1 DEF T, f
<1> HIDE DEF q, b
<1>7. k.rcv_queue \o q \in Seq(Seg) /\ Len(k.rcv_queue \o q) = Len(k.rcv_queue) + n
      /\ (\A i \in 1..Len(k.rcv_queue) : (k.rcv_queue \o q)[i] = k.rcv_queue[i])
      /\ (\A i \in 1..n : (k.rcv_queue \o q)[Len(k.rcv_queue) + i] = q[i])
  <2> DEFINE s == k.rcv_queue
  <2>1. s \in Seq(Seg) /\ q \in Seq(Seg) /\ Len(q) = n
    BY <1>1, <1>5
  <2> HIDE DEF s
  <2>2. s \o q \in Seq(Seg) /\ Len(s \o q) = Len(s) + Len(q)
        /\ (\A i \in 1..Len(s) : (s \o q)[i] = s[i])
        /\ (\A i \in 1..Len(q) : (s \o q)[Len(s) + i] = q[i])
    BY <2>1
  <2> QED BY <2>1, <2>2 DEF s
<1>8. r \in Kcp
  <2>1. k.rcv_nxt + n \in Nat
    BY <1>1
  <2>2. k.rcv_queue \o q \in Seq(Seg) /\ b \in SnMap(Seg)
    BY <1>6, <1>7
  <2> DEFINE s == k.rcv_queue \o q
             m == k.rcv_nxt + n
  <2> HIDE DEF s, m
  <2>3. [k EXCEPT !.rcv_queue = s, !.rcv_buf = b, !.rcv_nxt = m] \in Kcp
    BY <2>1, <2>2 DEF Kcp, s, m
  <2> QED BY <1>3, <2>3 DEF s, m
<1>9. r.rcv_queue = k.rcv_queue \o q /\ r.rcv_buf = b /\ r.rcv_nxt = k.rcv_nxt + n
      /\ r.acklist = k.acklist
  BY <1>3 DEF Kcp
<1>10. SameSender(k, r)
  BY <1>3 DEF Kcp, SameSender
<1>11. Len(k.rcv_queue) <= RcvWnd => Len(r.rcv_queue) <= RcvWnd
  <2>1. CASE n = 0
    BY <2>1, <1>1, <1>7, <1>9
  <2>2. CASE n > 0
    <3>1. n - 1 \in 0..(n - 1)
      BY <2>2, <1>1
    <3>2. Len(k.rcv_queue) + (n - 1) < RcvWnd
      BY <3>1, <1>2
    <3> QED BY <3>2, <1>1, <1>7, <1>9
  <2> QED BY <2>1, <2>2, <1>1
<1>12. Len(k.rcv_queue) \in Nat
  BY <1>1
<1>13. Shifted(k, r, 0, n)
  BY <1>1, <1>4, <1>5, <1>6, <1>7, <1>8, <1>9, <1>10, <1>11, <1>12, SMTT(60) DEF Shifted
<1> QED BY <1>1, <1>13 DEF r
LEMMA PeekLemma ==
  ASSUME NEW k \in Kcp, CanPeek(k)
  PROVE  /\ PeekCount(k) \in 1..Len(k.rcv_queue)
         /\ RecvMessage(k) \in Seq(Seg)
         /\ Len(RecvMessage(k)) = PeekCount(k)
         /\ \A i \in 1..PeekCount(k) : RecvMessage(k)[i] = k.rcv_queue[i]
<1> DEFINE q == k.rcv_queue
           S == {i \in 1..Len(q) : q[i].frg = 0} \cup {Len(q)}
           c == PeekCount(k)
<1>1. q \in Seq(Seg) /\ q # <<>>
  BY DEF CanPeek, Kcp
<1>2. PeekCount(k) = Min(S) /\ RecvMessage(k) = SubSeq(q, 1, c)
  BY DEF PeekCount, RecvMessage
<1> HIDE DEF q, c
<1>3. Len(q) \in Nat \ {0}
  BY <1>1
<1>4. S \in SUBSET Nat /\ S # {} /\ S \subseteq 1..Len(q)
  BY <1>3
<1>5. Min(S) \in S
  <2> HIDE DEF S
  <2> QED BY <1>4, NatMin
<1>6. c \in 1..Len(q)
  BY <1>2, <1>4, <1>5 DEF c
<1>7. SubSeq(q, 1, c) \in Seq(Seg) /\ Len(SubSeq(q, 1, c)) = c
      /\ \A i \in 1..c : SubSeq(q, 1, c)[i] = q[i]
  BY <1>1, <1>3, <1>6
<1> QED BY <1>2, <1>6, <1>7 DEF c, q

(* What ikcp_peeksize returns for such a queue: the distance from the      *)
(* beginning of the message to its end.                                    *)
LEMMA PeekSizeLemma ==
  ASSUME NEW k \in Kcp, CanPeek(k), Joined(k.rcv_queue)
  PROVE  LET q == k.rcv_queue
             z == q[PeekCount(k)]
         IN  PeekSize(k) = z.off + z.len - q[1].off
<1> DEFINE q == k.rcv_queue
           c == PeekCount(k)
           E(f) == f = [i \in 0..c |-> IF i = 0 THEN 0 ELSE f[i - 1] + q[i].len]
           F == CHOOSE f : E(f)
           g == [i \in 0..c |-> IF i = 0 THEN 0 ELSE q[i].off + q[i].len - q[1].off]
           S == {i \in 0..c : F[i] # g[i]}
<1>1. PeekSize(k) = F[c]
  BY DEF PeekSize
<1>2. q \in Seq(Seg) /\ c \in 1..Len(q) /\ Len(q) \in Nat
  BY PeekLemma DEF Kcp
<1>3. \A i \in 1..c : q[i].off \in Nat /\ q[i].len \in Nat
  <2> TAKE i \in 1..c
  <2>1. q[i] \in Seg
    BY <1>2
  <2> QED BY <2>1 DEF Seg
<1>4. \A i \in 2..c : q[i].off = q[i - 1].off + q[i - 1].len
  BY <1>2 DEF Joined
<1> HIDE DEF q, c
<1>5. c \in Nat \ {0}
  BY <1>2
<1>6. E(g)
  <2>1. ASSUME NEW i \in 0..c
        PROVE  g[i] = IF i = 0 THEN 0 ELSE g[i - 1] + q[i].len
    <3>1. CASE i = 0
      BY <3>1
    <3>2. CASE i = 1
      BY <1>3, <1>5, <3>2
    <3>3. CASE i > 1
      <4>1. i \in 2..c /\ i - 1 \in 1..c /\ i - 1 \in 0..c /\ i \in 1..c /\ 1 \in 1..c
        BY <1>5, <3>3
      <4>2. g[i] = q[i].off + q[i].len - q[1].off
        BY <4>1
      <4>3. g[i - 1] = q[i - 1].off + q[i - 1].len - q[1].off
        BY <4>1
      <4> HIDE DEF g
      <4> QED BY <1>3, <1>4, <3>3, <4>1, <4>2, <4>3
    <3> QED BY <1>5, <3>1, <3>2, <3>3
  <2> QED BY <2>1
<1>7. E(F)
  <2> HIDE DEF E, g
  <2> QED BY <1>6
<1>8. \A i \in 0..c : F[i] = IF i = 0 THEN 0 ELSE F[i - 1] + q[i].len
  <2> HIDE DEF F
  <2> QED BY <1>7
<1>9. \A i \in 0..c : g[i] = IF i = 0 THEN 0 ELSE g[i - 1] + q[i].len
  <2> HIDE DEF g
  <2> QED BY <1>6
<1> HIDE DEF F, E
<1>10. g[c] = q[c].off + q[c].len - q[1].off
  BY <1>5
<1> HIDE DEF g
<1>11. S = {}
  <2> SUFFICES ASSUME S # {} PROVE FALSE
    OBVIOUS
  <2>1. S \in SUBSET Nat
    BY <1>5
  <2> DEFINE m == Min(S)
  <2>2. m \in S /\ \A y \in S : m =< y
    <3> HIDE DEF S
    <3> QED BY <2>1, NatMin
  <2> HIDE DEF m
  <2>3. m \in 0..c /\ F[m] # g[m]
    BY <2>2
  <2>4. m # 0
    BY <1>5, <1>8, <1>9, <2>3
  <2>5. m - 1 \in 0..c /\ ~(m =< m - 1)
    BY <1>5, <2>3, <2>4
  <2>6. F[m - 1] = g[m - 1]
    BY <2>2, <2>5
  <2> QED BY <1>8, <1>9, <2>3, <2>4, <2>6
<1>12. F[c] = g[c]
  BY <1>5, <1>11
<1> QED BY <1>1, <1>10, <1>12 DEF q, c

LEMMA RecvLemma ==
  ASSUME NEW k \in Kcp, CanPeek(k)
  PROVE  \E n \in Nat : Shifted(k, ikcp_recv(k), PeekCount(k), n)
<1> DEFINE c == PeekCount(k)
           q == k.rcv_queue
           t == SubSeq(q, c + 1, Len(q))
           p == [k EXCEPT !.rcv_queue = t]
           m == MoveReady(p)
           r == ikcp_recv(k)
<1>1. q \in Seq(Seg) /\ c \in 1..Len(q)
  BY PeekLemma DEF Kcp
<1>2. r = m \/ r = [m EXCEPT !.probe = @ \cup {"ASK_TELL"}]
  BY DEF ikcp_recv
<1> HIDE DEF c, m, r
<1>3. t \in Seq(Seg) /\ Len(t) = Len(q) - c /\ \A i \in 1..(Len(q) - c) : t[i] = q[c + i]
  <2> HIDE DEF q
  <2> QED BY <1>1
<1> HIDE DEF t
<1>4. p \in Kcp
  BY <1>3 DEF Kcp
<1>5. p.rcv_queue = t /\ p.rcv_nxt = k.rcv_nxt /\ p.rcv_buf = k.rcv_buf
      /\ p.acklist = k.acklist /\ SameSender(k, p)
  BY DEF Kcp, SameSender
<1> HIDE DEF p
<1>6. PICK n \in Nat : Shifted(p, m, 0, n)
  BY <1>4, MoveReadyLemma DEF m
<1>7. m \in Kcp
  BY <1>6 DEF Shifted
<1>8. r \in Kcp /\ SameSender(m, r) /\ r.acklist = m.acklist /\ r.rcv_nxt = m.rcv_nxt
      /\ r.rcv_queue = m.rcv_queue /\ r.rcv_buf = m.rcv_buf
  BY <1>2, <1>7, ZenonT(60) DEF Kcp, SameSender
<1>9. Len(q) \in Nat /\ Len(t) \in Nat /\ RcvWnd \in Nat
  BY <1>1, <1>3, RcvWndType
<1>10. Shifted(k, r, c, n)
  <2>1. SameSender(k, r)
    BY <1>5, <1>6, <1>8 DEF SameSender, Shifted
  <2>2. Len(t) - 0 = Len(q) - c /\ \A i \in 1 .. (Len(q) - c) : 0 + i = i
    BY <1>3, <1>9
  <2>3. \A i \in 1 .. (Len(q) - c) : m.rcv_queue[i] = t[i]
    <3>1. \A i \in 1 .. (Len(t) - 0) : m.rcv_queue[i] = t[0 + i]
      BY <1>5, <1>6 DEF Shifted
    <3> QED BY <3>1, <2>2
  <2>4. /\ m.rcv_nxt = p.rcv_nxt + n /\ m.acklist = p.acklist
        /\ Len(m.rcv_queue) = Len(t) - 0 + n
        /\ \A i \in 1 .. n :
             /\ p.rcv_nxt + i - 1 \in DOMAIN p.rcv_buf
             /\ m.rcv_queue[Len(t) - 0 + i] = p.rcv_buf[p.rcv_nxt + i - 1]
        /\ DOMAIN m.rcv_buf = DOMAIN p.rcv_buf \ (p.rcv_nxt .. (p.rcv_nxt + n - 1))
        /\ \A sn \in DOMAIN m.rcv_buf : m.rcv_buf[sn] = p.rcv_buf[sn]
        /\ Len(t) - 0 <= RcvWnd => Len(m.rcv_queue) <= RcvWnd
    BY <1>5, <1>6, Zenon DEF Shifted
  <2>5. \A i \in 1 .. (Len(k.rcv_queue) - c) : r.rcv_queue[i] = k.rcv_queue[c + i]
    BY <1>3, <1>8, <2>3 DEF q
  <2>6. \A i \in 1 .. n :
          /\ k.rcv_nxt + i - 1 \in DOMAIN k.rcv_buf
          /\ r.rcv_queue[Len(k.rcv_queue) - c + i] = k.rcv_buf[k.rcv_nxt + i - 1]
    BY <1>5, <1>8, <2>2, <2>4, Zenon DEF q
  <2>7. /\ r.acklist = k.acklist /\ r.rcv_nxt = k.rcv_nxt + n
        /\ Len(r.rcv_queue) = Len(k.rcv_queue) - c + n
        /\ DOMAIN r.rcv_buf = DOMAIN k.rcv_buf \ (k.rcv_nxt .. (k.rcv_nxt + n - 1))
        /\ \A sn \in DOMAIN r.rcv_buf : r.rcv_buf[sn] = k.rcv_buf[sn]
        /\ Len(k.rcv_queue) - c <= RcvWnd => Len(r.rcv_queue) <= RcvWnd
    BY <1>5, <1>8, <2>2, <2>4, Zenon DEF q
  <2> QED BY <1>8, <2>1, <2>5, <2>6, <2>7, Zenon DEF Shifted
<1> QED BY <1>10 DEF c, r
(* The receiver's half of a control block, and how j follows from k when a *)
(* push with sequence number sn is acknowledged or kept.                   *)
SameReceiver(k, r) ==
  /\ r.rcv_nxt = k.rcv_nxt /\ r.rcv_buf = k.rcv_buf
  /\ r.rcv_queue = k.rcv_queue /\ r.acklist = k.acklist

Kept(k, j, sn, seg) ==
  /\ j \in Kcp /\ SameSender(k, j)
  /\ j.rcv_nxt = k.rcv_nxt /\ j.rcv_queue = k.rcv_queue
  /\ j.acklist = k.acklist
     \/ (j.acklist = Append(k.acklist, sn) /\ (sn < j.rcv_nxt \/ sn \in DOMAIN j.rcv_buf))
  /\ DOMAIN k.rcv_buf \subseteq DOMAIN j.rcv_buf
  /\ \A s \in DOMAIN k.rcv_buf : j.rcv_buf[s] = k.rcv_buf[s]
  /\ \A s \in DOMAIN j.rcv_buf \ DOMAIN k.rcv_buf :
       /\ s = sn /\ j.rcv_buf[s] = seg
       /\ k.rcv_nxt <= s /\ s < k.rcv_nxt + RcvWnd

LEMMA NotShifted ==
  ASSUME NEW k \in Kcp
  PROVE  Shifted(k, k, 0, 0)
<1>1. k.rcv_nxt \in Nat /\ Len(k.rcv_queue) \in Nat /\ DOMAIN k.rcv_buf \subseteq Nat
  BY SnMapElim DEF Kcp
<1>2. k.rcv_nxt .. (k.rcv_nxt + 0 - 1) = {} /\ 1..0 = {} /\ k.rcv_nxt + 0 = k.rcv_nxt
      /\ Len(k.rcv_queue) - 0 + 0 = Len(k.rcv_queue) /\ Len(k.rcv_queue) - 0 = Len(k.rcv_queue)
  BY <1>1
<1>3. \A i \in 1 .. (Len(k.rcv_queue) - 0) : k.rcv_queue[i] = k.rcv_queue[0 + i]
  BY <1>1
<1> QED BY <1>1, <1>2, <1>3 DEF Shifted, SameSender

LEMMA PushLemma ==
  ASSUME NEW k \in Kcp, NEW sn \in Nat, NEW seg \in Seg
  PROVE  \E j, n : /\ n \in Nat
                   /\ Kept(k, j, sn, seg)
                   /\ Shifted(j, ikcp_input_push(k, sn, seg), 0, n)
<1> DEFINE a == [k EXCEPT !.acklist = Append(@, sn)]
           b == [s \in DOMAIN k.rcv_buf \cup {sn} |->
                   IF s \in DOMAIN k.rcv_buf THEN k.rcv_buf[s] ELSE seg]
           h == [a EXCEPT !.rcv_buf = b]
           r == ikcp_input_push(k, sn, seg)
<1>1. k.rcv_nxt \in Nat /\ RcvWnd \in Nat /\ k.acklist \in Seq(Nat) /\ k.rcv_buf \in SnMap(Seg)
  BY RcvWndType DEF Kcp
<1>2. a \in Kcp /\ SameSender(k, a) /\ a.rcv_nxt = k.rcv_nxt /\ a.rcv_queue = k.rcv_queue
      /\ a.acklist = Append(k.acklist, sn) /\ a.rcv_buf = k.rcv_buf
  <2>1. Append(k.acklist, sn) \in Seq(Nat)
    BY <1>1
  <2> QED BY <2>1 DEF Kcp, SameSender
<1>3. b \in SnMap(Seg)
  <2>1. DOMAIN k.rcv_buf \subseteq Nat /\ \A s \in DOMAIN k.rcv_buf : k.rcv_buf[s] \in Seg
    BY <1>1, SnMapElim
  <2>2. DOMAIN b \subseteq Nat /\ b = [s \in DOMAIN b |-> b[s]] /\ \A s \in DOMAIN b : b[s] \in Seg
    BY <2>1
  <2> HIDE DEF b
  <2> QED BY <2>2, SnMapIntro
<1>4. DOMAIN b = DOMAIN k.rcv_buf \cup {sn} /\ (\A s \in DOMAIN k.rcv_buf : b[s] = k.rcv_buf[s])
      /\ (sn \notin DOMAIN k.rcv_buf => b[sn] = seg)
  OBVIOUS
<1>5. CASE sn >= k.rcv_nxt + RcvWnd
  <2>1. r = k
    BY <1>5 DEF ikcp_input_push
  <2>2. Kept(k, k, sn, seg)
    BY DEF Kept, SameSender
  <2> QED BY <2>1, <2>2, NotShifted
<1>6. CASE sn < k.rcv_nxt
  <2>1. r = a
    BY <1>1, <1>6 DEF ikcp_input_push
  <2> HIDE DEF a
  <2>2. Kept(k, a, sn, seg)
    BY <1>2, <1>6 DEF Kept
  <2> QED BY <1>2, <2>1, <2>2, NotShifted
<1>7. CASE k.rcv_nxt <= sn /\ sn < k.rcv_nxt + RcvWnd
  <2>1. r = ikcp_parse_data(a, sn, seg)
    BY <1>1, <1>7 DEF ikcp_input_push
  <2> HIDE DEF a
  <2>2. r = MoveReady(h)
    BY <1>1, <1>2, <1>7, <2>1 DEF ikcp_parse_data
  <2> HIDE DEF b
  <2>3. h \in Kcp /\ SameSender(k, h) /\ h.rcv_nxt = k.rcv_nxt /\ h.rcv_queue = k.rcv_queue
        /\ h.acklist = Append(k.acklist, sn) /\ h.rcv_buf = b
    BY <1>2, <1>3 DEF Kcp, SameSender
  <2> HIDE DEF h
  <2>4. Kept(k, h, sn, seg)
    BY <1>4, <1>7, <2>3 DEF Kept
  <2> QED BY <2>2, <2>3, <2>4, MoveReadyLemma
<1> QED BY <1>1, <1>5, <1>6, <1>7

-----------------------------------------------------------------------------
(* ikcp_input, the sender's side: a segment leaves snd_buf only when it is *)
(* acknowledged, by una or by an ack.                                      *)
LEMMA ShrinkLemma ==
  ASSUME NEW k \in Kcp
  PROVE  /\ ikcp_shrink_buf(k) \in Kcp
         /\ SameReceiver(k, ikcp_shrink_buf(k))
         /\ ikcp_shrink_buf(k).snd_queue = k.snd_queue
         /\ ikcp_shrink_buf(k).snd_buf = k.snd_buf
         /\ ikcp_shrink_buf(k).snd_nxt = k.snd_nxt
<1> DEFINE D == DOMAIN k.snd_buf
           u == IF D = {} THEN k.snd_nxt ELSE Min(D)
<1>1. D \subseteq Nat /\ k.snd_nxt \in Nat
  BY SnMapElim DEF Kcp
<1>2. D # {} => Min(D) \in D
  <2> HIDE DEF D
  <2> QED BY <1>1, NatMin
<1>3. u \in Nat
  BY <1>1, <1>2
<1>4. ikcp_shrink_buf(k) = [k EXCEPT !.snd_una = u]
  BY DEF ikcp_shrink_buf
<1> HIDE DEF u
<1> QED BY <1>3, <1>4 DEF Kcp, SameReceiver

Dropped(k, T) == [k EXCEPT !.snd_buf = Without(@, T)]

LEMMA DropLemma ==
  ASSUME NEW k \in Kcp, NEW T
  PROVE  /\ Dropped(k, T) \in Kcp /\ SameReceiver(k, Dropped(k, T))
         /\ Dropped(k, T).snd_queue = k.snd_queue
         /\ Dropped(k, T).snd_nxt = k.snd_nxt
         /\ DOMAIN Dropped(k, T).snd_buf = DOMAIN k.snd_buf \ T
         /\ \A sn \in DOMAIN Dropped(k, T).snd_buf : Dropped(k, T).snd_buf[sn] = k.snd_buf[sn]
<1> DEFINE r == Dropped(k, T)
           f == k.snd_buf
           g == Without(f, T)
<1>1. f \in SnMap(Seg)
  BY DEF Kcp
<1>2. r = [k EXCEPT !.snd_buf = g]
  BY DEF Dropped
<1> HIDE DEF f, r
<1>3. g \in SnMap(Seg) /\ DOMAIN g = DOMAIN f \ T /\ \A sn \in DOMAIN f \ T : g[sn] = f[sn]
  BY <1>1, WithoutType, ZenonT(90)
<1> HIDE DEF g
<1>4. r \in Kcp /\ SameReceiver(k, r) /\ r.snd_queue = k.snd_queue /\ r.snd_nxt = k.snd_nxt
      /\ r.snd_buf = g
  BY <1>2, <1>3 DEF Kcp, SameReceiver
<1> QED BY <1>3, <1>4 DEF f, r

LEMMA InputLemma ==
  ASSUME NEW k \in Kcp, NEW d \in Datagram
  PROVE  /\ ikcp_input(k, d) \in Kcp
         /\ SameReceiver(k, ikcp_input(k, d))
         /\ ikcp_input(k, d).snd_queue = k.snd_queue
         /\ ikcp_input(k, d).snd_nxt = k.snd_nxt
         /\ \A sn \in DOMAIN ikcp_input(k, d).snd_buf :
              sn \in DOMAIN k.snd_buf /\ ikcp_input(k, d).snd_buf[sn] = k.snd_buf[sn]
         /\ \A sn \in DOMAIN k.snd_buf :
              sn \in DOMAIN ikcp_input(k, d).snd_buf \/ sn < d.una \/ sn \in d.acks
<1> DEFINE k0 == [k EXCEPT !.rmt_wnd = d.wnd]
           k1 == ikcp_parse_una(k0, d.una)
           k2 == ikcp_shrink_buf(k1)
           k3 == ikcp_parse_ack(k2, d.acks)
           k4 == ikcp_shrink_buf(k3)
           k5 == [k4 EXCEPT !.probe = @ \cup {"ASK_TELL"}]
           r == ikcp_input(k, d)
           T1 == {sn \in DOMAIN k0.snd_buf : sn < d.una}
           T3 == {sn \in d.acks : k2.snd_una <= sn /\ sn < k2.snd_nxt}
<1>1. r = IF "WASK" \in d.ctl THEN k5 ELSE k4
  BY DEF ikcp_input
<1> HIDE DEF r
<1>2. k0 \in Kcp /\ SameReceiver(k, k0) /\ k0.snd_queue = k.snd_queue
      /\ k0.snd_nxt = k.snd_nxt /\ k0.snd_buf = k.snd_buf
  <2>1. d.wnd \in Nat
    BY DEF Datagram
  <2> QED BY <2>1 DEF Kcp, SameReceiver
<1>3. k1 = Dropped(k0, T1)
  BY DEF ikcp_parse_una, Dropped
<1> HIDE DEF k0, k1
<1>4. k1 \in Kcp /\ SameReceiver(k0, k1) /\ k1.snd_queue = k0.snd_queue /\ k1.snd_nxt = k0.snd_nxt
      /\ DOMAIN k1.snd_buf = DOMAIN k0.snd_buf \ T1
      /\ \A sn \in DOMAIN k1.snd_buf : k1.snd_buf[sn] = k0.snd_buf[sn]
  <2> HIDE DEF T1
  <2> QED BY <1>2, <1>3, DropLemma
<1>5. k2 \in Kcp /\ SameReceiver(k1, k2) /\ k2.snd_queue = k1.snd_queue /\ k2.snd_nxt = k1.snd_nxt
      /\ k2.snd_buf = k1.snd_buf
  BY <1>4, ShrinkLemma
<1>6. k3 = Dropped(k2, T3)
  BY DEF ikcp_parse_ack, Dropped
<1> HIDE DEF k2, k3
<1>7. k3 \in Kcp /\ SameReceiver(k2, k3) /\ k3.snd_queue = k2.snd_queue /\ k3.snd_nxt = k2.snd_nxt
      /\ DOMAIN k3.snd_buf = DOMAIN k2.snd_buf \ T3
      /\ \A sn \in DOMAIN k3.snd_buf : k3.snd_buf[sn] = k2.snd_buf[sn]
  <2> HIDE DEF T3
  <2> QED BY <1>5, <1>6, DropLemma
<1>8. k4 \in Kcp /\ SameReceiver(k3, k4) /\ k4.snd_queue = k3.snd_queue /\ k4.snd_nxt = k3.snd_nxt
      /\ k4.snd_buf = k3.snd_buf
  BY <1>7, ShrinkLemma
<1> HIDE DEF k4
<1>9. r \in Kcp /\ SameReceiver(k4, r) /\ r.snd_queue = k4.snd_queue /\ r.snd_nxt = k4.snd_nxt
      /\ r.snd_buf = k4.snd_buf
  BY <1>1, <1>8 DEF Kcp, SameReceiver
<1>10. SameReceiver(k, r) /\ r.snd_queue = k.snd_queue /\ r.snd_nxt = k.snd_nxt
  BY <1>2, <1>4, <1>5, <1>7, <1>8, <1>9 DEF SameReceiver
<1>11. DOMAIN r.snd_buf = (DOMAIN k.snd_buf \ T1) \ T3
       /\ \A sn \in DOMAIN r.snd_buf : r.snd_buf[sn] = k.snd_buf[sn]
  <2> HIDE DEF T1, T3
  <2> QED BY <1>2, <1>4, <1>5, <1>7, <1>8, <1>9
<1>12. (\A sn \in T1 : sn < d.una) /\ T3 \subseteq d.acks
  OBVIOUS
<1> HIDE DEF T1, T3
<1> QED BY <1>9, <1>10, <1>11, <1>12 DEF r
-----------------------------------------------------------------------------
(* ikcp_flush: f follows from k when n segments are moved from snd_queue   *)
(* to snd_buf.                                                             *)
Filled(k, f, n) ==
  /\ f \in Kcp /\ SameReceiver(k, f)
  /\ n \in 0 .. Len(k.snd_queue)
  /\ f.snd_nxt = k.snd_nxt + n
  /\ Len(f.snd_queue) = Len(k.snd_queue) - n
  /\ \A i \in 1 .. (Len(k.snd_queue) - n) : f.snd_queue[i] = k.snd_queue[n + i]
  /\ DOMAIN f.snd_buf = DOMAIN k.snd_buf \cup k.snd_nxt .. (k.snd_nxt + n - 1)
  /\ \A sn \in DOMAIN k.snd_buf : f.snd_buf[sn] = k.snd_buf[sn]
  /\ \A sn \in DOMAIN f.snd_buf \ DOMAIN k.snd_buf :
       f.snd_buf[sn] = k.snd_queue[sn - k.snd_nxt + 1]

LEMMA FlushCountLemma ==
  ASSUME NEW k \in Kcp
  PROVE  FlushCount(k) \in 0 .. Len(k.snd_queue)
<1> DEFINE w == IF SndWnd < k.rmt_wnd THEN SndWnd ELSE k.rmt_wnd
           L == Len(k.snd_queue)
           x == k.snd_una + w - k.snd_nxt
<1>1. w \in Nat /\ L \in Nat /\ k.snd_una \in Nat /\ k.snd_nxt \in Nat
  BY SizesAssumption DEF Kcp, SndWnd
<1>2. FlushCount(k) = IF k.snd_nxt < k.snd_una + w THEN Min({L, x}) ELSE 0
  BY DEF FlushCount
<1>3. CASE k.snd_nxt < k.snd_una + w
  <2>1. x \in Nat
    BY <1>1, <1>3
  <2> HIDE DEF x, L
  <2>2. {L, x} \in SUBSET Nat /\ {L, x} # {}
    BY <1>1, <2>1
  <2>3. Min({L, x}) \in {L, x} /\ \A y \in {L, x} : Min({L, x}) =< y
    BY <2>2, NatMin
  <2>4. Min({L, x}) \in Nat /\ Min({L, x}) <= L
    BY <1>1, <2>1, <2>3
  <2> HIDE DEF w
  <2>5. FlushCount(k) \in Nat /\ FlushCount(k) <= L
    BY <1>2, <1>3, <2>4
  <2> QED BY <1>1, <2>5 DEF L
<1>4. CASE ~(k.snd_nxt < k.snd_una + w)
  BY <1>1, <1>2, <1>4
<1> QED BY <1>3, <1>4

LEMMA FillLemma ==
  ASSUME NEW k \in Kcp
  PROVE  Filled(k, FillSndBuf(k), FlushCount(k))
<1> DEFINE n == FlushCount(k)
           q == k.snd_queue
           t == SubSeq(q, n + 1, Len(q))
           D == DOMAIN k.snd_buf \cup k.snd_nxt .. (k.snd_nxt + n - 1)
           b == [sn \in D |-> IF sn \in DOMAIN k.snd_buf THEN k.snd_buf[sn]
                              ELSE q[sn - k.snd_nxt + 1]]
           m == k.snd_nxt + n
           f == FillSndBuf(k)
<1>1. f = [k EXCEPT !.snd_queue = t, !.snd_buf = b, !.snd_nxt = m]
  BY DEF FillSndBuf
<1>2. n \in 0 .. Len(q) /\ q \in Seq(Seg) /\ k.snd_nxt \in Nat /\ k.snd_buf \in SnMap(Seg)
  BY FlushCountLemma DEF Kcp
<1> HIDE DEF n, f, q
<1>3. DOMAIN k.snd_buf \subseteq Nat /\ \A sn \in DOMAIN k.snd_buf : k.snd_buf[sn] \in Seg
  BY <1>2, SnMapElim
<1>4. t \in Seq(Seg) /\ Len(t) = Len(q) - n /\ \A i \in 1 .. (Len(q) - n) : t[i] = q[n + i]
  BY <1>2
<1>5. ASSUME NEW sn \in k.snd_nxt .. (k.snd_nxt + n - 1)
      PROVE  sn \in Nat /\ q[sn - k.snd_nxt + 1] \in Seg
  <2>1. sn \in Nat /\ sn - k.snd_nxt + 1 \in 1..Len(q)
    BY <1>2
  <2> QED BY <1>2, <2>1
<1>6. b \in SnMap(Seg)
  <2>1. DOMAIN b \subseteq Nat /\ b = [sn \in DOMAIN b |-> b[sn]]
    BY <1>3, <1>5
  <2>2. \A sn \in DOMAIN b : b[sn] \in Seg
    BY <1>3, <1>5
  <2> HIDE DEF b
  <2> QED BY <2>1, <2>2, SnMapIntro
<1>7. m \in Nat
  BY <1>2
<1>8. DOMAIN b = D /\ (\A sn \in DOMAIN k.snd_buf : b[sn] = k.snd_buf[sn])
      /\ \A sn \in D \ DOMAIN k.snd_buf : b[sn] = q[sn - k.snd_nxt + 1]
  OBVIOUS
<1> HIDE DEF t, b, m, D
<1>9. f \in Kcp /\ SameReceiver(k, f) /\ f.snd_queue = t /\ f.snd_buf = b /\ f.snd_nxt = m
  BY <1>1, <1>4, <1>6, <1>7 DEF Kcp, SameReceiver
<1>10. /\ Len(f.snd_queue) = Len(k.snd_queue) - n
       /\ \A i \in 1 .. (Len(k.snd_queue) - n) : f.snd_queue[i] = k.snd_queue[n + i]
       /\ DOMAIN f.snd_buf = DOMAIN k.snd_buf \cup k.snd_nxt .. (k.snd_nxt + n - 1)
       /\ \A sn \in DOMAIN k.snd_buf : f.snd_buf[sn] = k.snd_buf[sn]
       /\ \A sn \in DOMAIN f.snd_buf \ DOMAIN k.snd_buf :
            f.snd_buf[sn] = k.snd_queue[sn - k.snd_nxt + 1]
  BY <1>4, <1>8, <1>9, Zenon DEF q, D
<1>11. n \in 0 .. Len(k.snd_queue) /\ f.snd_nxt = k.snd_nxt + n
  BY <1>2, <1>9, Zenon DEF q, m
<1> QED BY <1>9, <1>10, <1>11, Zenon DEF Filled, n, f

LEMMA FlushLemma ==
  ASSUME NEW k \in Kcp, NEW f \in Kcp
  PROVE  /\ ikcp_flush(k, f) \in Kcp
         /\ SameSender(f, ikcp_flush(k, f))
         /\ ikcp_flush(k, f).acklist = <<>>
         /\ ikcp_flush(k, f).rcv_nxt = f.rcv_nxt
         /\ ikcp_flush(k, f).rcv_buf = f.rcv_buf
         /\ ikcp_flush(k, f).rcv_queue = f.rcv_queue
<1> DEFINE w == (k.rmt_wnd = 0)
           a == <<>>
           p == {}
           r == ikcp_flush(k, f)
<1>1. w \in BOOLEAN /\ a \in Seq(Nat) /\ p \in SUBSET {"ASK_TELL"}
  OBVIOUS
<1>2. r = [f EXCEPT !.acklist = a, !.probe = p, !.probe_wait = w] /\ a = <<>>
  BY DEF ikcp_flush
<1> HIDE DEF w, a, p, r
<1>3. r \in Kcp
  BY <1>1, <1>2 DEF Kcp
<1>4. r.acklist = a /\ r.rcv_nxt = f.rcv_nxt /\ r.rcv_buf = f.rcv_buf
      /\ r.rcv_queue = f.rcv_queue /\ SameSender(f, r)
  BY <1>2 DEF Kcp, SameSender
<1> QED BY <1>2, <1>3, <1>4 DEF r

(* A datagram that a flush sends: it acknowledges what is pending, and its *)
(* pushes are copies of segments in snd_buf.                               *)
Carries(d, k, f) ==
  /\ d \in Datagram
  /\ d.una = k.rcv_nxt /\ d.wnd <= RcvWnd
  /\ \A sn \in d.acks : \E i \in 1..Len(k.acklist) : sn = k.acklist[i]
  /\ \A sn \in DOMAIN d.push : sn \in DOMAIN f.snd_buf /\ d.push[sn] = f.snd_buf[sn]

LEMMA OutputLemma ==
  ASSUME NEW k \in Kcp, NEW f, NEW n, Filled(k, f, n), NEW due \in SUBSET DOMAIN k.snd_buf,
         NEW probeDue, NEW d \in FlushOutput(k, f, due, probeDue)
  PROVE  Carries(d, k, f)
<1> DEFINE buf == f.snd_buf
           ctl == FlushCtl(k, probeDue)
           pushed == NeedSend(k, f, due)
<1>1. PICK dg : d \in Datagrams(k, ctl, buf, pushed, dg)
  BY DEF FlushOutput
<1>2. pushed \subseteq DOMAIN buf
  BY DEF NeedSend, Filled
<1>3. ctl \subseteq {"WASK", "WINS"}
  BY DEF FlushCtl
<1>4. buf \in SnMap(Seg) /\ k.rcv_nxt \in Nat /\ k.acklist \in Seq(Nat) /\ Len(k.rcv_queue) \in Nat
  BY DEF Filled, Kcp
<1>5. DOMAIN buf \subseteq Nat /\ \A sn \in DOMAIN buf : buf[sn] \in Seg
  BY <1>4, SnMapElim
<1>6. ikcp_wnd_unused(k) \in Nat /\ ikcp_wnd_unused(k) <= RcvWnd
  BY <1>4, RcvWndType DEF ikcp_wnd_unused
<1> HIDE DEF buf, ctl, pushed
<1> DEFINE A(x) == {k.acklist[i] : i \in {j \in 1..Len(k.acklist) : dg[j] = x}}
           C(x) == {c \in ctl : dg[IF c = "WASK" THEN Len(k.acklist) + 1
                                  ELSE Len(k.acklist) + Cardinality(ctl)] = x}
           Q(x) == {s \in pushed : dg[Slot(k, ctl, pushed, s)] = x}
           M(x) == [sn \in Q(x) |-> buf[sn]]
<1>7. PICK x : d = [una |-> k.rcv_nxt, wnd |-> ikcp_wnd_unused(k), acks |-> A(x),
                    ctl |-> C(x), push |-> M(x)]
  BY <1>1 DEF Datagrams
<1>8. A(x) \subseteq Nat /\ \A sn \in A(x) : \E i \in 1..Len(k.acklist) : sn = k.acklist[i]
  BY <1>4
<1>9. C(x) \subseteq {"WASK", "WINS"}
  BY <1>3
<1>10. Q(x) \subseteq DOMAIN buf
  BY <1>2
<1> HIDE DEF A, C, Q
<1>11. M(x) \in SnMap(Seg) /\ DOMAIN M(x) = Q(x) /\ \A sn \in Q(x) : M(x)[sn] = buf[sn]
  <2>1. DOMAIN M(x) \subseteq Nat /\ M(x) = [sn \in DOMAIN M(x) |-> M(x)[sn]]
        /\ (\A sn \in DOMAIN M(x) : M(x)[sn] \in Seg)
        /\ DOMAIN M(x) = Q(x) /\ \A sn \in Q(x) : M(x)[sn] = buf[sn]
    BY <1>5, <1>10
  <2> DEFINE g == M(x)
  <2> HIDE DEF g
  <2>2. g \in SnMap(Seg)
    BY <2>1, SnMapIntro DEF g
  <2> QED BY <2>1, <2>2 DEF g
<1> HIDE DEF M
<1>12. d \in Datagram
  BY <1>4, <1>6, <1>7, <1>8, <1>9, <1>11 DEF Datagram
<1>13. d.una = k.rcv_nxt /\ d.wnd = ikcp_wnd_unused(k) /\ d.acks = A(x) /\ d.push = M(x)
  BY <1>7
<1> QED BY <1>6, <1>8, <1>10, <1>11, <1>12, <1>13 DEF Carries, buf

-----------------------------------------------------------------------------
(* The loop that moves segments leaves none behind for which there is      *)
(* room.                                                                   *)
Settled(k) == Len(k.rcv_queue) < RcvWnd => k.rcv_nxt \notin DOMAIN k.rcv_buf

LEMMA MoveReadySettles ==
  ASSUME NEW k \in Kcp
  PROVE  Settled(MoveReady(k))
<1> DEFINE n == ReadyCount(k)
           r == MoveReady(k)
           a == k.rcv_nxt
           L == Len(k.rcv_queue)
           q == [i \in 1..n |-> k.rcv_buf[k.rcv_nxt + i - 1]]
           b == Without(k.rcv_buf, a .. (a + n - 1))
<1>1. n \in Nat /\ RcvWnd \in Nat /\ a \in Nat /\ L \in Nat /\ k.rcv_queue \in Seq(Seg)
  BY ReadyCountLemma, RcvWndType DEF Kcp
<1>2. a + n \notin DOMAIN k.rcv_buf \/ L + n >= RcvWnd
  BY ReadyCountLemma
<1>3. r = [k EXCEPT !.rcv_queue = k.rcv_queue \o q, !.rcv_buf = b, !.rcv_nxt = a + n]
  BY DEF MoveReady
<1>4. Len(k.rcv_queue \o q) = L + n
  <2>1. \A i \in 1..n : k.rcv_nxt + i - 1 \in DOMAIN k.rcv_buf
    <3> TAKE i \in 1..n
    <3>1. i - 1 \in 0..(n - 1) /\ k.rcv_nxt + i - 1 = k.rcv_nxt + (i - 1)
      <4> HIDE DEF n
      <4> QED BY <1>1
    <3> QED BY <3>1, ReadyCountLemma
  <2>2. \A i \in 1..n : k.rcv_buf[k.rcv_nxt + i - 1] \in Seg
    BY <2>1, SnMapElim DEF Kcp
  <2> HIDE DEF n
  <2>3. q \in Seq(Seg) /\ Len(q) = n
    BY <1>1, <2>2
  <2> HIDE DEF q
  <2> QED BY <1>1, <2>3
<1>5. DOMAIN b \subseteq DOMAIN k.rcv_buf
  BY DEF Without
<1> HIDE DEF n, q, b, r
<1>6. r.rcv_nxt = a + n /\ r.rcv_buf = b /\ Len(r.rcv_queue) = L + n
  BY <1>3, <1>4 DEF Kcp
<1> HIDE DEF a, L
<1> QED BY <1>1, <1>2, <1>5, <1>6 DEF Settled, r

LEMMA RecvSettles ==
  ASSUME NEW k \in Kcp, CanPeek(k)
  PROVE  Settled(ikcp_recv(k))
<1> DEFINE t == SubSeq(k.rcv_queue, PeekCount(k) + 1, Len(k.rcv_queue))
           p == [k EXCEPT !.rcv_queue = t]
           m == MoveReady(p)
           r == ikcp_recv(k)
<1>1. r = m \/ r = [m EXCEPT !.probe = @ \cup {"ASK_TELL"}]
  BY DEF ikcp_recv
<1>2. p \in Kcp
  <2>1. k.rcv_queue \in Seq(Seg) /\ PeekCount(k) \in 1..Len(k.rcv_queue)
    BY PeekLemma DEF Kcp
  <2>2. t \in Seq(Seg)
    BY <2>1
  <2> HIDE DEF t
  <2> QED BY <2>2 DEF Kcp
<1> HIDE DEF r, p
<1>3. Settled(m) /\ m \in Kcp
  BY <1>2, MoveReadySettles, MoveReadyLemma DEF Shifted
<1> HIDE DEF m
<1>4. r.rcv_queue = m.rcv_queue /\ r.rcv_nxt = m.rcv_nxt /\ r.rcv_buf = m.rcv_buf
  BY <1>1, <1>3 DEF Kcp
<1> QED BY <1>3, <1>4 DEF Settled, r

LEMMA PushSettles ==
  ASSUME NEW k \in Kcp, NEW sn \in Nat, NEW seg \in Seg, Settled(k)
  PROVE  Settled(ikcp_input_push(k, sn, seg))
<1> DEFINE a == [k EXCEPT !.acklist = Append(@, sn)]
           b == [s \in DOMAIN k.rcv_buf \cup {sn} |->
                   IF s \in DOMAIN k.rcv_buf THEN k.rcv_buf[s] ELSE seg]
           h == [a EXCEPT !.rcv_buf = b]
           r == ikcp_input_push(k, sn, seg)
<1>1. k.rcv_nxt \in Nat /\ RcvWnd \in Nat /\ k.acklist \in Seq(Nat) /\ k.rcv_buf \in SnMap(Seg)
  BY RcvWndType DEF Kcp
<1>2. a \in Kcp /\ a.rcv_nxt = k.rcv_nxt /\ a.rcv_queue = k.rcv_queue /\ a.rcv_buf = k.rcv_buf
  <2>1. Append(k.acklist, sn) \in Seq(Nat)
    BY <1>1
  <2> QED BY <2>1 DEF Kcp
<1>3. b \in SnMap(Seg)
  <2>1. DOMAIN k.rcv_buf \subseteq Nat /\ \A s \in DOMAIN k.rcv_buf : k.rcv_buf[s] \in Seg
    BY <1>1, SnMapElim
  <2>2. DOMAIN b \subseteq Nat /\ b = [s \in DOMAIN b |-> b[s]] /\ \A s \in DOMAIN b : b[s] \in Seg
    BY <2>1
  <2> HIDE DEF b
  <2> QED BY <2>2, SnMapIntro
<1>4. CASE sn >= k.rcv_nxt + RcvWnd
  BY <1>4 DEF ikcp_input_push
<1>5. CASE sn < k.rcv_nxt
  <2>1. r = a
    BY <1>1, <1>5 DEF ikcp_input_push
  <2> HIDE DEF a, r
  <2>2. Settled(r)
    BY <1>2, <2>1 DEF Settled
  <2> QED BY <2>2 DEF r
<1>6. CASE k.rcv_nxt <= sn /\ sn < k.rcv_nxt + RcvWnd
  <2>1. r = ikcp_parse_data(a, sn, seg)
    BY <1>1, <1>6 DEF ikcp_input_push
  <2> HIDE DEF a
  <2>2. r = MoveReady(h)
    BY <1>1, <1>2, <1>6, <2>1 DEF ikcp_parse_data
  <2> HIDE DEF b
  <2>3. h \in Kcp
    BY <1>2, <1>3 DEF Kcp
  <2> HIDE DEF h, r
  <2>4. Settled(r)
    BY <2>2, <2>3, MoveReadySettles
  <2> QED BY <2>4 DEF r
<1> QED BY <1>1, <1>4, <1>5, <1>6

-----------------------------------------------------------------------------
(* rmt_wnd is what the last datagram says. *)
LEMMA SendRmtWnd ==
  ASSUME NEW k \in Kcp, NEW off, NEW n
  PROVE  ikcp_send(k, off, n).rmt_wnd = k.rmt_wnd
BY DEF ikcp_send, Kcp

LEMMA RecvRmtWnd ==
  ASSUME NEW k \in Kcp, CanPeek(k)
  PROVE  ikcp_recv(k).rmt_wnd = k.rmt_wnd
<1> DEFINE p == [k EXCEPT !.rcv_queue = SubSeq(@, PeekCount(k) + 1, Len(@))]
           m == MoveReady(p)
           r == ikcp_recv(k)
<1>1. r = m \/ r = [m EXCEPT !.probe = @ \cup {"ASK_TELL"}]
  BY DEF ikcp_recv
<1>2. p \in Kcp /\ p.rmt_wnd = k.rmt_wnd
  <2>1. k.rcv_queue \in Seq(Seg) /\ PeekCount(k) \in 1..Len(k.rcv_queue)
    BY PeekLemma DEF Kcp
  <2> DEFINE t == SubSeq(k.rcv_queue, PeekCount(k) + 1, Len(k.rcv_queue))
  <2>2. t \in Seq(Seg)
    BY <2>1
  <2> HIDE DEF t
  <2> QED BY <2>2 DEF Kcp, t
<1> HIDE DEF p, r
<1>3. m \in Kcp
  BY <1>2, MoveReadyLemma DEF Shifted
<1>4. m.rmt_wnd = p.rmt_wnd
  BY <1>2 DEF MoveReady, Kcp
<1> HIDE DEF m
<1>5. r.rmt_wnd = m.rmt_wnd
  BY <1>1, <1>3 DEF Kcp
<1> QED BY <1>2, <1>4, <1>5 DEF r

LEMMA PushRmtWnd ==
  ASSUME NEW k \in Kcp, NEW sn, NEW seg
  PROVE  ikcp_input_push(k, sn, seg).rmt_wnd = k.rmt_wnd
<1> DEFINE a == [k EXCEPT !.acklist = Append(@, sn)]
           h == [a EXCEPT !.rcv_buf =
                   [s \in DOMAIN @ \cup {sn} |-> IF s \in DOMAIN @ THEN @[s] ELSE seg]]
           r == ikcp_input_push(k, sn, seg)
<1>1. r = k \/ r = a \/ r = MoveReady(h)
  BY DEF ikcp_input_push, ikcp_parse_data
<1>2. a.rmt_wnd = k.rmt_wnd
  BY DEF Kcp
<1> HIDE DEF a, r
<1>3. h.rmt_wnd = a.rmt_wnd
  OBVIOUS
<1> HIDE DEF h
<1>4. MoveReady(h).rmt_wnd = h.rmt_wnd
  BY DEF MoveReady
<1> QED BY <1>1, <1>2, <1>3, <1>4 DEF r

LEMMA FlushRmtWnd ==
  ASSUME NEW k \in Kcp
  PROVE  ikcp_flush(k, FillSndBuf(k)).rmt_wnd = k.rmt_wnd
BY DEF ikcp_flush, FillSndBuf, Kcp

LEMMA InputRmtWnd ==
  ASSUME NEW k \in Kcp, NEW d \in Datagram
  PROVE  ikcp_input(k, d).rmt_wnd = d.wnd
BY DEF ikcp_input, ikcp_shrink_buf, ikcp_parse_una, ikcp_parse_ack, Kcp
=============================================================================
