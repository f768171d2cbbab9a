------------------------------ MODULE Chat_proofs -----------------------------
EXTENDS Chat, WellFoundedInduction, SequenceTheorems, TLAPS

-----------------------------------------------------------------------------
(* Induction, over the numbers up to n and over sequences.  The property is *)
(* a set: the library's theorems take it as an operator.                    *)

(* A set of natural numbers has a least element.                            *)
LEMMA LeastNatural ==
  ASSUME NEW S, S \subseteq Nat, S # {}
  PROVE  \E n \in S : \A k \in S : n <= k
<1> DEFINE R == OpToRel(<, Nat)
<1>1. IsWellFoundedOn(R, Nat)
  BY NatLessThanWellFounded
<1>2. \E n \in S : \A k \in S : ~(<<k, n>> \in R)
  <2> HIDE DEF R
  <2> QED BY <1>1, WFMin
<1>3. \A j, k \in Nat : <<j, k>> \in R <=> j < k
  BY DEF OpToRel
<1>4. PICK n \in S : \A k \in S : ~(<<k, n>> \in R)
  BY <1>2
<1>5. ASSUME NEW k \in S PROVE n <= k
  <2>1. <<k, n>> \notin R
    BY <1>4
  <2>2. <<k, n>> \in R <=> k < n
    BY <1>3
  <2> HIDE DEF R
  <2>3. ~(k < n)
    BY <2>1, <2>2
  <2> QED
    BY <2>3
<1> QED
  BY <1>5

LEMMA UpTo ==
  ASSUME NEW n \in Nat, NEW P, 0 \in P, \A i \in 1 .. n : i - 1 \in P => i \in P
  PROVE  0 .. n \subseteq P
<1> DEFINE Rest == {i \in 0 .. n : i \notin P}
<1> SUFFICES ASSUME Rest # {} PROVE FALSE
  OBVIOUS
<1>1. Rest \subseteq Nat
  OBVIOUS
<1>2. PICK k \in Rest : \A j \in Rest : k <= j
  <2> HIDE DEF Rest
  <2> QED
    BY <1>1, LeastNatural
<1>3. k \in 1 .. n /\ k - 1 \in 0 .. n
  OBVIOUS
<1>4. k - 1 \in P
  BY <1>2, <1>3
<1> QED
  BY <1>3, <1>4

LEMMA OverSequences ==
  ASSUME NEW S, NEW P, <<>> \in P,
         \A s \in Seq(S) : \A e \in S : s \in P => Append(s, e) \in P
  PROVE  Seq(S) \subseteq P
<1> SUFFICES ASSUME NEW all \in Seq(S) PROVE all \in P
  OBVIOUS
<1> DEFINE Good == {n \in 0 .. Len(all) : SubSeq(all, 1, n) \in P}
<1>1. Len(all) \in Nat /\ SubSeq(all, 1, 0) = <<>> /\ SubSeq(all, 1, Len(all)) = all
  OBVIOUS
<1>6. \A n : n \in Good <=> n \in 0 .. Len(all) /\ SubSeq(all, 1, n) \in P
  OBVIOUS
<1> HIDE DEF Good
<1>2. 0 \in Good
  <2>1. 0 \in 0 .. Len(all)
    BY <1>1
  <2>2. SubSeq(all, 1, 0) \in P
    BY <1>1
  <2> QED
    BY <1>6, <2>1, <2>2
<1>3. ASSUME NEW i \in 1 .. Len(all), i - 1 \in Good PROVE i \in Good
  <2>1. SubSeq(all, 1, i - 1) \in Seq(S) /\ all[i] \in S
    OBVIOUS
  <2>2. SubSeq(all, 1, i) = Append(SubSeq(all, 1, i - 1), all[i])
    OBVIOUS
  <2>3. SubSeq(all, 1, i - 1) \in P
    BY <1>3, <1>6
  <2>4. SubSeq(all, 1, i) \in P
    BY <2>1, <2>2, <2>3
  <2> QED
    BY <1>6, <2>4
<1>4. 0 .. Len(all) \subseteq Good
  BY <1>1, <1>2, <1>3, UpTo
<1>5. Len(all) \in Good
  BY <1>1, <1>4
<1> QED
  BY <1>1, <1>5, <1>6

LEMMA Associative ==
  ASSUME NEW S
  PROVE  \A s, t, u \in Seq(S) : (s \o t) \o u = s \o (t \o u)
BY ConcatAssociative

-----------------------------------------------------------------------------
(* The decoder, one byte after the other                                    *)

Fresh == [src |-> 0, dst |-> <<>>, ok |-> <<>>, done |-> 0, expect |-> 0]

States(bytes) ==
  LET d[i \in 0 .. Len(bytes)] ==
        IF i = 0 THEN {Fresh} ELSE {Detok(e, bytes[i]) : e \in d[i - 1]}
  IN  d

Onward(S, c) == {Detok(e, c) : e \in S}

Unrolled(d, bytes, n) ==
  [i \in 0 .. n |-> IF i = 0 THEN {Fresh} ELSE Onward(d[i - 1], bytes[i])]

LEMMA StatesExist ==
  ASSUME NEW bytes, NEW n \in Nat
  PROVE  \E d : d = Unrolled(d, bytes, n)
<1> DEFINE P == {k \in 0 .. n : \E d : d = Unrolled(d, bytes, k)}
<1>1. 0 \in P
  <2> DEFINE d == [i \in 0 .. 0 |-> {Fresh}]
  <2>1. d = Unrolled(d, bytes, 0)
    BY DEF Unrolled
  <2> HIDE DEF d
  <2> QED
    BY <2>1
<1>2. ASSUME NEW k \in 1 .. n, k - 1 \in P PROVE k \in P
  <2>1. PICK d : d = Unrolled(d, bytes, k - 1)
    BY <1>2
  <2> DEFINE e == [i \in 0 .. k |-> IF i < k THEN d[i]
                                    ELSE Onward(d[i - 1], bytes[i])]
  <2>2. \A i \in 0 .. (k - 1) :
          d[i] = IF i = 0 THEN {Fresh} ELSE Onward(d[i - 1], bytes[i])
    BY <2>1 DEF Unrolled
  <2>3. \A i \in 0 .. (k - 1) : e[i] = d[i]
    OBVIOUS
  <2>4. e[k] = Onward(e[k - 1], bytes[k])
    BY <2>3
  <2>5. ASSUME NEW i \in 0 .. k
        PROVE  e[i] = IF i = 0 THEN {Fresh} ELSE Onward(e[i - 1], bytes[i])
    <3> HIDE DEF e
    <3>1. CASE i = k
      BY <2>4, <3>1
    <3>2. CASE i = 0
      BY <2>2, <2>3, <3>2
    <3>3. CASE i \in 1 .. (k - 1)
      <4>1. e[i] = d[i] /\ e[i - 1] = d[i - 1] /\ i # 0
        BY <2>3, <3>3
      <4>2. d[i] = Onward(d[i - 1], bytes[i])
        BY <2>2, <3>3
      <4> QED
        BY <4>1, <4>2
    <3> QED
      BY <3>1, <3>2, <3>3
  <2>6. e = Unrolled(e, bytes, k)
    BY <2>5 DEF Unrolled
  <2> HIDE DEF e
  <2> QED
    BY <2>6
<1>3. n \in P
  <2> HIDE DEF P
  <2> QED
    BY <1>1, <1>2, UpTo
<1> QED
  BY <1>3

LEMMA DecoderRun ==
  ASSUME NEW bytes, NEW n \in Nat, Len(bytes) = n
  PROVE  \E d : /\ d[0] = {Fresh}
                /\ \A i \in 1 .. n : d[i] = Onward(d[i - 1], bytes[i])
                /\ \A x : d[n] = {x} => Decoder(bytes) = x
<1>1. States(bytes) = CHOOSE d : d = Unrolled(d, bytes, n)
  BY DEF States, Unrolled, Onward
<1>2. \E d : d = Unrolled(d, bytes, n)
  BY StatesExist
<1>3. Decoder(bytes) = CHOOSE e \in States(bytes)[n] : TRUE
  BY DEF Decoder, States, Fresh
<1>4. PICK d : d = Unrolled(d, bytes, n) /\ d = States(bytes)
  BY <1>1, <1>2
<1>5. \A i \in 0 .. n : d[i] = IF i = 0 THEN {Fresh} ELSE Onward(d[i - 1], bytes[i])
  BY <1>4 DEF Unrolled
<1>6. d[0] = {Fresh}
  BY <1>5
<1>7. ASSUME NEW i \in 1 .. n PROVE d[i] = Onward(d[i - 1], bytes[i])
  BY <1>5
<1>8. ASSUME NEW x, d[n] = {x} PROVE Decoder(bytes) = x
  BY <1>3, <1>4, <1>8
<1> QED
  BY <1>6, <1>7, <1>8

LEMMA DecoderOfNothing == Decoder(<<>>) = Fresh
<1>1. Len(<<>>) = 0
  OBVIOUS
<1> QED
  BY <1>1, DecoderRun

LEMMA DecoderOfOneMore ==
  ASSUME NEW bytes \in Seq(Bytes), NEW c \in Bytes
  PROVE  Decoder(Append(bytes, c)) = Detok(Decoder(bytes), c)
<1> DEFINE n    == Len(bytes)
           more == Append(bytes, c)
<1>1. /\ n \in Nat /\ Len(more) = n + 1 /\ more[n + 1] = c /\ n + 1 \in Nat
      /\ \A i \in 1 .. n : more[i] = bytes[i]
  OBVIOUS
<1>2. PICK d : /\ d[0] = {Fresh}
               /\ \A i \in 1 .. n : d[i] = Onward(d[i - 1], bytes[i])
               /\ \A x : d[n] = {x} => Decoder(bytes) = x
  BY <1>1, DecoderRun
<1>3. PICK e : /\ e[0] = {Fresh}
               /\ \A i \in 1 .. (n + 1) : e[i] = Onward(e[i - 1], more[i])
               /\ \A x : e[n + 1] = {x} => Decoder(more) = x
  <2> HIDE DEF n, more
  <2> QED
    BY <1>1, DecoderRun
<1> HIDE DEF n, more
<1> DEFINE P == {i \in 0 .. n : e[i] = d[i] /\ \E x : d[i] = {x}}
<1>4. \A i : i \in P <=> i \in 0 .. n /\ e[i] = d[i] /\ \E x : d[i] = {x}
  OBVIOUS
<1> HIDE DEF P
<1>5. 0 \in P
  <2>1. 0 \in 0 .. n
    BY <1>1
  <2> QED
    BY <1>2, <1>3, <1>4, <2>1
<1>6. ASSUME NEW i \in 1 .. n, i - 1 \in P PROVE i \in P
  <2>1. PICK x : d[i - 1] = {x} /\ e[i - 1] = {x}
    BY <1>4, <1>6
  <2>2. i \in 1 .. (n + 1) /\ i \in 0 .. n /\ more[i] = bytes[i]
    BY <1>1
  <2>3. d[i] = Onward({x}, bytes[i])
    BY <1>2, <2>1
  <2>4. e[i] = Onward({x}, bytes[i])
    BY <1>3, <2>1, <2>2
  <2>5. Onward({x}, bytes[i]) = {Detok(x, bytes[i])}
    BY DEF Onward
  <2> QED
    BY <1>4, <2>2, <2>3, <2>4, <2>5
<1>7. n \in P
  <2>1. n \in 0 .. n
    BY <1>1
  <2> QED
    BY <1>1, <1>5, <1>6, <2>1, UpTo
<1>8. PICK x : d[n] = {x} /\ e[n] = {x}
  BY <1>4, <1>7
<1>9. e[n + 1] = {Detok(x, c)}
  <2>1. n + 1 \in 1 .. (n + 1) /\ (n + 1) - 1 = n
    BY <1>1
  <2>2. e[n + 1] = Onward(e[n], more[n + 1])
    BY <1>3, <2>1
  <2> QED
    BY <1>1, <1>8, <2>2 DEF Onward
<1>10. Decoder(bytes) = x /\ Decoder(more) = Detok(x, c)
  BY <1>2, <1>3, <1>8, <1>9
<1> QED
  BY <1>10 DEF more

Decoding ==
  [src : Nat, dst : Seq(Bytes), ok : Seq(Bytes), done : Nat, expect : Nat]

(* A decoder that has decoded other bytes before: what it emitted for them  *)
(* is `ok' and `done' is how many they were.                                *)
Behind(d, ok, done) ==
  [src |-> done + d.src, dst |-> ok \o d.dst, ok |-> ok \o d.ok,
   done |-> done + d.done, expect |-> d.expect]

LEMMA ReplacementBytes == Replacement \in Seq(Bytes)
BY DEF Replacement, Bytes

LEMMA FollowingBytes ==
  ASSUME NEW c \in Bytes
  PROVE  Following(c) \in {-1, 0, 1, 2, 3}
BY DEF Following, Bytes

LEMMA RecoveredType ==
  ASSUME NEW d \in Decoding
  PROVE  /\ Recovered(d) \in Decoding
         /\ Recovered(d).src = d.src /\ Recovered(d).ok = d.ok
         /\ Recovered(d).done = d.done /\ Recovered(d).expect = 0
         /\ Recovered(d).dst = d.ok \o Replacement
<1>1. d.ok \o Replacement \in Seq(Bytes)
  BY ReplacementBytes DEF Decoding
<1> QED
  BY <1>1 DEF Recovered, Decoding

(* One byte taken: the checkpoint stays or moves to the end.                *)
LEMMA TakenType ==
  ASSUME NEW d \in Decoding, NEW c \in Bytes, NEW n \in Nat
  PROVE  LET e == Taken(d, c, n)
         IN  /\ e \in Decoding /\ e.src = d.src + 1
             /\ \/ e.ok = d.ok /\ e.done = d.done
                \/ e.ok = e.dst /\ e.done = e.src /\ e.expect = 0
<1> DEFINE t == [d EXCEPT !.src = @ + 1, !.dst = Append(@, c), !.expect = n]
<1>1. /\ t \in Decoding /\ t.src = d.src + 1 /\ t.ok = d.ok /\ t.done = d.done
      /\ t.expect = n
  <2>1. Append(d.dst, c) \in Seq(Bytes) /\ d.src + 1 \in Nat
    BY DEF Decoding
  <2> QED
    BY <2>1 DEF Decoding
<1>2. Taken(d, c, n) = Checked(t)
  BY DEF Taken
<1> HIDE DEF t
<1>3. CASE t.expect = 0
  <2> DEFINE f == [t EXCEPT !.ok = t.dst, !.done = t.src]
  <2>1. Checked(t) = f
    BY <1>3 DEF Checked
  <2>2. f \in Decoding /\ f.ok = t.dst /\ f.dst = t.dst /\ f.done = t.src /\ f.src = t.src
        /\ f.expect = 0
    BY <1>1, <1>3 DEF Decoding
  <2> QED
    BY <1>1, <1>2, <2>1, <2>2
<1>4. CASE t.expect # 0
  BY <1>1, <1>2, <1>4 DEF Checked
<1> QED
  BY <1>3, <1>4

(* A byte that starts no sequence is skipped.                               *)
LEMMA Skipped ==
  ASSUME NEW d \in Decoding
  PROVE  LET e == [d EXCEPT !.src = @ + 1]
         IN  /\ e \in Decoding /\ e.src = d.src + 1 /\ e.dst = d.dst /\ e.ok = d.ok
             /\ e.done = d.done /\ e.expect = d.expect
<1>1. d.src + 1 \in Nat
  BY DEF Decoding
<1> QED
  BY <1>1 DEF Decoding

LEMMA DetokType ==
  ASSUME NEW d \in Decoding, NEW c \in Bytes
  PROVE  LET e == Detok(d, c)
         IN  /\ e \in Decoding /\ e.src = d.src + 1
             /\ \/ e.ok = d.ok /\ e.done = d.done
                \/ e.ok = e.dst /\ e.done = e.src /\ e.expect = 0
<1> DEFINE b == IF d.expect > 0 /\ ~Continuation(c) THEN Recovered(d) ELSE d
<1>1. b \in Decoding /\ b.src = d.src /\ b.ok = d.ok /\ b.done = d.done /\ b.expect \in Nat
  BY RecoveredType DEF Decoding
<1>2. Detok(d, c) = CASE b.expect > 0                      -> Taken(b, c, b.expect - 1)
                      [] b.expect = 0 /\ Following(c) >= 0 -> Taken(b, c, Following(c))
                      [] b.expect = 0 /\ Following(c) < 0  -> [Recovered(b) EXCEPT !.src = @ + 1]
  BY DEF Detok
<1> HIDE DEF b
<1>3. CASE b.expect > 0
  <2>1. Detok(d, c) = Taken(b, c, b.expect - 1) /\ b.expect - 1 \in Nat
    BY <1>1, <1>2, <1>3
  <2> QED
    BY <1>1, <2>1, TakenType
<1>4. CASE b.expect = 0 /\ Following(c) >= 0
  <2>1. Detok(d, c) = Taken(b, c, Following(c)) /\ Following(c) \in Nat
    BY <1>2, <1>4, FollowingBytes
  <2> QED
    BY <1>1, <2>1, TakenType
<1>5. CASE b.expect = 0 /\ Following(c) < 0
  <2>1. Detok(d, c) = [Recovered(b) EXCEPT !.src = @ + 1]
    <3>1. ~(Following(c) >= 0)
      BY <1>5, FollowingBytes
    <3> QED
      BY <1>2, <1>5, <3>1
  <2>2. /\ Recovered(b) \in Decoding /\ Recovered(b).src = b.src
        /\ Recovered(b).ok = b.ok /\ Recovered(b).done = b.done
    BY <1>1, RecoveredType
  <2> DEFINE r == Recovered(b)
  <2>3. [r EXCEPT !.src = @ + 1] \in Decoding /\ [r EXCEPT !.src = @ + 1].src = r.src + 1
        /\ [r EXCEPT !.src = @ + 1].ok = r.ok /\ [r EXCEPT !.src = @ + 1].done = r.done
    BY <2>2, Skipped
  <2> QED
    BY <1>1, <2>1, <2>2, <2>3 DEF r
<1>6. b.expect > 0 \/ b.expect = 0
  BY <1>1
<1>7. Following(c) >= 0 \/ Following(c) < 0
  BY FollowingBytes
<1> QED
  BY <1>3, <1>4, <1>5, <1>6, <1>7

LEMMA DecoderType ==
  ASSUME NEW bytes \in Seq(Bytes)
  PROVE  /\ Decoder(bytes) \in Decoding /\ Decoder(bytes).src = Len(bytes)
         /\ Decoder(bytes).done <= Len(bytes)
<1> DEFINE P == {s \in Seq(Bytes) :
                   /\ Decoder(s) \in Decoding /\ Decoder(s).src = Len(s)
                   /\ Decoder(s).done <= Len(s)}
<1>1. <<>> \in P
  <2>1. Fresh \in Decoding /\ Fresh.src = 0 /\ Fresh.done = 0
    BY DEF Fresh, Decoding
  <2>2. <<>> \in Seq(Bytes) /\ Len(<<>>) = 0
    OBVIOUS
  <2> QED
    BY <2>1, <2>2, DecoderOfNothing
<1>2. ASSUME NEW s \in Seq(Bytes), NEW c \in Bytes, s \in P PROVE Append(s, c) \in P
  <2>1. Decoder(s) \in Decoding /\ Decoder(s).src = Len(s) /\ Decoder(s).done <= Len(s)
    BY <1>2
  <2>2. Append(s, c) \in Seq(Bytes) /\ Len(Append(s, c)) = Len(s) + 1 /\ Len(s) \in Nat
    OBVIOUS
  <2> DEFINE e == Detok(Decoder(s), c)
  <2>3. /\ e \in Decoding /\ e.src = Len(s) + 1
        /\ e.done = Decoder(s).done \/ e.done = e.src
    BY <2>1, DetokType
  <2>4. Decoder(Append(s, c)) = e
    BY DecoderOfOneMore
  <2> HIDE DEF e
  <2>5. Decoder(s).done \in Nat
    BY <2>1 DEF Decoding
  <2>6. e.done <= Len(s) + 1
    BY <2>1, <2>2, <2>3, <2>5
  <2> QED
    BY <2>2, <2>3, <2>4, <2>6
<1>3. Seq(Bytes) \subseteq P
  <2> HIDE DEF P
  <2> QED
    BY <1>1, <1>2, OverSequences
<1> QED
  BY <1>3

-----------------------------------------------------------------------------
(* Bytes that the decoder has done with play no part in what follows        *)

LEMMA BytesConcat ==
  /\ \A s, t, u \in Seq(Bytes) : (s \o t) \o u = s \o (t \o u)
  /\ \A s, t \in Seq(Bytes) : \A c \in Bytes : Append(s \o t, c) = s \o Append(t, c)
<1>1. \A s, t, u \in Seq(Bytes) : (s \o t) \o u = s \o (t \o u)
  BY Associative
<1>2. \A s, t \in Seq(Bytes) : \A c \in Bytes : Append(s \o t, c) = s \o Append(t, c)
  <2> SUFFICES ASSUME NEW s \in Seq(Bytes), NEW t \in Seq(Bytes), NEW c \in Bytes
               PROVE  Append(s \o t, c) = s \o Append(t, c)
    OBVIOUS
  <2> DEFINE l == Append(s \o t, c)
             r == s \o Append(t, c)
  <2>1. /\ l \in Seq(Bytes) /\ Len(l) = Len(s) + Len(t) + 1
        /\ r \in Seq(Bytes) /\ Len(r) = Len(s) + Len(t) + 1
    OBVIOUS
  <2>2. \A i \in 1 .. Len(l) : l[i] = r[i]
    OBVIOUS
  <2> HIDE DEF l, r
  <2> QED
    BY <2>1, <2>2, SeqEqual
<1> QED
  BY <1>1, <1>2

LEMMA SameDecoding ==
  ASSUME NEW d \in Decoding, NEW e \in Decoding, d.src = e.src, d.dst = e.dst,
         d.ok = e.ok, d.done = e.done, d.expect = e.expect
  PROVE  d = e
BY DEF Decoding

LEMMA DecodingFields ==
  ASSUME NEW d \in Decoding
  PROVE  /\ d.src \in Nat /\ d.dst \in Seq(Bytes) /\ d.ok \in Seq(Bytes)
         /\ d.done \in Nat /\ d.expect \in Nat
BY DEF Decoding

LEMMA BehindType ==
  ASSUME NEW d \in Decoding, NEW ok \in Seq(Bytes), NEW done \in Nat
  PROVE  LET f == Behind(d, ok, done)
         IN  /\ f \in Decoding /\ f.src = done + d.src /\ f.dst = ok \o d.dst
             /\ f.ok = ok \o d.ok /\ f.done = done + d.done /\ f.expect = d.expect
<1>1. /\ done + d.src \in Nat /\ done + d.done \in Nat /\ d.expect \in Nat
      /\ ok \o d.dst \in Seq(Bytes) /\ ok \o d.ok \in Seq(Bytes)
  BY DecodingFields
<1> QED
  BY <1>1 DEF Behind, Decoding

LEMMA RecoveredBehind ==
  ASSUME NEW d \in Decoding, NEW ok \in Seq(Bytes), NEW done \in Nat
  PROVE  Recovered(Behind(d, ok, done)) = Behind(Recovered(d), ok, done)
<1> DEFINE f == Behind(d, ok, done)
           l == Recovered(f)
           r == Behind(Recovered(d), ok, done)
<1>1. ok \o (d.ok \o Replacement) = (ok \o d.ok) \o Replacement
  <2>1. d.ok \in Seq(Bytes)
    BY DecodingFields
  <2> QED
    BY <2>1, ReplacementBytes, BytesConcat
<1>2. /\ f \in Decoding /\ f.src = done + d.src /\ f.ok = ok \o d.ok /\ f.done = done + d.done
  BY BehindType
<1>3. /\ Recovered(d) \in Decoding /\ Recovered(d).src = d.src /\ Recovered(d).ok = d.ok
      /\ Recovered(d).done = d.done /\ Recovered(d).expect = 0
      /\ Recovered(d).dst = d.ok \o Replacement
  BY RecoveredType
<1>4. /\ r \in Decoding /\ r.src = done + d.src /\ r.dst = ok \o (d.ok \o Replacement)
      /\ r.ok = ok \o d.ok /\ r.done = done + d.done /\ r.expect = 0
  <2> DEFINE e == Recovered(d)
  <2> HIDE DEF e
  <2>1. e \in Decoding
    BY <1>3 DEF e
  <2>2. LET g == Behind(e, ok, done)
        IN  /\ g \in Decoding /\ g.src = done + e.src /\ g.dst = ok \o e.dst
            /\ g.ok = ok \o e.ok /\ g.done = done + e.done /\ g.expect = e.expect
    BY <2>1, BehindType
  <2> QED
    BY <1>3, <2>2 DEF e
<1> HIDE DEF f, r
<1>5. /\ l \in Decoding /\ l.src = f.src /\ l.ok = f.ok /\ l.done = f.done /\ l.expect = 0
      /\ l.dst = f.ok \o Replacement
  BY <1>2, RecoveredType
<1> HIDE DEF l
<1>6. /\ l.src = r.src /\ l.dst = r.dst /\ l.ok = r.ok /\ l.done = r.done
      /\ l.expect = r.expect
  BY <1>1, <1>2, <1>4, <1>5
<1>7. l = r
  BY <1>4, <1>5, <1>6, SameDecoding
<1> QED
  BY <1>7 DEF l, r, f

(* What Taken does, field by field.                                         *)
LEMMA TakenFields ==
  ASSUME NEW d \in Decoding, NEW c \in Bytes, NEW n \in Nat
  PROVE  LET e == Taken(d, c, n)
         IN  /\ e \in Decoding /\ e.src = d.src + 1 /\ e.dst = Append(d.dst, c)
             /\ e.ok = (IF n = 0 THEN Append(d.dst, c) ELSE d.ok)
             /\ e.done = (IF n = 0 THEN d.src + 1 ELSE d.done)
             /\ e.expect = n
<1> DEFINE t == [d EXCEPT !.src = @ + 1, !.dst = Append(@, c), !.expect = n]
<1>1. /\ t \in Decoding /\ t.src = d.src + 1 /\ t.dst = Append(d.dst, c) /\ t.ok = d.ok
      /\ t.done = d.done /\ t.expect = n
  <2>1. Append(d.dst, c) \in Seq(Bytes) /\ d.src + 1 \in Nat
    BY DecodingFields
  <2> QED
    BY <2>1 DEF Decoding
<1>2. Taken(d, c, n) = Checked(t)
  BY DEF Taken
<1> HIDE DEF t
<1>3. CASE n = 0
  <2> DEFINE f == [t EXCEPT !.ok = t.dst, !.done = t.src]
  <2>1. Checked(t) = f
    BY <1>1, <1>3 DEF Checked
  <2>2. f \in Decoding /\ f.ok = t.dst /\ f.dst = t.dst /\ f.done = t.src /\ f.src = t.src
        /\ f.expect = t.expect
    BY <1>1 DEF Decoding
  <2> QED
    BY <1>1, <1>2, <1>3, <2>1, <2>2
<1>4. CASE n # 0
  BY <1>1, <1>2, <1>4 DEF Checked
<1> QED
  BY <1>3, <1>4

LEMMA TakenBehind ==
  ASSUME NEW d \in Decoding, NEW c \in Bytes, NEW n \in Nat,
         NEW ok \in Seq(Bytes), NEW done \in Nat
  PROVE  Taken(Behind(d, ok, done), c, n) = Behind(Taken(d, c, n), ok, done)
<1> DEFINE f == Behind(d, ok, done)
           e == Taken(d, c, n)
           l == Taken(f, c, n)
           r == Behind(e, ok, done)
<1>1. /\ Append(ok \o d.dst, c) = ok \o Append(d.dst, c)
      /\ done + d.src + 1 = done + (d.src + 1)
  <2>1. d.src \in Nat /\ d.dst \in Seq(Bytes)
    BY DecodingFields
  <2>2. Append(ok \o d.dst, c) = ok \o Append(d.dst, c)
    BY <2>1, BytesConcat
  <2> QED
    BY <2>1, <2>2
<1>2. /\ f \in Decoding /\ f.src = done + d.src /\ f.dst = ok \o d.dst /\ f.ok = ok \o d.ok
      /\ f.done = done + d.done
  BY BehindType
<1>3. /\ e \in Decoding /\ e.src = d.src + 1 /\ e.dst = Append(d.dst, c)
      /\ e.ok = (IF n = 0 THEN Append(d.dst, c) ELSE d.ok)
      /\ e.done = (IF n = 0 THEN d.src + 1 ELSE d.done)
      /\ e.expect = n
  BY TakenFields
<1> HIDE DEF e, f
<1>4. /\ r \in Decoding /\ r.src = done + e.src /\ r.dst = ok \o e.dst
      /\ r.ok = ok \o e.ok /\ r.done = done + e.done /\ r.expect = e.expect
  BY <1>3, BehindType
<1>5. /\ l \in Decoding /\ l.src = f.src + 1 /\ l.dst = Append(f.dst, c)
      /\ l.ok = (IF n = 0 THEN Append(f.dst, c) ELSE f.ok)
      /\ l.done = (IF n = 0 THEN f.src + 1 ELSE f.done)
      /\ l.expect = n
  BY <1>2, TakenFields
<1> HIDE DEF l, r
<1>6. l.ok = r.ok /\ l.done = r.done
  <2>1. CASE n = 0
    <3>1. l.ok = Append(ok \o d.dst, c) /\ r.ok = ok \o Append(d.dst, c)
      BY <1>2, <1>3, <1>4, <1>5, <2>1
    <3>2. l.done = done + d.src + 1 /\ r.done = done + (d.src + 1)
      BY <1>2, <1>3, <1>4, <1>5, <2>1
    <3> QED
      BY <1>1, <3>1, <3>2
  <2>2. CASE n # 0
    BY <1>2, <1>3, <1>4, <1>5, <2>2
  <2> QED
    BY <2>1, <2>2
<1>7. l.src = r.src /\ l.dst = r.dst /\ l.expect = r.expect
  BY <1>1, <1>2, <1>3, <1>4, <1>5
<1>8. l = r
  BY <1>4, <1>5, <1>6, <1>7, SameDecoding
<1> QED
  BY <1>8 DEF l, r, e, f

LEMMA SkippedBehind ==
  ASSUME NEW d \in Decoding, NEW ok \in Seq(Bytes), NEW done \in Nat
  PROVE  [Behind(d, ok, done) EXCEPT !.src = @ + 1] = Behind([d EXCEPT !.src = @ + 1], ok, done)
<1> DEFINE f == Behind(d, ok, done)
           e == [d EXCEPT !.src = @ + 1]
           l == [f EXCEPT !.src = @ + 1]
           r == Behind(e, ok, done)
<1>1. d.src \in Nat
  BY DecodingFields
<1>2. /\ f \in Decoding /\ f.src = done + d.src /\ f.dst = ok \o d.dst
      /\ f.ok = ok \o d.ok /\ f.done = done + d.done /\ f.expect = d.expect
  BY BehindType
<1>3. /\ e \in Decoding /\ e.src = d.src + 1 /\ e.dst = d.dst /\ e.ok = d.ok
      /\ e.done = d.done /\ e.expect = d.expect
  BY Skipped
<1> HIDE DEF e, f
<1>4. /\ r \in Decoding /\ r.src = done + e.src /\ r.dst = ok \o e.dst
      /\ r.ok = ok \o e.ok /\ r.done = done + e.done /\ r.expect = e.expect
  BY <1>3, BehindType
<1>5. /\ l \in Decoding /\ l.src = f.src + 1 /\ l.dst = f.dst /\ l.ok = f.ok
      /\ l.done = f.done /\ l.expect = f.expect
  BY <1>2, Skipped
<1> HIDE DEF l, r
<1>6. /\ l.src = r.src /\ l.dst = r.dst /\ l.ok = r.ok /\ l.done = r.done
      /\ l.expect = r.expect
  BY <1>1, <1>2, <1>3, <1>4, <1>5
<1>7. l = r
  BY <1>4, <1>5, <1>6, SameDecoding
<1> QED
  BY <1>7 DEF l, r, e, f

LEMMA DetokBehind ==
  ASSUME NEW d \in Decoding, NEW c \in Bytes, NEW ok \in Seq(Bytes), NEW done \in Nat
  PROVE  Detok(Behind(d, ok, done), c) = Behind(Detok(d, c), ok, done)
<1> DEFINE f == Behind(d, ok, done)
           b == IF d.expect > 0 /\ ~Continuation(c) THEN Recovered(d) ELSE d
           g == IF f.expect > 0 /\ ~Continuation(c) THEN Recovered(f) ELSE f
<1>1. b \in Decoding /\ b.expect \in Nat
  BY RecoveredType, DecodingFields
<1>2. f.expect = d.expect /\ Recovered(f) = Behind(Recovered(d), ok, done)
  BY RecoveredBehind, BehindType
<1>3. /\ Detok(d, c) = CASE b.expect > 0                      -> Taken(b, c, b.expect - 1)
                         [] b.expect = 0 /\ Following(c) >= 0 -> Taken(b, c, Following(c))
                         [] b.expect = 0 /\ Following(c) < 0  -> [Recovered(b) EXCEPT !.src = @ + 1]
  BY DEF Detok
<1>4. /\ Detok(f, c) = CASE g.expect > 0                      -> Taken(g, c, g.expect - 1)
                         [] g.expect = 0 /\ Following(c) >= 0 -> Taken(g, c, Following(c))
                         [] g.expect = 0 /\ Following(c) < 0  -> [Recovered(g) EXCEPT !.src = @ + 1]
  <2> HIDE DEF f
  <2> QED
    BY DEF Detok
<1>5. g = Behind(b, ok, done)
  BY <1>2
<1> HIDE DEF b, g, f
<1>6. g.expect = b.expect
  BY <1>1, <1>5, BehindType
<1>7. CASE b.expect > 0
  <2>1. /\ Detok(d, c) = Taken(b, c, b.expect - 1) /\ b.expect - 1 \in Nat
        /\ Detok(f, c) = Taken(g, c, b.expect - 1)
    BY <1>1, <1>3, <1>4, <1>6, <1>7
  <2>2. Taken(g, c, b.expect - 1) = Behind(Taken(b, c, b.expect - 1), ok, done)
    BY <1>1, <1>5, <2>1, TakenBehind
  <2> QED
    BY <2>1, <2>2 DEF f
<1>8. CASE b.expect = 0 /\ Following(c) >= 0
  <2>1. /\ Detok(d, c) = Taken(b, c, Following(c)) /\ Following(c) \in Nat
        /\ Detok(f, c) = Taken(g, c, Following(c))
    BY <1>3, <1>4, <1>6, <1>8, FollowingBytes
  <2>2. Taken(g, c, Following(c)) = Behind(Taken(b, c, Following(c)), ok, done)
    BY <1>1, <1>5, <2>1, TakenBehind
  <2> QED
    BY <2>1, <2>2 DEF f
<1>9. CASE b.expect = 0 /\ Following(c) < 0
  <2>1. /\ Detok(d, c) = [Recovered(b) EXCEPT !.src = @ + 1]
        /\ Detok(f, c) = [Recovered(g) EXCEPT !.src = @ + 1]
    <3>1. ~(Following(c) >= 0)
      BY <1>9, FollowingBytes
    <3> QED
      BY <1>3, <1>4, <1>6, <1>9, <3>1
  <2>2. Recovered(b) \in Decoding /\ Recovered(g) = Behind(Recovered(b), ok, done)
    BY <1>1, <1>5, RecoveredType, RecoveredBehind
  <2>3. [Behind(Recovered(b), ok, done) EXCEPT !.src = @ + 1]
          = Behind([Recovered(b) EXCEPT !.src = @ + 1], ok, done)
    BY <2>2, SkippedBehind
  <2> QED
    BY <2>1, <2>2, <2>3 DEF f
<1>10. (b.expect > 0 \/ b.expect = 0) /\ (Following(c) >= 0 \/ Following(c) < 0)
  BY <1>1, FollowingBytes
<1> QED
  BY <1>7, <1>8, <1>9, <1>10

LEMMA ResumeWith ==
  ASSUME NEW x \in Seq(Bytes), NEW p \in Seq(Bytes), NEW ok \in Seq(Bytes), NEW done \in Nat,
         Decoder(x) = Behind(Decoder(p), ok, done), NEW y \in Seq(Bytes)
  PROVE  Decoder(x \o y) = Behind(Decoder(p \o y), ok, done)
<1> DEFINE P == {s \in Seq(Bytes) : Decoder(x \o s) = Behind(Decoder(p \o s), ok, done)}
<1>0. \A s : s \in P <=> s \in Seq(Bytes) /\ Decoder(x \o s) = Behind(Decoder(p \o s), ok, done)
  OBVIOUS
<1> HIDE DEF P
<1>1. <<>> \in P
  <2>1. x \o <<>> = x /\ p \o <<>> = p /\ <<>> \in Seq(Bytes)
    OBVIOUS
  <2> QED
    BY <1>0, <2>1
<1>2. ASSUME NEW s \in Seq(Bytes), NEW c \in Bytes, s \in P PROVE Append(s, c) \in P
  <2>1. /\ x \o s \in Seq(Bytes) /\ p \o s \in Seq(Bytes) /\ Append(s, c) \in Seq(Bytes)
        /\ x \o Append(s, c) = Append(x \o s, c) /\ p \o Append(s, c) = Append(p \o s, c)
    <3>1. x \o Append(s, c) = Append(x \o s, c)
      BY BytesConcat
    <3>2. p \o Append(s, c) = Append(p \o s, c)
      BY BytesConcat
    <3>3. x \o s \in Seq(Bytes) /\ p \o s \in Seq(Bytes) /\ Append(s, c) \in Seq(Bytes)
      OBVIOUS
    <3> QED
      BY <3>1, <3>2, <3>3
  <2>2. Decoder(x \o s) = Behind(Decoder(p \o s), ok, done)
    BY <1>0, <1>2
  <2>3. /\ Decoder(x \o Append(s, c)) = Detok(Decoder(x \o s), c)
        /\ Decoder(p \o Append(s, c)) = Detok(Decoder(p \o s), c)
    BY <2>1, DecoderOfOneMore
  <2>4. Detok(Behind(Decoder(p \o s), ok, done), c) = Behind(Detok(Decoder(p \o s), c), ok, done)
    BY <2>1, DecoderType, DetokBehind
  <2> QED
    BY <1>0, <2>1, <2>2, <2>3, <2>4
<1>3. Seq(Bytes) \subseteq P
  BY <1>1, <1>2, OverSequences
<1> QED
  BY <1>0, <1>3

Undecoded(x) == SubSeq(x, Decoder(x).done + 1, Len(x))

(* Decoding the bytes that are not decoded yet comes to the same state.     *)
LEMMA UndecodedType ==
  ASSUME NEW x \in Seq(Bytes)
  PROVE  Undecoded(x) \in Seq(Bytes)
<1>1. Decoder(x).done \in Nat
  BY DecoderType, DecodingFields
<1> QED
  BY <1>1 DEF Undecoded

Resumes(x) == Decoder(x) = Behind(Decoder(Undecoded(x)), Decoder(x).ok, Decoder(x).done)

(* When everything is decoded there is nothing to resume with.              *)
LEMMA AllDecoded ==
  ASSUME NEW x \in Seq(Bytes), Decoder(x).ok = Decoder(x).dst,
         Decoder(x).done = Decoder(x).src, Decoder(x).expect = 0
  PROVE  Resumes(x)
<1> DEFINE d == Decoder(x)
           f == Behind(Fresh, d.ok, d.done)
<1>1. /\ d \in Decoding /\ d.src = Len(x) /\ d.ok \in Seq(Bytes) /\ d.done \in Nat
      /\ d.src \in Nat /\ d.dst \in Seq(Bytes)
  BY DecoderType, DecodingFields
<1>2. Undecoded(x) = <<>>
  BY <1>1 DEF Undecoded
<1>3. Fresh \in Decoding
  BY DEF Fresh, Decoding
<1>4. /\ f \in Decoding /\ f.src = d.done + Fresh.src /\ f.dst = d.ok \o Fresh.dst
      /\ f.ok = d.ok \o Fresh.ok /\ f.done = d.done + Fresh.done /\ f.expect = Fresh.expect
  <2> HIDE DEF d
  <2> QED
    BY <1>1, <1>3, BehindType
<1>5. d.ok = d.dst /\ d.done = d.src /\ d.expect = 0
  OBVIOUS
<1> HIDE DEF d, f
<1>6. /\ d.done + Fresh.src = d.done /\ d.ok \o Fresh.dst = d.ok
      /\ d.ok \o Fresh.ok = d.ok /\ d.done + Fresh.done = d.done /\ Fresh.expect = 0
  BY <1>1 DEF Fresh
<1>7. /\ d.src = f.src /\ d.dst = f.dst /\ d.ok = f.ok /\ d.done = f.done
      /\ d.expect = f.expect
  BY <1>4, <1>5, <1>6
<1>8. d = f
  BY <1>1, <1>4, <1>7, SameDecoding
<1> QED
  BY <1>2, <1>8, DecoderOfNothing DEF Resumes, d, f

LEMMA OneMoreUndecoded ==
  ASSUME NEW s \in Seq(Bytes), NEW c \in Bytes, NEW n \in 0 .. Len(s)
  PROVE  SubSeq(Append(s, c), n + 1, Len(s) + 1) = Append(SubSeq(s, n + 1, Len(s)), c)
<1> DEFINE l == SubSeq(Append(s, c), n + 1, Len(s) + 1)
           r == Append(SubSeq(s, n + 1, Len(s)), c)
<1>1. /\ l \in Seq(Bytes) /\ Len(l) = Len(s) + 1 - n
      /\ r \in Seq(Bytes) /\ Len(r) = Len(s) + 1 - n
  OBVIOUS
<1>2. ASSUME NEW i \in 1 .. Len(l) PROVE l[i] = r[i]
  <2>1. l[i] = Append(s, c)[n + i]
    OBVIOUS
  <2>2. CASE i <= Len(s) - n
    <3>1. Append(s, c)[n + i] = s[n + i] /\ r[i] = s[n + i]
      BY <2>2
    <3> QED
      BY <2>1, <3>1
  <2>3. CASE i = Len(s) + 1 - n
    <3>1. Append(s, c)[n + i] = c /\ r[i] = c
      BY <2>3
    <3> QED
      BY <2>1, <3>1
  <2> QED
    BY <1>1, <2>2, <2>3
<1>3. l = r
  <2> HIDE DEF l, r
  <2> QED
    BY <1>1, <1>2, SeqEqual
<1> QED
  BY <1>3

(* Decoding the bytes that are not decoded yet comes to the same state.     *)
LEMMA Resumable ==
  ASSUME NEW x \in Seq(Bytes)
  PROVE  Resumes(x)
<1> DEFINE P == {s \in Seq(Bytes) : Resumes(s)}
<1>1. <<>> \in P
  <2>1. /\ Decoder(<<>>).ok = Decoder(<<>>).dst /\ Decoder(<<>>).done = Decoder(<<>>).src
        /\ Decoder(<<>>).expect = 0 /\ <<>> \in Seq(Bytes)
    BY DecoderOfNothing DEF Fresh
  <2> QED
    BY <2>1, AllDecoded
<1>2. ASSUME NEW s \in Seq(Bytes), NEW c \in Bytes, s \in P PROVE Append(s, c) \in P
  <2> DEFINE t == Append(s, c)
             d == Decoder(s)
             e == Decoder(t)
             u == Undecoded(s)
  <2>1. /\ t \in Seq(Bytes) /\ Len(t) = Len(s) + 1 /\ Len(s) \in Nat /\ u \in Seq(Bytes)
        /\ d \in Decoding /\ d.src = Len(s) /\ d.done <= Len(s)
        /\ d.done \in Nat /\ d.ok \in Seq(Bytes)
    BY DecoderType, DecodingFields, UndecodedType
  <2>2. e = Detok(d, c)
    BY DecoderOfOneMore
  <2>3. \/ e.ok = d.ok /\ e.done = d.done
        \/ e.ok = e.dst /\ e.done = e.src /\ e.expect = 0
    BY <2>1, <2>2, DetokType
  <2>4. CASE e.ok = d.ok /\ e.done = d.done
    <3>1. Undecoded(t) = Append(u, c)
      <4>1. d.done \in 0 .. Len(s)
        BY <2>1
      <4>2. SubSeq(t, d.done + 1, Len(s) + 1) = Append(SubSeq(s, d.done + 1, Len(s)), c)
        BY <4>1, OneMoreUndecoded
      <4> QED
        BY <2>1, <2>4, <4>2 DEF Undecoded
    <3> DEFINE b == Decoder(u)
    <3>2. Decoder(Undecoded(t)) = Detok(b, c) /\ b \in Decoding
      BY <2>1, <3>1, DecoderOfOneMore, DecoderType
    <3>3. d = Behind(b, d.ok, d.done)
      BY <1>2 DEF Resumes
    <3> HIDE DEF b, d
    <3>4. Detok(Behind(b, d.ok, d.done), c) = Behind(Detok(b, c), d.ok, d.done)
      BY <2>1, <3>2, DetokBehind
    <3>5. e = Behind(Decoder(Undecoded(t)), e.ok, e.done)
      BY <2>2, <2>4, <3>2, <3>3, <3>4
    <3> QED
      BY <2>1, <3>5 DEF Resumes
  <2>5. CASE e.ok = e.dst /\ e.done = e.src /\ e.expect = 0
    BY <2>1, <2>5, AllDecoded
  <2> QED
    BY <2>3, <2>4, <2>5
<1>3. Seq(Bytes) \subseteq P
  <2> HIDE DEF P
  <2> QED
    BY <1>1, <1>2, OverSequences
<1> QED
  BY <1>3

(* What is left of s without its first n bytes.                             *)
Rest(s, n) == SubSeq(s, n + 1, Len(s))

LEMMA RestType ==
  ASSUME NEW s \in Seq(Bytes), NEW n \in 0 .. Len(s)
  PROVE  /\ Rest(s, n) \in Seq(Bytes) /\ Len(Rest(s, n)) = Len(s) - n
         /\ \A i \in 1 .. (Len(s) - n) : Rest(s, n)[i] = s[n + i]
BY DEF Rest

LEMMA ConcatIndex ==
  ASSUME NEW s \in Seq(Bytes), NEW t \in Seq(Bytes)
  PROVE  /\ s \o t \in Seq(Bytes) /\ Len(s \o t) = Len(s) + Len(t)
         /\ \A i \in 1 .. Len(s) : (s \o t)[i] = s[i]
         /\ \A i \in 1 .. Len(t) : (s \o t)[Len(s) + i] = t[i]
OBVIOUS

LEMMA RestOfConcat ==
  ASSUME NEW x \in Seq(Bytes), NEW y \in Seq(Bytes), NEW n \in 0 .. Len(x),
         NEW k \in 0 .. (Len(x) - n + Len(y)), NEW m, m = n + k
  PROVE  Rest(x \o y, m) = Rest(Rest(x, n) \o y, k)
<1> DEFINE a == Len(x)
           b == Len(y)
           p == Rest(x, n)
           s == x \o y
           q == p \o y
           l == Rest(s, m)
           r == Rest(q, k)
<1>1. a \in Nat /\ b \in Nat /\ n \in 0 .. a /\ k \in 0 .. (a - n + b) /\ m \in 0 .. (a + b)
  OBVIOUS
<1>2. p \in Seq(Bytes) /\ Len(p) = a - n /\ \A i \in 1 .. (a - n) : p[i] = x[n + i]
  BY RestType
<1>3. /\ s \in Seq(Bytes) /\ Len(s) = a + b
      /\ \A i \in 1 .. a : s[i] = x[i]
      /\ \A i \in 1 .. b : s[a + i] = y[i]
  BY ConcatIndex
<1> HIDE DEF p, s
<1>4. /\ q \in Seq(Bytes) /\ Len(q) = (a - n) + b
      /\ \A i \in 1 .. (a - n) : q[i] = p[i]
      /\ \A i \in 1 .. b : q[(a - n) + i] = y[i]
  <2>1. /\ q \in Seq(Bytes) /\ Len(q) = Len(p) + b
        /\ \A i \in 1 .. Len(p) : q[i] = p[i]
        /\ \A i \in 1 .. b : q[Len(p) + i] = y[i]
    BY <1>2, ConcatIndex
  <2> HIDE DEF q, a, b
  <2> QED
    BY <1>2, <2>1
<1> HIDE DEF q
<1>5. /\ l \in Seq(Bytes) /\ Len(l) = a + b - m
      /\ \A i \in 1 .. (a + b - m) : l[i] = s[m + i]
  <2>1. m \in 0 .. Len(s)
    BY <1>1, <1>3
  <2>2. /\ l \in Seq(Bytes) /\ Len(l) = Len(s) - m
        /\ \A i \in 1 .. (Len(s) - m) : l[i] = s[m + i]
    BY <1>3, <2>1, RestType
  <2> HIDE DEF l, a, b
  <2>3. Len(s) - m = a + b - m
    BY <1>1, <1>3
  <2> QED
    BY <2>2, <2>3
<1>6. /\ r \in Seq(Bytes) /\ Len(r) = (a - n) + b - k
      /\ \A i \in 1 .. ((a - n) + b - k) : r[i] = q[k + i]
  <2>1. k \in 0 .. Len(q)
    BY <1>1, <1>4
  <2>2. /\ r \in Seq(Bytes) /\ Len(r) = Len(q) - k
        /\ \A i \in 1 .. (Len(q) - k) : r[i] = q[k + i]
    BY <1>4, <2>1, RestType
  <2> HIDE DEF r, a, b
  <2>3. Len(q) - k = (a - n) + b - k
    BY <1>1, <1>4
  <2> QED
    BY <2>2, <2>3
<1> HIDE DEF a, b, l, r
<1>7. ASSUME NEW i \in 1 .. (a - n + b) PROVE q[i] = s[n + i]
  <2>1. CASE i <= a - n
    <3>1. i \in 1 .. (a - n) /\ n + i \in 1 .. a
      BY <1>1, <2>1
    <3> QED
      BY <1>2, <1>3, <1>4, <3>1
  <2>2. CASE i > a - n
    <3>1. PICK j \in 1 .. b : i = (a - n) + j /\ n + i = a + j
      <4>1. i - (a - n) \in 1 .. b
        BY <1>1, <2>2
      <4>2. i = (a - n) + (i - (a - n)) /\ n + i = a + (i - (a - n))
        BY <1>1
      <4> QED
        BY <4>1, <4>2
    <3>2. q[(a - n) + j] = y[j] /\ s[a + j] = y[j]
      BY <1>3, <1>4
    <3> QED
      BY <3>1, <3>2
  <2> QED
    BY <1>1, <2>1, <2>2
<1>8. ASSUME NEW i \in 1 .. Len(l) PROVE l[i] = r[i]
  <2>1. /\ k + i \in 1 .. (a - n + b) /\ n + (k + i) = m + i
        /\ i \in 1 .. (a + b - m) /\ i \in 1 .. ((a - n) + b - k)
    BY <1>1, <1>5
  <2>2. q[k + i] = s[n + (k + i)]
    BY <1>7, <2>1
  <2>3. l[i] = s[m + i] /\ r[i] = q[k + i]
    BY <1>5, <1>6, <2>1
  <2> QED
    BY <2>1, <2>2, <2>3
<1>9. Len(l) = Len(r)
  BY <1>1, <1>5, <1>6
<1>10. l = r
  BY <1>5, <1>6, <1>8, <1>9, SeqEqual
<1> QED
  BY <1>10 DEF l, r, s, q, p

(* What comes after some bytes decodes to the same, whether the decoder saw *)
(* them at once or kept the undecoded ones in strBuffer.                    *)
LEMMA DecodesInPieces ==
  ASSUME NEW x \in Seq(Bytes), NEW y \in Seq(Bytes)
  PROVE  /\ DetokUtf8(x \o y).text = DetokUtf8(x).text \o DetokUtf8(Undecoded(x) \o y).text
         /\ DetokUtf8(x \o y).pending = DetokUtf8(Undecoded(x) \o y).pending
         /\ DetokUtf8(x).pending = Undecoded(x)
<1> DEFINE d == Decoder(x)
           p == Undecoded(x)
           e == Decoder(p \o y)
           f == Decoder(x \o y)
<1>1. /\ d \in Decoding /\ d.ok \in Seq(Bytes) /\ d.done \in Nat /\ d.done <= Len(x)
      /\ p \in Seq(Bytes) /\ d = Behind(Decoder(p), d.ok, d.done)
  BY DecoderType, DecodingFields, UndecodedType, Resumable DEF Resumes
<1>2. p = Rest(x, d.done) /\ Len(x) \in Nat /\ Len(y) \in Nat
  BY DEF Undecoded, Rest
<1> HIDE DEF p
<1>3. f = Behind(e, d.ok, d.done)
  BY <1>1, ResumeWith
<1>4. p \o y \in Seq(Bytes) /\ x \o y \in Seq(Bytes)
  BY <1>1
<1>5. e \in Decoding /\ e.done \in Nat /\ e.done <= Len(p \o y)
  BY <1>4, DecoderType, DecodingFields
<1>6. DetokUtf8(x).text = d.ok /\ DetokUtf8(x).pending = p
  BY <1>2 DEF DetokUtf8, Rest
<1>7. DetokUtf8(x \o y).text = f.ok /\ DetokUtf8(x \o y).pending = Rest(x \o y, f.done)
  BY DEF DetokUtf8, Rest
<1>8. DetokUtf8(p \o y).text = e.ok /\ DetokUtf8(p \o y).pending = Rest(p \o y, e.done)
  BY DEF DetokUtf8, Rest
<1> HIDE DEF d, e, f
<1>9. f.ok = d.ok \o e.ok /\ f.done = d.done + e.done
  BY <1>1, <1>3, <1>5, BehindType
<1>10. Rest(x \o y, f.done) = Rest(p \o y, e.done)
  <2>1. d.done \in 0 .. Len(x)
    BY <1>1, <1>2
  <2>2. Len(p \o y) = Len(x) - d.done + Len(y)
    <3>1. Len(p) = Len(x) - d.done
      BY <1>2, <2>1, RestType
    <3>2. Len(p \o y) = Len(p) + Len(y)
      BY <1>1
    <3> QED
      BY <3>1, <3>2
  <2>3. e.done \in 0 .. (Len(x) - d.done + Len(y))
    BY <1>5, <2>2
  <2> QED
    BY <1>2, <1>9, <2>1, <2>3, RestOfConcat
<1> QED
  BY <1>6, <1>7, <1>8, <1>9, <1>10 DEF p

-----------------------------------------------------------------------------
(* The vocabulary and what is derived from it                               *)

LEMMA MinOf ==
  ASSUME NEW S, S \subseteq Nat, S # {}
  PROVE  Min(S) \in S /\ Min(S) \in Nat
<1>1. \E n \in S : \A k \in S : n <= k
  BY LeastNatural
<1>2. Min(S) \in S
  BY <1>1 DEF Min
<1> QED
  BY <1>2

LEMMA MaxOf ==
  ASSUME NEW S, S \subseteq Nat, S # {}, NEW b \in Nat, \A k \in S : k <= b
  PROVE  Max(S) \in S /\ Max(S) \in Nat /\ \A k \in S : k <= Max(S)
<1> DEFINE Above == {n \in Nat : \A k \in S : k <= n}
<1>1. \A n : n \in Above <=> n \in Nat /\ \A k \in S : k <= n
  OBVIOUS
<1> HIDE DEF Above
<1>2. PICK m \in Above : \A n \in Above : m <= n
  <2>1. Above \subseteq Nat /\ Above # {}
    BY <1>1
  <2> QED
    BY <2>1, LeastNatural
<1>3. m \in Nat /\ \A k \in S : k <= m
  BY <1>1, <1>2
<1>4. m \in S
  <2>1. SUFFICES ASSUME m \notin S PROVE FALSE
    OBVIOUS
  <2>2. \A k \in S : k < m
    BY <1>3, <2>1
  <2>3. m - 1 \in Nat /\ \A k \in S : k <= m - 1
    <3>1. PICK x \in S : x \in Nat /\ x < m
      BY <2>2
    <3>2. m - 1 \in Nat
      BY <1>3, <3>1
    <3>3. ASSUME NEW k \in S PROVE k <= m - 1
      <4>1. k \in Nat /\ k < m
        BY <2>2
      <4> QED
        BY <1>3, <4>1
    <3> QED
      BY <3>2, <3>3
  <2>4. m - 1 \in Above
    BY <1>1, <2>3
  <2> QED
    BY <1>2, <1>3, <2>4
<1>5. \E x \in S : \A y \in S : x >= y
  BY <1>3, <1>4
<1>6. Max(S) \in S /\ \A y \in S : Max(S) >= y
  BY <1>5 DEF Max
<1> QED
  BY <1>6

LEMMA Vocabulary ==
  /\ Token \subseteq Nat /\ Bos \in Token /\ 0 \in Token
  /\ \A t \in Token : Vocab[t] \in Seq(Bytes) /\ Len(Vocab[t]) \in Nat /\ Len(Vocab[t]) >= 1
  /\ EosTokenIds \in Seq(Token) /\ Len(EosTokenIds) \in Nat /\ Len(EosTokenIds) >= 1
<1>1. /\ Token = 0 .. Max(DOMAIN Vocab) /\ Max(DOMAIN Vocab) \in Nat /\ Bos \in Token
      /\ EosTokenIds \in Seq(Token) /\ EosTokenIds # <<>>
      /\ \A t \in Token : Vocab[t] \in Seq(Bytes) /\ Vocab[t] # <<>>
  BY VocabAssumption DEF Token, Bytes
<1>2. Token \subseteq Nat /\ 0 \in Token
  BY <1>1
<1>3. ASSUME NEW t \in Token PROVE Len(Vocab[t]) \in Nat /\ Len(Vocab[t]) >= 1
  BY <1>1
<1>4. Len(EosTokenIds) \in Nat /\ Len(EosTokenIds) >= 1
  BY <1>1
<1> QED
  BY <1>1, <1>2, <1>3, <1>4

LEMMA TokensAreShort == \E b \in Nat : \A t \in Token : Len(Vocab[t]) <= b
<1> DEFINE n == Max(DOMAIN Vocab)
           P == {k \in 0 .. n : \E b \in Nat : \A t \in 0 .. k : Len(Vocab[t]) <= b}
<1>1. n \in Nat /\ Token = 0 .. n /\ \A t \in 0 .. n : Len(Vocab[t]) \in Nat
  BY VocabAssumption, Vocabulary DEF Token
<1>2. \A k : k \in P <=> k \in 0 .. n /\ \E b \in Nat : \A t \in 0 .. k : Len(Vocab[t]) <= b
  OBVIOUS
<1> HIDE DEF P, n
<1>3. 0 \in P
  <2>1. 0 \in 0 .. n /\ Len(Vocab[0]) \in Nat /\ \A t \in 0 .. 0 : t = 0
    BY <1>1
  <2>2. \A t \in 0 .. 0 : Len(Vocab[t]) <= Len(Vocab[0])
    BY <2>1
  <2> QED
    BY <1>2, <2>1, <2>2
<1>4. ASSUME NEW k \in 1 .. n, k - 1 \in P PROVE k \in P
  <2>1. PICK b \in Nat : \A t \in 0 .. (k - 1) : Len(Vocab[t]) <= b
    BY <1>2, <1>4
  <2>2. k \in 0 .. n /\ Len(Vocab[k]) \in Nat
    BY <1>1
  <2>3. b + Len(Vocab[k]) \in Nat
    BY <2>2
  <2>4. ASSUME NEW t \in 0 .. k PROVE Len(Vocab[t]) <= b + Len(Vocab[k])
    <3>1. Len(Vocab[t]) \in Nat
      BY <1>1
    <3>2. t = k \/ t \in 0 .. (k - 1)
      BY <1>1
    <3> QED
      BY <2>1, <2>2, <3>1, <3>2
  <2> QED
    BY <1>2, <2>2, <2>3, <2>4
<1>5. n \in P
  <2>1. n \in 0 .. n
    BY <1>1
  <2> QED
    BY <1>1, <1>3, <1>4, <2>1, UpTo
<1> QED
  BY <1>1, <1>2, <1>5

LEMMA StrBufferIsLarge == StrBufferSize \in Nat /\ StrBufferSize > 0
<1> DEFINE Lengths == {Len(Vocab[t]) : t \in Token}
           sizes   == {2 * MaxTokenLength, 8}
<1>1. PICK b \in Nat : \A t \in Token : Len(Vocab[t]) <= b
  BY TokensAreShort
<1>2. Lengths \subseteq Nat /\ Lengths # {} /\ \A k \in Lengths : k <= b
  BY <1>1, Vocabulary
<1>3. MaxTokenLength = Max(Lengths)
  BY DEF MaxTokenLength
<1> HIDE DEF Lengths
<1>4. MaxTokenLength \in Nat
  BY <1>2, <1>3, MaxOf
<1>5. /\ sizes \subseteq Nat /\ sizes # {} /\ 2 * MaxTokenLength + 8 \in Nat
      /\ \A k \in sizes : k <= 2 * MaxTokenLength + 8
  BY <1>4
<1> HIDE DEF sizes
<1>6. Max(sizes) \in Nat
  BY <1>5, MaxOf
<1>7. StrBufferSize = Max(sizes) + 3
  BY DEF StrBufferSize, sizes
<1> QED
  BY <1>6, <1>7

LEMMA PaddingType == Padding \in Nat
<1> DEFINE Lengths == {Len(Stop(i)) : i \in DOMAIN EosTokenIds}
<1>1. PICK b \in Nat : \A t \in Token : Len(Vocab[t]) <= b
  BY TokensAreShort
<1>2. \A i \in DOMAIN EosTokenIds : EosTokenIds[i] \in Token
  BY Vocabulary
<1>3. \A i \in DOMAIN EosTokenIds : Len(Stop(i)) \in Nat /\ Len(Stop(i)) <= b
  BY <1>1, <1>2, Vocabulary DEF Stop
<1>4. 1 \in DOMAIN EosTokenIds
  BY Vocabulary
<1>5. Lengths \subseteq Nat /\ Lengths # {} /\ \A k \in Lengths : k <= b
  BY <1>3, <1>4
<1>6. Padding = Max(Lengths)
  BY DEF Padding
<1> HIDE DEF Lengths
<1> QED
  BY <1>5, <1>6, MaxOf

-----------------------------------------------------------------------------
(* The bytes of an answer                                                   *)

(* What the decoder gets to see of a token.                                 *)
Heard(t) == IF t = Bos \/ IsEos(t) THEN <<>> ELSE Vocab[t]

AllHeard(tokens) == [i \in DOMAIN tokens |-> Heard(tokens[i])]

StreamOf(tokens) == FlattenSeq(AllHeard(tokens))

Flat(f, seqs, n) ==
  [i \in 1 .. n |-> IF i = 1 THEN seqs[i] ELSE f[i - 1] \o seqs[i]]

Flatten(seqs) ==
  LET flatten[i \in 1 .. Len(seqs)] ==
        IF i = 1 THEN seqs[i] ELSE flatten[i - 1] \o seqs[i]
  IN  flatten

LEMMA FlatExists ==
  ASSUME NEW seqs, NEW n \in Nat
  PROVE  \E f : f = Flat(f, seqs, n)
<1> DEFINE P == {k \in 0 .. n : \E f : f = Flat(f, seqs, k)}
<1>0. \A k : k \in P <=> k \in 0 .. n /\ \E f : f = Flat(f, seqs, k)
  OBVIOUS
<1> HIDE DEF P
<1>1. 0 \in P
  <2> DEFINE f == [i \in 1 .. 0 |-> <<>>]
  <2>1. f = Flat(f, seqs, 0)
    BY DEF Flat
  <2> HIDE DEF f
  <2>2. 0 \in 0 .. n
    OBVIOUS
  <2> QED
    BY <1>0, <2>1, <2>2
<1>2. ASSUME NEW k \in 1 .. n, k - 1 \in P PROVE k \in P
  <2>1. PICK f : f = Flat(f, seqs, k - 1)
    BY <1>0, <1>2
  <2> DEFINE g == [i \in 1 .. k |-> IF i < k THEN f[i]
                                    ELSE IF i = 1 THEN seqs[i] ELSE f[i - 1] \o seqs[i]]
  <2>2. \A i \in 1 .. (k - 1) :
          f[i] = IF i = 1 THEN seqs[i] ELSE f[i - 1] \o seqs[i]
    BY <2>1 DEF Flat
  <2>3. \A i \in 1 .. (k - 1) : g[i] = f[i]
    OBVIOUS
  <2>4. g[k] = IF k = 1 THEN seqs[k] ELSE f[k - 1] \o seqs[k]
    OBVIOUS
  <2>5. ASSUME NEW i \in 1 .. k
        PROVE  g[i] = IF i = 1 THEN seqs[i] ELSE g[i - 1] \o seqs[i]
    <3> HIDE DEF g
    <3>1. CASE i = k /\ i = 1
      BY <2>4, <3>1
    <3>2. CASE i = k /\ i # 1
      <4>1. k - 1 \in 1 .. (k - 1)
        BY <3>2
      <4> QED
        BY <2>3, <2>4, <3>2, <4>1
    <3>3. CASE i # k /\ i = 1
      <4>1. i \in 1 .. (k - 1)
        BY <3>3
      <4> QED
        BY <2>2, <2>3, <3>3, <4>1
    <3>4. CASE i # k /\ i # 1
      <4>1. i \in 1 .. (k - 1) /\ i - 1 \in 1 .. (k - 1)
        BY <3>4
      <4>2. f[i] = f[i - 1] \o seqs[i] /\ g[i] = f[i] /\ g[i - 1] = f[i - 1]
        BY <2>2, <2>3, <3>4, <4>1
      <4> QED
        BY <3>4, <4>2
    <3> QED
      BY <3>1, <3>2, <3>3, <3>4
  <2>6. g = Flat(g, seqs, k)
    BY <2>5 DEF Flat
  <2> HIDE DEF g
  <2>7. k \in 0 .. n
    OBVIOUS
  <2> QED
    BY <1>0, <2>6, <2>7
<1>3. n \in P
  <2>1. n \in 0 .. n
    OBVIOUS
  <2> QED
    BY <1>1, <1>2, <2>1, UpTo
<1> QED
  BY <1>0, <1>3

LEMMA FlattenRun ==
  ASSUME NEW seqs, NEW n \in Nat \ {0}, Len(seqs) = n
  PROVE  \E f : /\ \A i \in 1 .. n : f[i] = IF i = 1 THEN seqs[i] ELSE f[i - 1] \o seqs[i]
                /\ FlattenSeq(seqs) = f[n]
<1>1. Flatten(seqs) = CHOOSE f : f = Flat(f, seqs, n)
  BY DEF Flatten, Flat
<1>2. \E f : f = Flat(f, seqs, n)
  BY FlatExists
<1>3. FlattenSeq(seqs) = Flatten(seqs)[n]
  BY DEF FlattenSeq, Flatten
<1>4. PICK f : f = Flat(f, seqs, n) /\ f = Flatten(seqs)
  BY <1>1, <1>2
<1>5. \A i \in 1 .. n : f[i] = IF i = 1 THEN seqs[i] ELSE f[i - 1] \o seqs[i]
  BY <1>4 DEF Flat
<1> QED
  BY <1>3, <1>4, <1>5

LEMMA StreamOfNothing == StreamOf(<<>>) = <<>>
<1>1. AllHeard(<<>>) = <<>>
  BY DEF AllHeard
<1>2. FlattenSeq(<<>>) = <<>>
  BY DEF FlattenSeq
<1> QED
  BY <1>1, <1>2 DEF StreamOf

LEMMA HeardType ==
  ASSUME NEW t \in Token
  PROVE  Heard(t) \in Seq(Bytes)
BY Vocabulary DEF Heard

LEMMA StreamOfOneMore ==
  ASSUME NEW tokens \in Seq(Token), NEW t \in Token
  PROVE  /\ StreamOf(tokens) \in Seq(Bytes)
         /\ StreamOf(Append(tokens, t)) = StreamOf(tokens) \o Heard(t)
<1> DEFINE n    == Len(tokens)
           more == Append(tokens, t)
           seqs == AllHeard(tokens)
           all  == AllHeard(more)
<1>1. /\ n \in Nat /\ n + 1 \in Nat \ {0} /\ Len(seqs) = n /\ Len(all) = n + 1
      /\ \A i \in 1 .. n : seqs[i] \in Seq(Bytes) /\ all[i] = seqs[i]
      /\ all[n + 1] = Heard(t)
  <2>1. more \in Seq(Token) /\ Len(more) = n + 1 /\ n \in Nat
    OBVIOUS
  <2>2. DOMAIN tokens = 1 .. n /\ DOMAIN more = 1 .. (n + 1)
    OBVIOUS
  <2>3. \A i \in 1 .. n : tokens[i] \in Token /\ more[i] = tokens[i]
    OBVIOUS
  <2>4. more[n + 1] = t
    OBVIOUS
  <2> HIDE DEF n, more
  <2>5. Len(seqs) = n /\ Len(all) = n + 1
    BY <2>1, <2>2 DEF AllHeard
  <2>6. ASSUME NEW i \in 1 .. n PROVE seqs[i] \in Seq(Bytes) /\ all[i] = seqs[i]
    <3>1. seqs[i] = Heard(tokens[i])
      BY <2>2 DEF AllHeard
    <3>2. all[i] = Heard(more[i])
      BY <2>1, <2>2 DEF AllHeard
    <3> QED
      BY <2>3, <3>1, <3>2, HeardType
  <2>7. all[n + 1] = Heard(t)
    BY <2>1, <2>2, <2>4 DEF AllHeard
  <2> QED
    BY <2>1, <2>5, <2>6, <2>7
<1>2. Heard(t) \in Seq(Bytes)
  BY HeardType
<1> HIDE DEF n, more, seqs, all
<1>3. PICK g : /\ \A i \in 1 .. (n + 1) : g[i] = IF i = 1 THEN all[i] ELSE g[i - 1] \o all[i]
               /\ FlattenSeq(all) = g[n + 1]
  BY <1>1, FlattenRun
<1>4. CASE n = 0
  <2>1. tokens = <<>>
    BY <1>4 DEF n
  <2>2. StreamOf(tokens) = <<>>
    BY <2>1, StreamOfNothing
  <2>3. FlattenSeq(all) = Heard(t)
    BY <1>1, <1>3, <1>4
  <2> QED
    BY <1>2, <2>2, <2>3 DEF StreamOf, all, more
<1>5. CASE n # 0
  <2>1. PICK f : /\ \A i \in 1 .. n : f[i] = IF i = 1 THEN seqs[i] ELSE f[i - 1] \o seqs[i]
                 /\ FlattenSeq(seqs) = f[n]
    <3>1. n \in Nat \ {0}
      BY <1>1, <1>5
    <3> QED
      BY <1>1, <3>1, FlattenRun
  <2> DEFINE P == {i \in 0 .. n : i = 0 \/ (f[i] \in Seq(Bytes) /\ g[i] = f[i])}
  <2>2. \A i : i \in P <=> i \in 0 .. n /\ (i = 0 \/ (f[i] \in Seq(Bytes) /\ g[i] = f[i]))
    OBVIOUS
  <2> HIDE DEF P
  <2>3. 0 \in P
    BY <1>1, <2>2
  <2>4. ASSUME NEW i \in 1 .. n, i - 1 \in P PROVE i \in P
    <3>1. i \in 0 .. n /\ i \in 1 .. (n + 1)
      BY <1>1
    <3>2. CASE i = 1
      BY <1>1, <1>3, <2>1, <2>2, <3>1, <3>2
    <3>3. CASE i # 1
      <4>1. f[i - 1] \in Seq(Bytes) /\ g[i - 1] = f[i - 1]
        BY <2>2, <2>4, <3>3
      <4>2. f[i] = f[i - 1] \o seqs[i] /\ g[i] = g[i - 1] \o all[i]
        BY <1>3, <2>1, <3>1, <3>3
      <4>3. seqs[i] \in Seq(Bytes) /\ all[i] = seqs[i]
        BY <1>1
      <4>4. f[i] \in Seq(Bytes) /\ g[i] = f[i]
        BY <4>1, <4>2, <4>3
      <4> QED
        BY <2>2, <3>1, <4>4
    <3> QED
      BY <3>2, <3>3
  <2>5. n \in P
    <3>1. n \in 0 .. n
      BY <1>1
    <3> QED
      BY <1>1, <2>3, <2>4, <3>1, UpTo
  <2>6. f[n] \in Seq(Bytes) /\ g[n] = f[n]
    BY <1>5, <2>2, <2>5
  <2>7. g[n + 1] = g[n] \o all[n + 1]
    <3>1. n + 1 \in 1 .. (n + 1) /\ n + 1 # 1 /\ (n + 1) - 1 = n
      BY <1>1, <1>5
    <3> QED
      BY <1>3, <3>1
  <2> QED
    BY <1>1, <1>3, <2>1, <2>6, <2>7 DEF StreamOf, seqs, all, more
<1> QED
  BY <1>4, <1>5

-----------------------------------------------------------------------------
(* What encode makes of a prompt                                            *)

FirstScan(addBos) ==
  {[cells |-> IF addBos THEN <<Bos>> ELSE <<>>, str |-> <<>>, skip |-> 0, fits |-> TRUE]}

ScanOn(S, text, addSpecial, i) == {Scanned(text, addSpecial, s, i) : s \in S}

Scan(text, addBos, addSpecial) ==
  LET scan[i \in 0 .. Len(text)] ==
        IF i = 0 THEN FirstScan(addBos)
        ELSE {Scanned(text, addSpecial, s, i) : s \in scan[i - 1]}
  IN  scan

Scans(f, text, addBos, addSpecial, n) ==
  [i \in 0 .. n |-> IF i = 0 THEN FirstScan(addBos) ELSE ScanOn(f[i - 1], text, addSpecial, i)]

FirstMerge(cells) == {[n |-> Len(cells), cells |-> cells]}

MergeOn(S) == UNION {MergeBest(a) : a \in S}

Merge(cells) ==
  LET merge[i \in 0 .. Len(cells)] ==
        IF i = 0 THEN FirstMerge(cells) ELSE UNION {MergeBest(a) : a \in merge[i - 1]}
  IN  merge

Merges(f, cells, n) ==
  [i \in 0 .. n |-> IF i = 0 THEN FirstMerge(cells) ELSE MergeOn(f[i - 1])]

LEMMA ScansExist ==
  ASSUME NEW text, NEW addBos, NEW addSpecial, NEW n \in Nat
  PROVE  \E f : f = Scans(f, text, addBos, addSpecial, n)
<1> DEFINE P == {k \in 0 .. n : \E f : f = Scans(f, text, addBos, addSpecial, k)}
           F == FirstScan(addBos)
<1>0. \A k : k \in P <=> k \in 0 .. n /\ \E f : f = Scans(f, text, addBos, addSpecial, k)
  OBVIOUS
<1> HIDE DEF P
<1>1. 0 \in P
  <2> DEFINE f == [i \in 0 .. 0 |-> F]
  <2>1. f = Scans(f, text, addBos, addSpecial, 0)
    BY DEF Scans
  <2> HIDE DEF f
  <2>2. 0 \in 0 .. n
    OBVIOUS
  <2> QED
    BY <1>0, <2>1, <2>2
<1>2. ASSUME NEW k \in 1 .. n, k - 1 \in P PROVE k \in P
  <2>1. PICK f : f = Scans(f, text, addBos, addSpecial, k - 1)
    BY <1>0, <1>2
  <2> DEFINE g == [i \in 0 .. k |-> IF i < k THEN f[i]
                                    ELSE ScanOn(f[i - 1], text, addSpecial, i)]
  <2>2. \A i \in 0 .. (k - 1) :
          f[i] = IF i = 0 THEN F ELSE ScanOn(f[i - 1], text, addSpecial, i)
    BY <2>1 DEF Scans
  <2>3. \A i \in 0 .. (k - 1) : g[i] = f[i]
    OBVIOUS
  <2>4. g[k] = ScanOn(g[k - 1], text, addSpecial, k)
    BY <2>3
  <2>5. ASSUME NEW i \in 0 .. k
        PROVE  g[i] = IF i = 0 THEN F ELSE ScanOn(g[i - 1], text, addSpecial, i)
    <3> HIDE DEF g, F
    <3>1. CASE i = k
      BY <2>4, <3>1
    <3>2. CASE i = 0
      BY <2>2, <2>3, <3>2
    <3>3. CASE i \in 1 .. (k - 1)
      <4>1. g[i] = f[i] /\ g[i - 1] = f[i - 1] /\ i # 0
        BY <2>3, <3>3
      <4>2. f[i] = ScanOn(f[i - 1], text, addSpecial, i)
        BY <2>2, <3>3
      <4> QED
        BY <4>1, <4>2
    <3> QED
      BY <3>1, <3>2, <3>3
  <2>6. g = Scans(g, text, addBos, addSpecial, k)
    BY <2>5 DEF Scans
  <2> HIDE DEF g
  <2>7. k \in 0 .. n
    OBVIOUS
  <2> QED
    BY <1>0, <2>6, <2>7
<1>3. n \in P
  <2>1. n \in 0 .. n
    OBVIOUS
  <2> QED
    BY <1>1, <1>2, <2>1, UpTo
<1> QED
  BY <1>0, <1>3

LEMMA MergesExist ==
  ASSUME NEW cells, NEW n \in Nat
  PROVE  \E f : f = Merges(f, cells, n)
<1> DEFINE P == {k \in 0 .. n : \E f : f = Merges(f, cells, k)}
           F == FirstMerge(cells)
<1>0. \A k : k \in P <=> k \in 0 .. n /\ \E f : f = Merges(f, cells, k)
  OBVIOUS
<1> HIDE DEF P
<1>1. 0 \in P
  <2> DEFINE f == [i \in 0 .. 0 |-> F]
  <2>1. f = Merges(f, cells, 0)
    BY DEF Merges
  <2> HIDE DEF f
  <2>2. 0 \in 0 .. n
    OBVIOUS
  <2> QED
    BY <1>0, <2>1, <2>2
<1>2. ASSUME NEW k \in 1 .. n, k - 1 \in P PROVE k \in P
  <2>1. PICK f : f = Merges(f, cells, k - 1)
    BY <1>0, <1>2
  <2> DEFINE g == [i \in 0 .. k |-> IF i < k THEN f[i] ELSE MergeOn(f[i - 1])]
  <2>2. \A i \in 0 .. (k - 1) : f[i] = IF i = 0 THEN F ELSE MergeOn(f[i - 1])
    BY <2>1 DEF Merges
  <2>3. \A i \in 0 .. (k - 1) : g[i] = f[i]
    OBVIOUS
  <2>4. g[k] = MergeOn(g[k - 1])
    BY <2>3
  <2>5. ASSUME NEW i \in 0 .. k
        PROVE  g[i] = IF i = 0 THEN F ELSE MergeOn(g[i - 1])
    <3> HIDE DEF g, F
    <3>1. CASE i = k
      BY <2>4, <3>1
    <3>2. CASE i = 0
      BY <2>2, <2>3, <3>2
    <3>3. CASE i \in 1 .. (k - 1)
      <4>1. g[i] = f[i] /\ g[i - 1] = f[i - 1] /\ i # 0
        BY <2>3, <3>3
      <4>2. f[i] = MergeOn(f[i - 1])
        BY <2>2, <3>3
      <4> QED
        BY <4>1, <4>2
    <3> QED
      BY <3>1, <3>2, <3>3
  <2>6. g = Merges(g, cells, k)
    BY <2>5 DEF Merges
  <2> HIDE DEF g
  <2>7. k \in 0 .. n
    OBVIOUS
  <2> QED
    BY <1>0, <2>6, <2>7
<1>3. n \in P
  <2>1. n \in 0 .. n
    OBVIOUS
  <2> QED
    BY <1>1, <1>2, <2>1, UpTo
<1> QED
  BY <1>0, <1>3

(* After i characters: what the first loop has, and that it has a token     *)
(* unless it began without one and no piece of the text is a token yet.     *)
ScanIs(s, i, addBos) ==
  /\ DOMAIN s = {"cells", "str", "skip", "fits"}
  /\ s.cells \in Seq(Token) /\ s.str \in Seq(Bytes) /\ s.skip \in Nat
  /\ addBos => s.cells # <<>>
  /\ s.cells = <<>> => s.skip = 0 /\ Len(s.str) = i

LEMMA RegularTokens ==
  ASSUME NEW bytes
  PROVE  /\ RegularWith(bytes) \subseteq Token
         /\ RegularWith(bytes) # {} => Min(RegularWith(bytes)) \in Token
<1>1. RegularWith(bytes) \subseteq Token
  BY DEF RegularWith
<1>2. RegularWith(bytes) \subseteq Nat
  BY <1>1, Vocabulary
<1> QED
  BY <1>1, <1>2, MinOf

LEMMA SpecialTokens ==
  ASSUME NEW text, NEW i, SpecialAt(text, i) # {}
  PROVE  Min(SpecialAt(text, i)) \in Token
<1>1. SpecialAt(text, i) \subseteq Token
  BY DEF SpecialAt, Special
<1>2. SpecialAt(text, i) \subseteq Nat
  BY <1>1, Vocabulary
<1> QED
  BY <1>1, <1>2, MinOf

LEMMA ScannedOn ==
  ASSUME NEW text \in Seq(Bytes), NEW i \in 1 .. Len(text), NEW addBos, NEW addSpecial,
         NEW s, ScanIs(s, i - 1, addBos)
  PROVE  ScanIs(Scanned(text, addSpecial, s, i), i, addBos)
<1> DEFINE str == Append(s.str, text[i])
           e   == Scanned(text, addSpecial, s, i)
           A   == addSpecial /\ SpecialAt(text, i) # {}
           t   == Min(SpecialAt(text, i))
           u   == Min(RegularWith(str))
<1>1. /\ DOMAIN s = {"cells", "str", "skip", "fits"}
      /\ s.cells \in Seq(Token) /\ s.str \in Seq(Bytes) /\ s.skip \in Nat
      /\ addBos => s.cells # <<>>
      /\ s.cells = <<>> => s.skip = 0 /\ Len(s.str) = i - 1
  BY DEF ScanIs
<1>2. str \in Seq(Bytes) /\ Len(str) = Len(s.str) + 1 /\ i \in Nat /\ text[i] \in Bytes
  BY <1>1
<1>3. e = CASE s.skip > 0 -> [s EXCEPT !.skip = @ - 1]
            [] s.skip = 0 /\ A -> [s EXCEPT !.cells = Append(@, t), !.skip = Len(Vocab[t]) - 1]
            [] s.skip = 0 /\ ~A ->
                 IF RegularWith(str) = {}
                 THEN [s EXCEPT !.str = str, !.fits = @ /\ Len(str) < StrBufferSize]
                 ELSE [s EXCEPT !.cells = Append(@, u), !.str = <<>>]
  BY DEF Scanned
<1>4. CASE s.skip > 0
  <2>1. e = [s EXCEPT !.skip = @ - 1]
    BY <1>1, <1>3, <1>4
  <2>2. s.cells # <<>> /\ s.skip - 1 \in Nat
    BY <1>1, <1>4
  <2>3. /\ DOMAIN e = DOMAIN s /\ e.cells = s.cells /\ e.str = s.str /\ e.skip = s.skip - 1
    BY <1>1, <2>1
  <2> QED
    BY <1>1, <2>2, <2>3 DEF ScanIs
<1>5. CASE s.skip = 0 /\ A
  <2>1. e = [s EXCEPT !.cells = Append(@, t), !.skip = Len(Vocab[t]) - 1]
    BY <1>3, <1>5
  <2>2. t \in Token
    BY <1>5, SpecialTokens
  <2>3. Len(Vocab[t]) - 1 \in Nat
    <3> HIDE DEF t
    <3>1. Len(Vocab[t]) \in Nat /\ Len(Vocab[t]) >= 1
      BY <2>2, Vocabulary
    <3> QED
      BY <3>1
  <2>4. Append(s.cells, t) \in Seq(Token) /\ Append(s.cells, t) # <<>>
    BY <1>1, <2>2
  <2>5. /\ DOMAIN e = DOMAIN s /\ e.cells = Append(s.cells, t) /\ e.str = s.str
        /\ e.skip = Len(Vocab[t]) - 1
    BY <1>1, <2>1
  <2> HIDE DEF e, t
  <2> QED
    BY <1>1, <2>3, <2>4, <2>5 DEF ScanIs, e
<1>6. CASE s.skip = 0 /\ ~A /\ RegularWith(str) = {}
  <2>1. e = [s EXCEPT !.str = str, !.fits = @ /\ Len(str) < StrBufferSize]
    BY <1>3, <1>6
  <2> HIDE DEF str, A
  <2>2. DOMAIN e = DOMAIN s /\ e.cells = s.cells /\ e.str = str /\ e.skip = s.skip
    BY <1>1, <2>1
  <2>3. s.cells = <<>> => Len(str) = i
    BY <1>1, <1>2
  <2> QED
    BY <1>1, <1>2, <2>2, <2>3 DEF ScanIs
<1>7. CASE s.skip = 0 /\ ~A /\ RegularWith(str) # {}
  <2>1. e = [s EXCEPT !.cells = Append(@, u), !.str = <<>>]
    BY <1>3, <1>7
  <2>2. u \in Token
    BY <1>7, RegularTokens
  <2>3. Append(s.cells, u) \in Seq(Token) /\ Append(s.cells, u) # <<>> /\ <<>> \in Seq(Bytes)
    BY <1>1, <2>2
  <2>4. DOMAIN e = DOMAIN s /\ e.cells = Append(s.cells, u) /\ e.str = <<>> /\ e.skip = s.skip
    BY <1>1, <2>1
  <2> HIDE DEF e, u
  <2> QED
    BY <1>1, <2>3, <2>4 DEF ScanIs, e
<1>8. s.skip > 0 \/ s.skip = 0
  BY <1>1
<1> QED
  BY <1>4, <1>5, <1>6, <1>7, <1>8

(* The second loop.                                                         *)
ArrayIs(a, least) ==
  /\ DOMAIN a = {"n", "cells"}
  /\ a.cells \in Seq(Token) /\ a.n \in Nat /\ a.n <= Len(a.cells) /\ a.n >= least

LEMMA MergedOn ==
  ASSUME NEW least \in {0, 1}, NEW a, ArrayIs(a, least)
  PROVE  MergeBest(a) # {} /\ \A b \in MergeBest(a) : ArrayIs(b, least)
<1>1. /\ a.cells \in Seq(Token) /\ a.n \in Nat /\ a.n <= Len(a.cells) /\ a.n >= least
      /\ Len(a.cells) \in Nat
  BY DEF ArrayIs
<1>2. CASE BestPairs(a) = {}
  BY <1>2 DEF MergeBest
<1>3. CASE BestPairs(a) # {}
  <2>1. MergeBest(a) = {Merged(a, at) : at \in BestPairs(a)}
    BY <1>3 DEF MergeBest
  <2>2. ASSUME NEW at \in BestPairs(a) PROVE ArrayIs(Merged(a, at), least)
    <3>1. at \in 1 .. (a.n - 1) /\ Pair(a, at) # {}
      BY DEF BestPairs
    <3>2. Min(Pair(a, at)) \in Token
      BY <3>1, RegularTokens DEF Pair
    <3> DEFINE p == Min(Pair(a, at))
               c == [i \in DOMAIN a.cells |->
                       CASE i = at -> p
                         [] i > at /\ i < a.n -> a.cells[i + 1]
                         [] OTHER -> a.cells[i]]
    <3>3. Merged(a, at) = [n |-> a.n - 1, cells |-> c]
      BY DEF Merged
    <3>4. DOMAIN a.cells = 1 .. Len(a.cells) /\ \A i \in 1 .. Len(a.cells) : a.cells[i] \in Token
      BY <1>1
    <3>5. ASSUME NEW i \in 1 .. Len(a.cells) PROVE c[i] \in Token
      <4>1. CASE i = at
        BY <3>2, <3>4, <4>1
      <4>2. CASE i # at /\ i > at /\ i < a.n
        <5>1. i + 1 \in 1 .. Len(a.cells)
          BY <1>1, <4>2
        <5> QED
          BY <3>4, <4>2, <5>1
      <4>3. CASE i # at /\ ~(i > at /\ i < a.n)
        BY <3>4, <4>3
      <4> QED
        BY <4>1, <4>2, <4>3
    <3>6. c \in [1 .. Len(a.cells) -> Token]
      BY <3>4, <3>5
    <3> HIDE DEF c, p
    <3>7. c \in Seq(Token) /\ Len(c) = Len(a.cells)
      BY <1>1, <3>6
    <3>8. a.n - 1 \in Nat /\ a.n - 1 >= least /\ a.n - 1 <= Len(a.cells)
      BY <1>1, <3>1
    <3> QED
      BY <3>3, <3>7, <3>8 DEF ArrayIs
  <2> QED
    BY <1>3, <2>1, <2>2
<1> QED
  BY <1>2, <1>3

LEMMA ScanRun ==
  ASSUME NEW text \in Seq(Bytes), NEW addBos, NEW addSpecial
  PROVE  LET last == Scan(text, addBos, addSpecial)[Len(text)]
         IN  last # {} /\ \A s \in last : ScanIs(s, Len(text), addBos)
<1> DEFINE n == Len(text)
<1>1. n \in Nat
  OBVIOUS
<1>2. Scan(text, addBos, addSpecial) = CHOOSE f : f = Scans(f, text, addBos, addSpecial, n)
  BY DEF Scan, Scans, ScanOn
<1>3. \E f : f = Scans(f, text, addBos, addSpecial, n)
  <2> HIDE DEF n
  <2> QED
    BY <1>1, ScansExist
<1>4. PICK f : f = Scans(f, text, addBos, addSpecial, n) /\ f = Scan(text, addBos, addSpecial)
  BY <1>2, <1>3
<1>5. \A i \in 0 .. n :
        f[i] = IF i = 0 THEN FirstScan(addBos) ELSE ScanOn(f[i - 1], text, addSpecial, i)
  BY <1>4 DEF Scans
<1> DEFINE P == {i \in 0 .. n : f[i] # {} /\ \A s \in f[i] : ScanIs(s, i, addBos)}
<1>6. \A i : i \in P <=> i \in 0 .. n /\ f[i] # {} /\ \A s \in f[i] : ScanIs(s, i, addBos)
  OBVIOUS
<1> HIDE DEF P
<1>7. 0 \in P
  <2>1. 0 \in 0 .. n /\ f[0] = FirstScan(addBos)
    BY <1>1, <1>5
  <2> DEFINE s == [cells |-> IF addBos THEN <<Bos>> ELSE <<>>, str |-> <<>>,
                   skip |-> 0, fits |-> TRUE]
  <2>2. FirstScan(addBos) = {s}
    BY DEF FirstScan
  <2>3. s.cells \in Seq(Token) /\ (addBos => s.cells # <<>>)
    <3>1. <<Bos>> \in Seq(Token) /\ <<Bos>> # <<>> /\ <<>> \in Seq(Token)
      BY Vocabulary
    <3> QED
      BY <3>1
  <2>4. s.str = <<>> /\ <<>> \in Seq(Bytes) /\ Len(<<>>) = 0 /\ s.skip = 0
    OBVIOUS
  <2>5. DOMAIN s = {"cells", "str", "skip", "fits"}
    OBVIOUS
  <2> HIDE DEF s
  <2>6. ScanIs(s, 0, addBos)
    BY <2>3, <2>4, <2>5 DEF ScanIs
  <2> QED
    BY <1>6, <2>1, <2>2, <2>6
<1>8. ASSUME NEW i \in 1 .. n, i - 1 \in P PROVE i \in P
  <2>1. i \in 0 .. n /\ f[i] = ScanOn(f[i - 1], text, addSpecial, i)
    BY <1>1, <1>5
  <2>2. f[i - 1] # {} /\ \A s \in f[i - 1] : ScanIs(s, i - 1, addBos)
    BY <1>6, <1>8
  <2>3. f[i] # {} /\ \A e \in f[i] : \E s \in f[i - 1] : e = Scanned(text, addSpecial, s, i)
    BY <2>1, <2>2 DEF ScanOn
  <2>4. ASSUME NEW s \in f[i - 1] PROVE ScanIs(Scanned(text, addSpecial, s, i), i, addBos)
    BY <2>2, ScannedOn
  <2>5. \A e \in f[i] : ScanIs(e, i, addBos)
    BY <2>3, <2>4
  <2> QED
    BY <1>6, <2>1, <2>3, <2>5
<1>9. n \in P
  <2>1. n \in 0 .. n
    BY <1>1
  <2> HIDE DEF n
  <2> QED
    BY <1>1, <1>7, <1>8, <2>1, UpTo
<1> QED
  BY <1>4, <1>6, <1>9

LEMMA MergeRun ==
  ASSUME NEW cells \in Seq(Token), NEW least \in {0, 1}, Len(cells) >= least
  PROVE  LET last == Merge(cells)[Len(cells)]
         IN  last # {} /\ \A a \in last : ArrayIs(a, least)
<1> DEFINE n == Len(cells)
<1>1. n \in Nat
  OBVIOUS
<1>2. Merge(cells) = CHOOSE f : f = Merges(f, cells, n)
  BY DEF Merge, Merges, MergeOn
<1>3. \E f : f = Merges(f, cells, n)
  <2> HIDE DEF n
  <2> QED
    BY <1>1, MergesExist
<1>4. PICK f : f = Merges(f, cells, n) /\ f = Merge(cells)
  BY <1>2, <1>3
<1>5. \A i \in 0 .. n : f[i] = IF i = 0 THEN FirstMerge(cells) ELSE MergeOn(f[i - 1])
  BY <1>4 DEF Merges
<1> DEFINE P == {i \in 0 .. n : f[i] # {} /\ \A a \in f[i] : ArrayIs(a, least)}
<1>6. \A i : i \in P <=> i \in 0 .. n /\ f[i] # {} /\ \A a \in f[i] : ArrayIs(a, least)
  OBVIOUS
<1> HIDE DEF P
<1>7. 0 \in P
  <2>1. 0 \in 0 .. n /\ f[0] = FirstMerge(cells)
    BY <1>1, <1>5
  <2> DEFINE a == [n |-> Len(cells), cells |-> cells]
  <2>2. FirstMerge(cells) = {a}
    BY DEF FirstMerge
  <2>3. DOMAIN a = {"n", "cells"} /\ a.n = n /\ a.cells = cells
    OBVIOUS
  <2> HIDE DEF a
  <2>4. ArrayIs(a, least)
    BY <1>1, <2>3 DEF ArrayIs
  <2> QED
    BY <1>6, <2>1, <2>2, <2>4
<1>8. ASSUME NEW i \in 1 .. n, i - 1 \in P PROVE i \in P
  <2>1. i \in 0 .. n /\ f[i] = MergeOn(f[i - 1])
    BY <1>1, <1>5
  <2>2. f[i - 1] # {} /\ \A a \in f[i - 1] : ArrayIs(a, least)
    BY <1>6, <1>8
  <2>3. \A b : b \in f[i] <=> \E a \in f[i - 1] : b \in MergeBest(a)
    BY <2>1 DEF MergeOn
  <2>4. \A a \in f[i - 1] : MergeBest(a) # {} /\ \A b \in MergeBest(a) : ArrayIs(b, least)
    BY <2>2, MergedOn
  <2>5. f[i] # {} /\ \A b \in f[i] : ArrayIs(b, least)
    BY <2>2, <2>3, <2>4
  <2> QED
    BY <1>6, <2>1, <2>5
<1>9. n \in P
  <2>1. n \in 0 .. n
    BY <1>1
  <2> HIDE DEF n
  <2> QED
    BY <1>1, <1>7, <1>8, <2>1, UpTo
<1> QED
  BY <1>4, <1>6, <1>9

(* The array that encode fills: the result lies in it, and a prompt has a   *)
(* first token, unless it is empty and begins without Bos.                  *)
LEMMA EncodingType ==
  ASSUME NEW text \in Seq(Bytes), NEW addBos \in BOOLEAN, NEW addSpecial,
         Encoding(text, addBos, addSpecial).encodes
  PROVE  LET a == Encoding(text, addBos, addSpecial).array
         IN  /\ a.cells \in Seq(Token) /\ a.n \in Nat /\ a.n <= Len(a.cells)
             /\ addBos \/ text # <<>> => a.n >= 1
<1> DEFINE last    == Scan(text, addBos, addSpecial)[Len(text)]
           scanned == CHOOSE s \in last : TRUE
           arrays  == Merge(scanned.cells)[Len(scanned.cells)]
           a       == CHOOSE b \in arrays : TRUE
           least   == IF addBos \/ text # <<>> THEN 1 ELSE 0
<1>1. Encoding(text, addBos, addSpecial) = [array |-> a, encodes |-> scanned.fits /\ scanned.str = <<>>]
  BY DEF Encoding, Scan, FirstScan, Merge, FirstMerge
<1>2. Encoding(text, addBos, addSpecial).array = a /\ scanned.str = <<>>
  <2> DEFINE c == scanned.fits /\ scanned.str = <<>>
             e == Encoding(text, addBos, addSpecial)
  <2>1. e = [array |-> a, encodes |-> c] /\ e.encodes
    BY <1>1
  <2>2. c => scanned.str = <<>>
    OBVIOUS
  <2> HIDE DEF a, c, scanned
  <2>3. e.array = a /\ c
    <3> HIDE DEF e
    <3>1. e.array = a /\ e.encodes = c
      BY <2>1
    <3> QED
      BY <2>1, <3>1
  <2> QED
    BY <2>2, <2>3
<1>3. last # {} /\ \A s \in last : ScanIs(s, Len(text), addBos)
  BY ScanRun
<1> HIDE DEF last
<1>4. ScanIs(scanned, Len(text), addBos)
  BY <1>3
<1> HIDE DEF scanned
<1>5. /\ scanned.cells \in Seq(Token) /\ (addBos => scanned.cells # <<>>)
      /\ scanned.cells = <<>> => Len(scanned.str) = Len(text)
  BY <1>4 DEF ScanIs
<1>6. least \in {0, 1} /\ Len(scanned.cells) >= least
  <2>1. CASE addBos \/ text # <<>>
    <3>1. scanned.cells # <<>>
      <4>1. ASSUME scanned.cells = <<>>, text # <<>> PROVE FALSE
        <5>1. Len(<<>>) = 0 /\ Len(text) # 0
          BY <4>1
        <5> QED
          BY <1>2, <1>5, <4>1, <5>1
      <4> QED
        BY <1>5, <2>1, <4>1
    <3>2. Len(scanned.cells) >= 1
      BY <1>5, <3>1
    <3> QED
      BY <2>1, <3>2
  <2>2. CASE ~(addBos \/ text # <<>>)
    <3>1. Len(scanned.cells) >= 0
      BY <1>5
    <3> QED
      BY <2>2, <3>1
  <2> QED
    BY <2>1, <2>2
<1>7. arrays # {} /\ \A b \in arrays : ArrayIs(b, least)
  <2> HIDE DEF least
  <2> QED
    BY <1>5, <1>6, MergeRun
<1> HIDE DEF arrays
<1>8. ArrayIs(a, least)
  BY <1>7
<1> HIDE DEF a
<1> QED
  BY <1>2, <1>8 DEF ArrayIs

-----------------------------------------------------------------------------
(* One token decoded, and what the detector makes of it                     *)

LEMMA DetokUtf8Type ==
  ASSUME NEW bytes \in Seq(Bytes)
  PROVE  /\ DetokUtf8(bytes).text \in Seq(Bytes) /\ DetokUtf8(bytes).pending \in Seq(Bytes)
         /\ Len(DetokUtf8(bytes).pending) <= Len(bytes)
<1> DEFINE d == Decoder(bytes)
<1>1. d.ok \in Seq(Bytes) /\ d.done \in Nat /\ d.done <= Len(bytes) /\ Len(bytes) \in Nat
  BY DecoderType, DecodingFields
<1>2. DetokUtf8(bytes).text = d.ok /\ DetokUtf8(bytes).pending = Rest(bytes, d.done)
  BY DEF DetokUtf8, Rest
<1> HIDE DEF d
<1>3. d.done \in 0 .. Len(bytes)
  BY <1>1
<1>4. Rest(bytes, d.done) \in Seq(Bytes) /\ Len(Rest(bytes, d.done)) = Len(bytes) - d.done
  BY <1>3, RestType
<1> QED
  BY <1>1, <1>2, <1>4

LEMMA DecodeType ==
  ASSUME NEW bytes \in Seq(Bytes), Len(bytes) < StrBufferSize, NEW t \in Token,
         Decodes(bytes, t)
  PROVE  LET piece == Decode(bytes, t)
         IN  /\ piece.text \in Seq(Bytes) /\ piece.pending \in Seq(Bytes)
             /\ Len(piece.pending) < StrBufferSize
<1>1. CASE t = Bos \/ IsEos(t)
  <2>1. /\ Decode(bytes, t).pending = bytes
        /\ Decode(bytes, t).text = <<>> \/ Decode(bytes, t).text = bytes
    BY <1>1 DEF Decode
  <2>2. Decode(bytes, t).text \in Seq(Bytes)
    BY <2>1, EmptySeq
  <2> QED
    BY <2>1, <2>2
<1>2. CASE ~(t = Bos \/ IsEos(t))
  <2> DEFINE all == bytes \o Vocab[t]
  <2>1. Decode(bytes, t) = DetokUtf8(all)
    BY <1>2 DEF Decode
  <2>2. Vocab[t] \in Seq(Bytes)
    BY Vocabulary
  <2>3. all \in Seq(Bytes) /\ Len(all) = Len(bytes) + Len(Vocab[t])
    BY <2>2
  <2>4. Len(bytes) + Len(Vocab[t]) + 1 < StrBufferSize
    BY <1>2 DEF Decodes
  <2>5. StrBufferSize \in Nat /\ Len(all) \in Nat
    BY <2>3, StrBufferIsLarge
  <2> HIDE DEF all
  <2>6. /\ DetokUtf8(all).text \in Seq(Bytes) /\ DetokUtf8(all).pending \in Seq(Bytes)
        /\ Len(DetokUtf8(all).pending) <= Len(all)
    BY <2>3, DetokUtf8Type
  <2>7. Len(DetokUtf8(all).pending) < StrBufferSize
    <3>1. Len(all) + 1 < StrBufferSize
      BY <2>3, <2>4
    <3>2. Len(DetokUtf8(all).pending) \in Nat
      BY <2>6
    <3> QED
      BY <2>5, <2>6, <3>1, <3>2
  <2> QED
    BY <2>1, <2>6, <2>7
<1> QED
  BY <1>1, <1>2

(* The detector found stop i at offset lo of the buffer.                    *)
StopAt(buffer, i, lo) ==
  /\ i \in DOMAIN EosTokenIds /\ lo \in 0 .. Len(buffer)
  /\ lo + Len(Stop(i)) <= Len(buffer)
  /\ SubSeq(buffer, lo + 1, lo + Len(Stop(i))) = Stop(i)

Detected(found, buffer, t) ==
  \/ found.type = "EOS" /\ IsEos(t) /\ found.delta = buffer
  \/ found.type = "NOT_EOS" /\ ~IsEos(t) /\ found.delta = buffer
  \/ found.type = "MAYBE_EOS" /\ ~IsEos(t) /\ found.delta = <<>>
  \/ /\ found.type = "EOS" /\ ~IsEos(t)
     /\ \E i, lo : StopAt(buffer, i, lo) /\ found.delta = SubSeq(buffer, 1, lo)

LEMMA DetectCases ==
  ASSUME NEW buffer \in Seq(Bytes), NEW t \in Token
  PROVE  Detected(Detect(buffer, t), buffer, t)
<1> DEFINE matching == {i \in DOMAIN EosTokenIds : Matches(buffer, Stop(i)) # {}}
           k        == Min(matching)
           stop     == Stop(k)
           lo       == Min(Matches(buffer, stop))
           found    == Detect(buffer, t)
<1>1. found = CASE IsEos(t) -> [type |-> "EOS", delta |-> buffer]
                [] ~IsEos(t) /\ matching = {} -> [type |-> "NOT_EOS", delta |-> buffer]
                [] ~IsEos(t) /\ matching # {} ->
                     IF Len(buffer) - lo >= Len(stop)
                     THEN [type |-> "EOS", delta |-> SubSeq(buffer, 1, lo)]
                     ELSE [type |-> "MAYBE_EOS", delta |-> <<>>]
  BY DEF Detect
<1> HIDE DEF found
<1>2. CASE IsEos(t)
  <2>1. found = [type |-> "EOS", delta |-> buffer]
    BY <1>1, <1>2
  <2> QED
    BY <1>2, <2>1 DEF Detected, found
<1>3. CASE ~IsEos(t) /\ matching = {}
  <2>1. found = [type |-> "NOT_EOS", delta |-> buffer]
    BY <1>1, <1>3
  <2> QED
    BY <1>3, <2>1 DEF Detected, found
<1>4. CASE ~IsEos(t) /\ matching # {}
  <2>1. found = IF Len(buffer) - lo >= Len(stop)
                THEN [type |-> "EOS", delta |-> SubSeq(buffer, 1, lo)]
                ELSE [type |-> "MAYBE_EOS", delta |-> <<>>]
    BY <1>1, <1>4
  <2>2. k \in matching
    <3>1. matching \subseteq Nat
      BY Vocabulary
    <3> HIDE DEF matching
    <3> QED
      BY <1>4, <3>1, MinOf
  <2>3. k \in DOMAIN EosTokenIds /\ Matches(buffer, stop) # {}
    BY <2>2
  <2>4. stop \in Seq(Bytes) /\ Len(stop) \in Nat
    <3>1. EosTokenIds[k] \in Token
      BY <2>3, Vocabulary
    <3> QED
      BY <3>1, Vocabulary DEF Stop
  <2> HIDE DEF k, matching
  <2>5. lo \in Matches(buffer, stop) /\ lo \in Nat
    <3>1. Matches(buffer, stop) \subseteq Nat
      BY PaddingType DEF Matches
    <3> QED
      BY <2>3, <3>1, MinOf
  <2> HIDE DEF lo
  <2>6. lo < Len(buffer) /\ IsPrefix(Beginning(buffer, stop, lo), stop)
    BY <2>5 DEF Matches, Compared
  <2>7. CASE Len(buffer) - lo >= Len(stop)
    <3> DEFINE b == Len(buffer)
               m == Len(stop)
               begun == SubSeq(buffer, lo + 1, lo + m)
    <3>1. b \in Nat /\ m \in Nat /\ lo \in 0 .. b /\ lo + m <= b
      BY <2>4, <2>5, <2>6, <2>7
    <3>2. Beginning(buffer, stop, lo) = begun
      <4>1. Min({b, lo + m}) = lo + m
        <5> HIDE DEF b, m
        <5>1. \A x \in {b, lo + m} : lo + m <= x
          BY <3>1
        <5>2. Min({b, lo + m}) \in {b, lo + m} /\ Min({b, lo + m}) <= lo + m
          <6>1. \E x \in {b, lo + m} : \A y \in {b, lo + m} : x <= y
            BY <5>1, <3>1
          <6> QED
            BY <6>1 DEF Min
        <5> QED
          BY <3>1, <5>1, <5>2
      <4> QED
        BY <4>1 DEF Beginning
    <3>3. begun \in Seq(Bytes) /\ Len(begun) = m
      BY <3>1
    <3>4. begun = stop
      <4>1. Len(begun) <= Len(stop) /\ SubSeq(begun, 1, Len(begun)) = SubSeq(stop, 1, Len(begun))
        BY <2>6, <3>2 DEF IsPrefix
      <4> HIDE DEF begun, stop
      <4>2. SubSeq(begun, 1, Len(begun)) = begun /\ SubSeq(stop, 1, Len(stop)) = stop
        BY <2>4, <3>3
      <4> QED
        BY <3>3, <4>1, <4>2
    <3>5. StopAt(buffer, k, lo)
      BY <2>3, <3>1, <3>4 DEF StopAt
    <3>6. found = [type |-> "EOS", delta |-> SubSeq(buffer, 1, lo)]
      BY <2>1, <2>7
    <3>7. found.type = "EOS" /\ found.delta = SubSeq(buffer, 1, lo)
      BY <3>6
    <3>8. \E i, at : StopAt(buffer, i, at) /\ found.delta = SubSeq(buffer, 1, at)
      BY <3>5, <3>7
    <3> QED
      BY <1>4, <3>7, <3>8 DEF Detected, found
  <2>8. CASE ~(Len(buffer) - lo >= Len(stop))
    <3>1. found = [type |-> "MAYBE_EOS", delta |-> <<>>]
      BY <2>1, <2>8
    <3> QED
      BY <1>4, <3>1 DEF Detected, found
  <2> QED
    BY <2>7, <2>8
<1> QED
  BY <1>2, <1>3, <1>4

LEMMA DetectType ==
  ASSUME NEW buffer \in Seq(Bytes), NEW t \in Token
  PROVE  Detect(buffer, t).delta \in Seq(Bytes)
<1>1. \A i, lo : StopAt(buffer, i, lo) => SubSeq(buffer, 1, lo) \in Seq(Bytes)
  BY DEF StopAt
<1>2. buffer \in Seq(Bytes) /\ <<>> \in Seq(Bytes)
  OBVIOUS
<1> QED
  BY <1>1, <1>2, DetectCases DEF Detected

-----------------------------------------------------------------------------
(* The shape of the state                                                   *)

ChatShape ==
  /\ ChatTypeOK
  /\ prompt.n \in Nat
  /\ pc = "ask" \/ mode = "inference" => held = <<>>
  /\ pc = "ask" /\ mode = "inference" => pos = 0

LEMMA Numbers ==
  /\ SeqLen \in Nat /\ SeqLen >= 1 /\ NBatches \in Nat /\ NBatches >= 1
  /\ \A a, b \in Int : Smaller(a, b) \in {a, b} /\ Smaller(a, b) <= a /\ Smaller(a, b) <= b
BY ChatAssumption DEF Smaller

LEMMA ModeIs == ChatTypeOK => mode \in {"inference", "chat"}
BY ChatAssumption DEF ChatTypeOK

LEMMA ChatShapeInit == ChatInit => ChatShape
<1> SUFFICES ASSUME ChatInit PROVE ChatShape
  OBVIOUS
<1>1. maxPos \in 1 .. SeqLen
  <2>1. CASE mode = "chat"
    BY <2>1, Numbers DEF ChatInit
  <2>2. CASE mode # "chat"
    <3>1. PICK n \in Steps : maxPos = Smaller(SeqLen, n)
      BY <2>2 DEF ChatInit
    <3>2. n \in Nat /\ n >= 1
      BY ChatAssumption
    <3> QED
      BY <3>1, <3>2, Numbers DEF Smaller
  <2> QED
    BY <2>1, <2>2
<1>2. prompt.n = 0 /\ prompt.cells = <<>>
  BY DEF ChatInit
<1>3. pos \in start .. SeqLen /\ start \in 0 .. SeqLen
  BY Numbers DEF ChatInit
<1>4. Len(pending) < StrBufferSize
  <2>1. Len(pending) = 0
    BY DEF ChatInit
  <2> QED
    BY <2>1, StrBufferIsLarge
<1>5. /\ mode \in Modes /\ pc = "ask" /\ token \in Token /\ pos = 0
      /\ fed = <<>> /\ pending = <<>> /\ held = <<>> /\ answer = <<>> /\ shown = <<>>
  BY DEF ChatInit
<1>6. /\ <<>> \in Seq(Token) /\ <<>> \in Seq(Bytes) /\ Len(<<>>) = 0
  OBVIOUS
<1> QED
  BY <1>1, <1>2, <1>3, <1>4, <1>5, <1>6 DEF ChatShape, ChatTypeOK

(* What Shows does, the two modes apart.                                    *)
LEMMA ShowsCases ==
  ASSUME NEW t, NEW text, Shows(t, text), pos \in Nat
  PROVE  \/ mode = "inference" /\ shown' = shown \o text /\ held' = held /\ pc' = pc
         \/ /\ mode # "inference"
            /\ shown' = shown \o Detect(held \o text, t).delta
            /\ held' = HeldAfter(Detect(held \o text, t).type, held \o text)
            /\ Detect(held \o text, t).type # "EOS" => pc' = pc
            /\ Detect(held \o text, t).type = "EOS" /\ pos + 1 < SeqLen => pc' = "ask"
            /\ Detect(held \o text, t).type = "EOS" /\ pos + 1 >= SeqLen => pc' = "done"
<1> DEFINE found == Detect(held \o text, t)
<1>1. CASE mode = "inference"
  BY <1>1 DEF Shows
<1>2. CASE mode # "inference"
  <2>1. /\ shown' = shown \o found.delta
        /\ held' = HeldAfter(found.type, held \o text)
        /\ pc' = CASE found.type # "EOS" -> pc
                   [] found.type = "EOS" /\ pos + 1 < SeqLen -> "ask"
                   [] found.type = "EOS" /\ pos + 1 >= SeqLen -> "done"
    BY <1>2 DEF Shows
  <2> HIDE DEF found
  <2>2. CASE found.type # "EOS"
    BY <1>2, <2>1, <2>2 DEF found
  <2>3. CASE found.type = "EOS" /\ pos + 1 < SeqLen
    <3>1. ~(pos + 1 >= SeqLen)
      BY <2>3, Numbers
    <3>2. pc' = "ask"
      BY <2>1, <2>3, <3>1
    <3> QED
      BY <1>2, <2>1, <2>3, <3>1, <3>2 DEF found
  <2>4. CASE found.type = "EOS" /\ pos + 1 >= SeqLen
    <3>1. ~(pos + 1 < SeqLen)
      BY <2>4, Numbers
    <3>2. pc' = "done"
      BY <2>1, <2>4, <3>1
    <3> QED
      BY <1>2, <2>1, <2>4, <3>1, <3>2 DEF found
  <2>5. pos + 1 < SeqLen \/ pos + 1 >= SeqLen
    BY Numbers
  <2> QED
    BY <2>2, <2>3, <2>4, <2>5
<1> QED
  BY <1>1, <1>2

(* The prompt of an Ask that is not aborted.                                *)
LEMMA AskedPrompt ==
  ASSUME NEW text \in Texts, ChatShape, Ask(text)
  PROVE  \/ prompt' = prompt /\ pc' = "aborted"
         \/ /\ pc' \in {"eval", "refused"}
            /\ mode # "inference" => pc' = "eval"
            /\ pc' = "eval" /\ mode = "inference" => prompt'.n <= maxPos
            /\ prompt'.cells \in Seq(Token) /\ prompt'.n \in Nat
            /\ prompt'.n <= Len(prompt'.cells) /\ prompt'.n >= 1
<1> DEFINE e == Encoding(text, pos = 0, mode = "chat")
<1>1. IF e.encodes
      THEN /\ prompt' = e.array
           /\ pc' = IF mode = "inference" /\ e.array.n > maxPos THEN "refused" ELSE "eval"
      ELSE pc' = "aborted" /\ UNCHANGED prompt
  BY DEF Ask
<1>2. /\ pc = "ask" /\ mode \in {"inference", "chat"} /\ maxPos \in Nat
      /\ mode = "inference" => pos = 0
  BY ModeIs, Numbers DEF Ask, ChatShape, ChatTypeOK
<1>3. text \in Seq(Bytes) /\ (pos = 0 \/ text # <<>>)
  BY <1>2, ChatAssumption DEF Texts, Bytes
<1>4. CASE e.encodes
  <2>1. /\ e.array.cells \in Seq(Token) /\ e.array.n \in Nat
        /\ e.array.n <= Len(e.array.cells) /\ e.array.n >= 1
    <3>1. (pos = 0) \in BOOLEAN
      OBVIOUS
    <3> QED
      BY <1>3, <1>4, <3>1, EncodingType
  <2> HIDE DEF e
  <2>2. prompt' = e.array
    BY <1>1, <1>4
  <2>3. pc' = IF mode = "inference" /\ e.array.n > maxPos THEN "refused" ELSE "eval"
    BY <1>1, <1>4
  <2>4. pc' = "eval" /\ mode = "inference" => e.array.n <= maxPos
    BY <1>2, <2>1, <2>3
  <2>5. pc' \in {"eval", "refused"} /\ (mode # "inference" => pc' = "eval")
    BY <2>3
  <2> QED
    BY <2>1, <2>2, <2>4, <2>5
<1>5. CASE ~e.encodes
  BY <1>1, <1>5
<1> QED
  BY <1>4, <1>5

LEMMA AskKeepsShape ==
  ASSUME ChatShape, NEW text \in Texts, Ask(text)
  PROVE  ChatShape'
<1>1. /\ prompt'.cells \in Seq(Token) /\ prompt'.n \in Nat /\ prompt'.n <= Len(prompt'.cells)
      /\ pc' \in {"eval", "refused", "aborted"}
  <2>1. prompt.cells \in Seq(Token) /\ prompt.n \in Nat /\ prompt.n <= Len(prompt.cells)
    BY DEF ChatShape, ChatTypeOK
  <2> QED
    BY <2>1, AskedPrompt
<1>2. /\ start' = pos /\ pos' = pos /\ answer' = <<>> /\ shown' = <<>> /\ pc = "ask"
      /\ mode' = mode /\ maxPos' = maxPos /\ token' = token /\ fed' = fed
      /\ pending' = pending /\ held' = held
  BY DEF Ask
<1>3. pos \in start .. SeqLen /\ start \in 0 .. SeqLen
  BY DEF ChatShape, ChatTypeOK
<1>4. pos' \in start' .. SeqLen /\ start' \in 0 .. SeqLen
  BY <1>2, <1>3, Numbers
<1>5. answer' \in Seq(Token) /\ shown' \in Seq(Bytes)
  BY <1>2
<1>6. held = <<>>
  BY <1>2 DEF ChatShape
<1> QED
  BY <1>1, <1>2, <1>4, <1>5, <1>6 DEF ChatShape, ChatTypeOK

(* A batch lies inside the prompt.                                          *)
LEMMA BatchInPrompt ==
  ASSUME ChatShape, pos < PromptEnd
  PROVE  /\ BatchSize \in Nat \ {0} /\ pos + BatchSize <= PromptEnd
         /\ pos + BatchSize <= SeqLen
         /\ pos - start + BatchSize <= prompt.n - 1 /\ pos - start \in Nat
<1>1. /\ pos \in Nat /\ start \in Nat /\ start <= pos /\ prompt.n \in Nat
  BY Numbers DEF ChatShape, ChatTypeOK
<1>2. PromptEnd \in Int /\ PromptEnd <= SeqLen /\ PromptEnd <= start + prompt.n - 1
  <2>1. start + prompt.n - 1 \in Int /\ SeqLen \in Int
    BY <1>1, Numbers
  <2> QED
    BY <2>1, Numbers DEF PromptEnd
<1>3. BatchSize \in {PromptEnd - pos, NBatches} /\ BatchSize <= PromptEnd - pos
  <2>1. PromptEnd - pos \in Int /\ NBatches \in Int
    BY <1>1, <1>2, Numbers
  <2> QED
    BY <2>1, Numbers DEF BatchSize
<1>4. BatchSize \in Nat \ {0}
  BY <1>1, <1>2, <1>3, Numbers
<1> QED
  BY <1>1, <1>2, <1>3, <1>4, Numbers

LEMMA EvalBatchKeepsShape ==
  ASSUME ChatShape, EvalBatch
  PROVE  ChatShape'
<1> DEFINE n == BatchSize
           k == pos - start
           batch == SubSeq(prompt.cells, k + 1, k + n)
<1>1. /\ pos \in start .. SeqLen /\ start \in 0 .. SeqLen /\ prompt.n \in Nat
      /\ prompt.n <= Len(prompt.cells) /\ prompt.cells \in Seq(Token)
      /\ fed \in Seq(Token) /\ Len(fed) = pos
  BY DEF ChatShape, ChatTypeOK
<1>2. pc = "eval" /\ pos < PromptEnd
  BY DEF EvalBatch
<1>3. /\ n \in Nat \ {0} /\ pos + n <= SeqLen /\ k + n <= prompt.n - 1 /\ k \in Nat
  BY <1>2, BatchInPrompt
<1>4. /\ fed' = fed \o batch /\ pos' = pos + n
      /\ token' \in InputToken(pos + n - start + 1)
      /\ mode' = mode /\ pc' = pc /\ maxPos' = maxPos /\ start' = start /\ prompt' = prompt
      /\ pending' = pending /\ held' = held /\ answer' = answer /\ shown' = shown
  BY DEF EvalBatch
<1>5. token' \in Token
  <2> DEFINE i == pos + n - start + 1
  <2>1. i \in Nat
    BY <1>1, <1>3
  <2>2. CASE i < Len(prompt.cells)
    <3>1. prompt.cells[i + 1] \in Token
      BY <1>1, <2>1, <2>2
    <3>2. token' = prompt.cells[i + 1]
      BY <1>4, <2>2 DEF InputToken
    <3> QED
      BY <3>1, <3>2
  <2>3. CASE ~(i < Len(prompt.cells))
    BY <1>4, <2>3, Vocabulary DEF InputToken
  <2> QED
    BY <2>2, <2>3
<1> HIDE DEF n, k
<1>6. batch \in Seq(Token) /\ Len(batch) = n
  <2>1. k + 1 \in Int /\ k + n \in Int /\ k + n <= Len(prompt.cells) /\ Len(prompt.cells) \in Nat
    BY <1>1, <1>3
  <2>2. \A i \in (k + 1) .. (k + n) : prompt.cells[i] \in Token
    BY <1>1, <1>3, <2>1
  <2> QED
    BY <1>3, <2>1, <2>2, SubSeqProperties
<1> HIDE DEF batch
<1>7. fed' \in Seq(Token) /\ Len(fed') = pos'
  <2>1. fed \o batch \in Seq(Token) /\ Len(fed \o batch) = Len(fed) + Len(batch)
    BY <1>1, <1>6, ConcatProperties
  <2>2. fed \o batch = fed' /\ Len(fed) = pos /\ Len(batch) = n /\ pos' = pos + n
    BY <1>1, <1>4, <1>6
  <2>3. Len(fed') = pos + n
    BY <2>1, <2>2
  <2> QED
    BY <2>1, <2>2, <2>3
<1>8. pos' \in start' .. SeqLen
  BY <1>1, <1>3, <1>4, Numbers
<1> QED
  BY <1>2, <1>4, <1>5, <1>7, <1>8 DEF ChatShape, ChatTypeOK

LEMMA EvaluatedKeepsShape ==
  ASSUME ChatShape, Evaluated
  PROVE  ChatShape'
<1>1. /\ pc = "eval" /\ pc' = "predict" /\ pending' = <<>>
      /\ mode' = mode /\ maxPos' = maxPos /\ start' = start /\ pos' = pos /\ token' = token
      /\ prompt' = prompt /\ fed' = fed /\ held' = held /\ answer' = answer /\ shown' = shown
  BY DEF Evaluated
<1>2. pending' \in Seq(Bytes) /\ Len(pending') < StrBufferSize
  <2>1. Len(pending') = 0
    BY <1>1
  <2> QED
    BY <1>1, <2>1, StrBufferIsLarge
<1> QED
  BY <1>1, <1>2 DEF ChatShape, ChatTypeOK

LEMMA PredictKeepsShape ==
  ASSUME ChatShape, NEW t \in Sampled, Predict(t)
  PROVE  ChatShape'
<1> DEFINE piece == Decode(pending, t)
           text  == piece.text
           found == Detect(held \o text, t)
<1>1. t \in Token
  BY ChatAssumption
<1>2. /\ pos \in start .. SeqLen /\ start \in 0 .. SeqLen /\ maxPos \in 1 .. SeqLen
      /\ fed \in Seq(Token) /\ Len(fed) = pos /\ token \in Token /\ answer \in Seq(Token)
      /\ pending \in Seq(Bytes) /\ Len(pending) < StrBufferSize
      /\ held \in Seq(Bytes) /\ shown \in Seq(Bytes)
      /\ (mode = "inference" => held = <<>>)
  BY DEF ChatShape, ChatTypeOK
<1>3. /\ pc = "predict" /\ pos < maxPos /\ Decodes(pending, t)
      /\ fed' = Append(fed, token) /\ token' = t /\ answer' = Append(answer, t)
      /\ pending' = piece.pending /\ Shows(t, text) /\ pos' = pos + 1
      /\ mode' = mode /\ maxPos' = maxPos /\ start' = start /\ prompt' = prompt
  BY DEF Predict, NextFed
<1>4. text \in Seq(Bytes) /\ pending' \in Seq(Bytes) /\ Len(pending') < StrBufferSize
  BY <1>1, <1>2, <1>3, DecodeType
<1> HIDE DEF text
<1>5. pos \in Nat /\ held \o text \in Seq(Bytes)
  BY <1>2, <1>4, Numbers
<1>6. /\ shown' \in Seq(Bytes) /\ held' \in Seq(Bytes)
      /\ pc' \in {"predict", "ask", "done"}
      /\ (pc' = "ask" \/ mode = "inference" => held' = <<>>)
      /\ (pc' = "ask" => mode # "inference")
  <2>1. CASE mode = "inference"
    <3>1. shown' = shown \o text /\ held' = held /\ pc' = pc
      BY <1>3, <1>5, <2>1, ShowsCases
    <3> QED
      BY <1>2, <1>3, <1>4, <2>1, <3>1
  <2>2. CASE mode # "inference"
    <3> DEFINE buffer == held \o text
    <3>1. /\ shown' = shown \o found.delta
          /\ held' = HeldAfter(found.type, buffer)
          /\ found.type # "EOS" => pc' = pc
          /\ found.type = "EOS" /\ pos + 1 < SeqLen => pc' = "ask"
          /\ found.type = "EOS" /\ pos + 1 >= SeqLen => pc' = "done"
      BY <1>3, <1>5, <2>2, ShowsCases
    <3>2. found.delta \in Seq(Bytes)
      BY <1>1, <1>5, DetectType
    <3> HIDE DEF found, buffer
    <3>3. shown' \in Seq(Bytes)
      BY <1>2, <3>1, <3>2
    <3>4. held' = buffer \/ held' = <<>>
      BY <3>1 DEF HeldAfter
    <3>5. held' \in Seq(Bytes)
      BY <1>5, <3>4, EmptySeq DEF buffer
    <3>6. CASE found.type # "EOS"
      BY <1>3, <2>2, <3>1, <3>3, <3>5, <3>6
    <3>7. CASE found.type = "EOS"
      <4>1. held' = <<>>
        BY <3>1, <3>7 DEF HeldAfter
      <4>2. pos + 1 < SeqLen \/ pos + 1 >= SeqLen
        BY <1>5, Numbers
      <4> QED
        BY <2>2, <3>1, <3>3, <3>5, <3>7, <4>1, <4>2
    <3> QED
      BY <3>6, <3>7
  <2> QED
    BY <2>1, <2>2
<1>7. fed' \in Seq(Token) /\ Len(fed') = pos' /\ answer' \in Seq(Token)
  BY <1>1, <1>2, <1>3
<1>8. pos' \in start' .. SeqLen
  BY <1>2, <1>3, Numbers
<1> HIDE DEF found, piece
<1> QED
  BY <1>1, <1>3, <1>4, <1>6, <1>7, <1>8 DEF ChatShape, ChatTypeOK

LEMMA EndsKeepShape ==
  ASSUME ChatShape,
         EndOfContext \/ (\E t \in Sampled : DecoderAborts(t)) \/ UNCHANGED vars
  PROVE  ChatShape'
<1>1. /\ pc' = pc \/ (pc = "predict" /\ pc' \in {"done", "aborted"})
      /\ mode' = mode /\ maxPos' = maxPos /\ start' = start /\ pos' = pos /\ token' = token
      /\ prompt' = prompt /\ fed' = fed /\ pending' = pending /\ held' = held
      /\ answer' = answer /\ shown' = shown
  BY DEF EndOfContext, DecoderAborts, vars
<1> QED
  BY <1>1 DEF ChatShape, ChatTypeOK

LEMMA ChatShapeStep == ChatShape /\ [ChatNext]_vars => ChatShape'
<1> SUFFICES ASSUME ChatShape, [ChatNext]_vars PROVE ChatShape'
  OBVIOUS
<1>1. CASE EvalBatch
  BY <1>1, EvalBatchKeepsShape
<1>2. CASE Evaluated
  BY <1>2, EvaluatedKeepsShape
<1>3. ASSUME NEW t \in Sampled, Predict(t) PROVE ChatShape'
  BY <1>3, PredictKeepsShape
<1>4. ASSUME NEW text \in Texts, Ask(text) PROVE ChatShape'
  BY <1>4, AskKeepsShape
<1>5. CASE EndOfContext \/ (\E t \in Sampled : DecoderAborts(t)) \/ UNCHANGED vars
  BY <1>5, EndsKeepShape
<1> QED
  BY <1>1, <1>2, <1>3, <1>4, <1>5 DEF ChatNext, Computing

(* The locals of inference and chat keep their types, the position stays in *)
(* the context and counts what was fed, and what the decoder keeps fits     *)
(* into strBuffer (dllama.cpp:13-98, 114-210, tokenizer.cpp:285-301).       *)
THEOREM ChatTypeCorrect == ChatSpec => []ChatTypeOK
<1>1. ChatShape => ChatTypeOK
  BY DEF ChatShape
<1> QED
  BY <1>1, ChatShapeInit, ChatShapeStep, PTL DEF ChatSpec

-----------------------------------------------------------------------------
(* The rows of the context                                                  *)

(* The rows of the context that belong to the first k tokens of the prompt. *)
PromptFed(k) == \A i \in 1 .. k : fed[start + i] = prompt.cells[i]

(* Before the first prediction the context has part of the prompt; from it  *)
(* on it has the prompt but for its last token, one row, and the answer but *)
(* for the token that is fed next.                                          *)
ChatContext ==
  /\ pc \in {"eval", "predict"} => prompt.n >= 1
  /\ pc = "eval" => answer = <<>>
  /\ pc \in {"eval", "predict"} /\ answer = <<>> =>
       pos <= PromptEnd /\ PromptFed(pos - start)
  /\ pc = "predict" /\ answer = <<>> => pos = PromptEnd
  /\ pc = "predict" /\ answer # <<>> => token = answer[Len(answer)]
  /\ answer # <<>> =>
       /\ prompt.n >= 1
       /\ pos = start + prompt.n - 1 + Len(answer)
       /\ PromptFed(prompt.n - 1)
       /\ \A j \in 1 .. (Len(answer) - 1) : fed[start + prompt.n + j] = answer[j]

LEMMA ChatContextInit == ChatInit => ChatContext
BY DEF ChatInit, ChatContext

LEMMA AskKeepsContext ==
  ASSUME ChatShape, NEW text \in Texts, Ask(text)
  PROVE  ChatContext'
<1>1. start' = pos /\ pos' = pos /\ answer' = <<>> /\ pos \in Nat /\ pos <= SeqLen
  BY Numbers DEF Ask, ChatShape, ChatTypeOK
<1>2. pc' \in {"eval", "refused", "aborted"}
  BY AskedPrompt
<1>3. CASE pc' = "eval"
  <2>1. prompt'.n \in Nat /\ prompt'.n >= 1
    BY <1>3, AskedPrompt
  <2>2. pos' <= PromptEnd'
    <3>1. PromptEnd' = Smaller(SeqLen, start' + prompt'.n - 1)
      BY DEF PromptEnd
    <3>2. start' + prompt'.n - 1 \in Int /\ pos <= start' + prompt'.n - 1
      BY <1>1, <2>1
    <3>3. PromptEnd' \in {SeqLen, start' + prompt'.n - 1}
      BY <3>1, <3>2, Numbers
    <3> QED
      BY <1>1, <3>2, <3>3
  <2>3. PromptFed(pos - start)'
    <3>1. pos' - start' = 0
      BY <1>1
    <3> QED
      BY <3>1 DEF PromptFed
  <2> QED
    BY <1>1, <1>3, <2>1, <2>2, <2>3 DEF ChatContext
<1>4. CASE pc' # "eval"
  BY <1>1, <1>2, <1>4 DEF ChatContext
<1> QED
  BY <1>3, <1>4

LEMMA EvalBatchKeepsContext ==
  ASSUME ChatShape, ChatContext, EvalBatch
  PROVE  ChatContext'
<1> DEFINE n == BatchSize
           k == pos - start
           batch == SubSeq(prompt.cells, k + 1, k + n)
<1>1. /\ pos \in Nat /\ start \in Nat /\ start <= pos /\ prompt.n \in Nat
      /\ prompt.n <= Len(prompt.cells) /\ prompt.cells \in Seq(Token)
      /\ fed \in Seq(Token) /\ Len(fed) = pos
  BY Numbers DEF ChatShape, ChatTypeOK
<1>2. pc = "eval" /\ pos < PromptEnd
  BY DEF EvalBatch
<1>3. /\ n \in Nat \ {0} /\ pos + n <= PromptEnd /\ k + n <= prompt.n - 1 /\ k \in Nat
  BY <1>2, BatchInPrompt
<1>4. /\ fed' = fed \o batch /\ pos' = pos + n
      /\ pc' = pc /\ start' = start /\ prompt' = prompt /\ answer' = answer
  BY DEF EvalBatch
<1>5. prompt.n >= 1 /\ answer = <<>> /\ \A i \in 1 .. k : fed[start + i] = prompt.cells[i]
  BY <1>2 DEF ChatContext, PromptFed
<1>6. pos' <= PromptEnd'
  BY <1>3, <1>4 DEF PromptEnd
<1> HIDE DEF n
<1>7. /\ batch \in Seq(Token) /\ Len(batch) = n
      /\ \A i \in 1 .. n : batch[i] = prompt.cells[k + i]
  <2> HIDE DEF k
  <2>1. k + 1 \in Int /\ k + n \in Int /\ k + n <= Len(prompt.cells) /\ Len(prompt.cells) \in Nat
    BY <1>1, <1>3
  <2>2. \A i \in (k + 1) .. (k + n) : prompt.cells[i] \in Token
    BY <1>1, <1>3, <2>1
  <2>3. batch \in Seq(Token) /\ Len(batch) = n
    BY <1>3, <2>1, <2>2, SubSeqProperties
  <2>4. ASSUME NEW i \in 1 .. n PROVE batch[i] = prompt.cells[k + i]
    <3>1. k + 1 + i - 1 = k + i /\ k + n - (k + 1) + 1 = n
      BY <1>3
    <3> QED
      BY <1>3, <2>1, <3>1
  <2> QED
    BY <2>3, <2>4
<1> HIDE DEF batch
<1>8. ASSUME NEW i \in 1 .. (k + n) PROVE fed'[start + i] = prompt.cells[i]
  <2>1. CASE i <= k
    <3>1. start + i \in 1 .. Len(fed) /\ i \in 1 .. k
      BY <1>1, <1>3, <2>1
    <3>2. fed'[start + i] = fed[start + i]
      BY <1>1, <1>4, <1>7, <3>1
    <3> QED
      BY <1>5, <3>1, <3>2
  <2>2. CASE ~(i <= k)
    <3>1. i - k \in 1 .. n /\ start + i = Len(fed) + (i - k) /\ k + (i - k) = i
      BY <1>1, <1>3, <2>2
    <3> HIDE DEF k
    <3>2. fed'[Len(fed) + (i - k)] = batch[i - k]
      BY <1>1, <1>4, <1>7, <3>1
    <3> QED
      BY <1>7, <3>1, <3>2
  <2> QED
    BY <2>1, <2>2
<1>9. PromptFed(pos - start)'
  <2>1. pos' - start' = k + n
    BY <1>1, <1>3, <1>4
  <2> QED
    BY <1>4, <1>8, <2>1 DEF PromptFed
<1> QED
  BY <1>2, <1>4, <1>5, <1>6, <1>9 DEF ChatContext

LEMMA EvaluatedKeepsContext ==
  ASSUME ChatShape, ChatContext, Evaluated
  PROVE  ChatContext'
<1>1. /\ pc = "eval" /\ pos >= PromptEnd /\ pc' = "predict" /\ start' = start /\ pos' = pos
      /\ token' = token /\ prompt' = prompt /\ fed' = fed /\ answer' = answer
  BY DEF Evaluated
<1>2. prompt.n >= 1 /\ answer = <<>> /\ pos <= PromptEnd /\ PromptFed(pos - start)
  BY <1>1 DEF ChatContext
<1>3. pos = PromptEnd
  <2>1. pos \in Int /\ start + prompt.n - 1 \in Int /\ SeqLen \in Int
    BY Numbers DEF ChatShape, ChatTypeOK
  <2>2. PromptEnd \in Int
    BY <2>1, Numbers DEF PromptEnd
  <2> QED
    BY <1>1, <1>2, <2>1, <2>2
<1>4. PromptEnd' = PromptEnd /\ PromptFed(pos - start)'
  BY <1>1, <1>2 DEF PromptEnd, PromptFed
<1> QED
  BY <1>1, <1>2, <1>3, <1>4 DEF ChatContext

LEMMA PredictKeepsContext ==
  ASSUME ChatShape, ChatContext, NEW t \in Sampled, Predict(t), pc' # "eval"
  PROVE  ChatContext'
<1> DEFINE n == prompt.n
           m == Len(answer)
<1>1. /\ pos \in Nat /\ start \in Nat /\ start <= pos /\ n \in Nat /\ maxPos \in Nat
      /\ maxPos <= SeqLen /\ fed \in Seq(Token) /\ Len(fed) = pos /\ token \in Token
      /\ answer \in Seq(Token) /\ m \in Nat /\ t \in Token
  BY Numbers, ChatAssumption DEF ChatShape, ChatTypeOK
<1>2. /\ pc = "predict" /\ pos < maxPos /\ fed' = Append(fed, token) /\ token' = t
      /\ answer' = Append(answer, t) /\ pos' = pos + 1 /\ start' = start /\ prompt' = prompt
  BY DEF Predict, NextFed
<1>3. /\ answer' # <<>> /\ Len(answer') = m + 1 /\ answer'[m + 1] = t
      /\ \A j \in 1 .. m : answer'[j] = answer[j]
  <2>1. /\ Len(Append(answer, t)) = m + 1 /\ Append(answer, t)[m + 1] = t
        /\ \A j \in 1 .. m : Append(answer, t)[j] = answer[j]
    BY <1>1, AppendProperties
  <2>2. Append(answer, t) # <<>>
    BY <1>1
  <2> QED
    BY <1>2, <2>1, <2>2
<1>4. fed'[pos + 1] = token /\ \A i \in 1 .. pos : fed'[i] = fed[i]
  BY <1>1, <1>2
<1>5. /\ n >= 1 /\ pos = start + n - 1 + m /\ PromptFed(n - 1)
      /\ m # 0 => token = answer[m]
      /\ \A j \in 1 .. (m - 1) : fed[start + n + j] = answer[j]
  <2>1. CASE answer = <<>>
    <3>1. n >= 1 /\ pos = PromptEnd /\ PromptFed(pos - start) /\ m = 0
      BY <1>2, <2>1 DEF ChatContext
    <3>2. pos = start + n - 1
      <4>1. PromptEnd \in {SeqLen, start + n - 1}
        BY <1>1, Numbers DEF PromptEnd
      <4> QED
        BY <1>1, <1>2, <3>1, <4>1, Numbers
    <3>3. pos - start = n - 1 /\ pos = start + n - 1 + m
      BY <1>1, <3>1, <3>2
    <3>4. \A j \in 1 .. (m - 1) : FALSE
      BY <3>1
    <3> QED
      BY <3>1, <3>3, <3>4
  <2>2. CASE answer # <<>>
    BY <1>2, <2>2 DEF ChatContext
  <2> QED
    BY <2>1, <2>2
<1> HIDE DEF m, n
<1>6. PromptFed(n - 1)'
  <2>1. ASSUME NEW i \in 1 .. (n - 1) PROVE fed'[start + i] = prompt.cells[i]
    <3>1. start + i \in 1 .. pos
      BY <1>1, <1>5
    <3> QED
      BY <1>4, <1>5, <3>1 DEF PromptFed, n
  <2> QED
    BY <1>2, <2>1 DEF PromptFed, n
<1>7. ASSUME NEW j \in 1 .. m PROVE fed'[start + n + j] = answer'[j]
  <2>1. CASE j = m
    <3>1. start + n + j = pos + 1 /\ m # 0
      BY <1>1, <1>5, <2>1
    <3> QED
      BY <1>3, <1>4, <1>5, <2>1, <3>1
  <2>2. CASE j # m
    <3>1. j \in 1 .. (m - 1)
      BY <1>1, <2>2
    <3>2. start + n + j \in 1 .. pos
      BY <1>1, <1>5, <3>1
    <3> QED
      BY <1>3, <1>4, <1>5, <3>1, <3>2
  <2> QED
    BY <2>1, <2>2
<1>8. pos' = start + n - 1 + (m + 1) /\ (m + 1) - 1 = m
  BY <1>1, <1>2, <1>5
<1> QED
  <2>1. /\ n >= 1 /\ pos' = start + n - 1 + Len(answer') /\ Len(answer') - 1 = m
        /\ token' = answer'[Len(answer')] /\ answer' # <<>>
    BY <1>1, <1>2, <1>3, <1>5, <1>8
  <2>2. prompt'.n = n /\ start' = start
    BY <1>2 DEF n
  <2> QED
    BY <1>2, <1>6, <1>7, <2>1, <2>2 DEF ChatContext, n

LEMMA EndsKeepContext ==
  ASSUME ChatContext,
         EndOfContext \/ (\E t \in Sampled : DecoderAborts(t)) \/ UNCHANGED vars
  PROVE  ChatContext'
<1>1. /\ pc' = pc \/ (pc = "predict" /\ pc' \in {"done", "aborted"})
      /\ start' = start /\ pos' = pos /\ token' = token
      /\ prompt' = prompt /\ fed' = fed /\ answer' = answer
  BY DEF EndOfContext, DecoderAborts, vars
<1> QED
  BY <1>1 DEF ChatContext, PromptEnd, PromptFed

LEMMA ChatContextStep == ChatShape /\ ChatContext /\ [ChatNext]_vars => ChatContext'
<1> SUFFICES ASSUME ChatShape, ChatContext, [ChatNext]_vars PROVE ChatContext'
  OBVIOUS
<1>1. CASE EvalBatch
  BY <1>1, EvalBatchKeepsContext
<1>2. CASE Evaluated
  BY <1>2, EvaluatedKeepsContext
<1>3. ASSUME NEW t \in Sampled, Predict(t) PROVE ChatContext'
  <2>1. pc = "predict"
    BY <1>3 DEF Predict
  <2>2. pc' # "eval"
    <3>1. PICK text : Shows(t, text)
      BY <1>3 DEF Predict
    <3>2. pos \in Nat
      BY Numbers DEF ChatShape, ChatTypeOK
    <3>3. pos + 1 < SeqLen \/ pos + 1 >= SeqLen
      BY <3>2, Numbers
    <3>4. pc' \in {pc, "ask", "done"}
      BY <3>1, <3>2, <3>3, ShowsCases
    <3> QED
      BY <2>1, <3>4
  <2> QED
    BY <1>3, <2>2, PredictKeepsContext
<1>4. ASSUME NEW text \in Texts, Ask(text) PROVE ChatContext'
  BY <1>4, AskKeepsContext
<1>5. CASE EndOfContext \/ (\E t \in Sampled : DecoderAborts(t)) \/ UNCHANGED vars
  BY <1>5, EndsKeepContext
<1> QED
  BY <1>1, <1>2, <1>3, <1>4, <1>5 DEF ChatNext, Computing

(* Pieces of sequences, element by element.                                 *)
LEMMA SameSlices ==
  ASSUME NEW s \in Seq(Token), NEW u \in Seq(Token), NEW k \in Nat, NEW n \in Nat,
         k + n <= Len(s), n <= Len(u), \A i \in 1 .. n : s[k + i] = u[i]
  PROVE  SubSeq(s, k + 1, k + n) = SubSeq(u, 1, n)
<1> DEFINE l == SubSeq(s, k + 1, k + n)
           r == SubSeq(u, 1, n)
<1>1. Len(s) \in Nat /\ Len(u) \in Nat
  OBVIOUS
<1>2. l \in Seq(Token) /\ Len(l) = n /\ \A i \in 1 .. n : l[i] = s[k + i]
  <2>1. \A i \in (k + 1) .. (k + n) : s[i] \in Token
    BY <1>1
  <2>2. l \in Seq(Token) /\ Len(l) = n
    BY <1>1, <2>1, SubSeqProperties
  <2>3. ASSUME NEW i \in 1 .. n PROVE l[i] = s[k + i]
    BY <1>1
  <2> QED
    BY <2>2, <2>3
<1>3. r \in Seq(Token) /\ Len(r) = n /\ \A i \in 1 .. n : r[i] = u[i]
  BY <1>1
<1> HIDE DEF l, r
<1> QED
  BY <1>2, <1>3, SeqEqual

(* The rows of the context are those of the conversation: the prompt but    *)
(* for its last token, one row, and the answer up to the token that is fed  *)
(* next, without a gap and without an overlap, also over several prompts    *)
(* (dllama.cpp:161-180, 189-208).                                           *)
THEOREM ContextFollowsConversation == ChatSpec => []ContextIsConversation
<1>1. ChatShape /\ ChatContext => ContextIsConversation
  <2> SUFFICES ASSUME ChatShape, ChatContext, answer # <<>>
               PROVE  ContextIsConversation
    BY DEF ContextIsConversation
  <2> DEFINE first == start + prompt.n - 1
             m     == Len(answer)
  <2>1. /\ start \in Nat /\ prompt.n \in Nat /\ prompt.n <= Len(prompt.cells)
        /\ prompt.cells \in Seq(Token) /\ Len(prompt.cells) \in Nat
        /\ fed \in Seq(Token) /\ Len(fed) = pos
        /\ answer \in Seq(Token) /\ m \in Nat /\ m >= 1
    BY Numbers DEF ChatShape, ChatTypeOK
  <2>2. /\ prompt.n >= 1 /\ pos = start + prompt.n - 1 + m
        /\ \A i \in 1 .. (prompt.n - 1) : fed[start + i] = prompt.cells[i]
        /\ \A j \in 1 .. (m - 1) : fed[start + prompt.n + j] = answer[j]
    BY DEF ChatContext, PromptFed
  <2>3. Len(fed) = first + m
    BY <2>1, <2>2
  <2>4. SubSeq(fed, start + 1, first) = SubSeq(prompt.cells, 1, prompt.n - 1)
    <3>1. /\ prompt.n - 1 \in Nat /\ start + (prompt.n - 1) = first
          /\ start + (prompt.n - 1) <= Len(fed) /\ prompt.n - 1 <= Len(prompt.cells)
      BY <2>1, <2>2
    <3>2. SubSeq(fed, start + 1, start + (prompt.n - 1)) = SubSeq(prompt.cells, 1, prompt.n - 1)
      BY <2>1, <2>2, <3>1, SameSlices
    <3> QED
      BY <3>1, <3>2
  <2>5. SubSeq(fed, first + 2, Len(fed)) = Front(answer)
    <3> DEFINE k == start + prompt.n
               l == m - 1
    <3>1. /\ l \in Nat /\ k \in Nat /\ k + 1 = first + 2 /\ k + l = Len(fed)
          /\ l <= Len(answer) /\ k + l <= Len(fed)
      BY <2>1, <2>2
    <3>2. \A j \in 1 .. l : fed[k + j] = answer[j]
      BY <2>2
    <3>3. Front(answer) = SubSeq(answer, 1, l)
      BY DEF Front
    <3> HIDE DEF k, l
    <3>4. SubSeq(fed, k + 1, k + l) = SubSeq(answer, 1, l)
      BY <2>1, <3>1, <3>2, SameSlices
    <3> QED
      BY <3>1, <3>3, <3>4
  <2> QED
    BY <2>3, <2>4, <2>5 DEF ContextIsConversation
<1> QED
  BY <1>1, ChatShapeInit, ChatShapeStep, ChatContextInit, ChatContextStep, PTL DEF ChatSpec

-----------------------------------------------------------------------------
(* The text that is shown                                                   *)

EosIn(tokens) == \E i \in DOMAIN tokens : IsEos(tokens[i])

LEMMA EosInOneMore ==
  ASSUME NEW tokens \in Seq(Token), NEW t \in Token
  PROVE  /\ ~EosIn(<<>>)
         /\ EosIn(Append(tokens, t)) <=> EosIn(tokens) \/ IsEos(t)
<1> DEFINE n == Len(tokens)
           more == Append(tokens, t)
<1>1. n \in Nat /\ DOMAIN tokens = 1 .. n
  OBVIOUS
<1>2. /\ DOMAIN more = 1 .. (n + 1) /\ more[n + 1] = t
      /\ \A i \in 1 .. n : more[i] = tokens[i]
  <2>1. Len(more) = n + 1 /\ more \in Seq(Token) /\ more[n + 1] = t
    BY AppendProperties
  <2>2. \A i \in 1 .. n : more[i] = tokens[i]
    BY AppendProperties
  <2> QED
    BY <2>1, <2>2
<1>3. ~EosIn(<<>>)
  BY DEF EosIn
<1> HIDE DEF n, more
<1>4. \A i : i \in 1 .. (n + 1) <=> i \in 1 .. n \/ i = n + 1
  BY <1>1
<1>5. EosIn(more) <=> EosIn(tokens) \/ IsEos(t)
  BY <1>1, <1>2, <1>4 DEF EosIn
<1> QED
  BY <1>3, <1>5 DEF more

(* ShownIsDecoded of values.                                                *)
Shown(at, m, s, h, tokens) ==
  LET decoded == DetokUtf8(StreamOf(tokens))
  IN  \/ s \o h = decoded.text
      \/ EosIn(tokens) /\ m = "inference"
      \/ EosIn(tokens) /\ s = decoded.text \o decoded.pending
      \/ /\ at \notin {"eval", "predict"} /\ m = "chat"
         /\ \E i \in DOMAIN EosTokenIds : IsPrefix(s \o Stop(i), decoded.text)

LEMMA ShownIs ==
  /\ ShownIsDecoded <=> Shown(pc, mode, shown, held, answer)
  /\ ShownIsDecoded' <=> Shown(pc', mode', shown', held', answer')
<1>1. Stream = StreamOf(answer) /\ Stream' = StreamOf(answer')
  BY DEF Stream, StreamOf, AllHeard, Heard
<1>2. (EosSampled <=> EosIn(answer)) /\ (EosSampled' <=> EosIn(answer'))
  BY DEF EosSampled, EosIn
<1> QED
  BY <1>1, <1>2 DEF ShownIsDecoded, Shown

(* While tokens are sampled the decoder has exactly what it cannot decode   *)
(* yet, and the detector exactly what is not shown yet.                     *)
ChatText ==
  /\ pc = "eval" => shown = <<>> /\ held = <<>> /\ answer = <<>>
  /\ pc = "predict" /\ mode # "inference" => ~EosIn(answer)
  /\ pc = "predict" /\ ~EosIn(answer) =>
       /\ pending = DetokUtf8(StreamOf(answer)).pending
       /\ shown \o held = DetokUtf8(StreamOf(answer)).text
  /\ Shown(pc, mode, shown, held, answer)

LEMMA NothingDecoded ==
  /\ DetokUtf8(StreamOf(<<>>)).text = <<>> /\ DetokUtf8(StreamOf(<<>>)).pending = <<>>
  /\ <<>> \o <<>> = <<>>
<1>1. DetokUtf8(<<>>).text = <<>>
  BY DecoderOfNothing DEF DetokUtf8, Fresh
<1>2. DetokUtf8(<<>>).pending = <<>>
  <2>1. Decoder(<<>>).done = 0 /\ Len(<<>>) = 0
    BY DecoderOfNothing DEF Fresh
  <2>2. DetokUtf8(<<>>).pending = SubSeq(<<>>, 1, 0)
    BY <2>1 DEF DetokUtf8
  <2> QED
    BY <2>2
<1> QED
  BY <1>1, <1>2, StreamOfNothing

LEMMA ChatTextInit == ChatInit => ChatText
BY NothingDecoded DEF ChatInit, ChatText, Shown

(* One more token for the decoder.                                          *)
LEMMA DecodedOnward ==
  ASSUME NEW tokens \in Seq(Token), NEW t \in Token, ~IsEos(t),
         NEW bytes, bytes = DetokUtf8(StreamOf(tokens)).pending
  PROVE  LET more == DetokUtf8(StreamOf(Append(tokens, t)))
         IN  /\ more.text = DetokUtf8(StreamOf(tokens)).text \o Decode(bytes, t).text
             /\ more.pending = Decode(bytes, t).pending
<1> DEFINE x == StreamOf(tokens)
           y == Heard(t)
<1>1. x \in Seq(Bytes) /\ y \in Seq(Bytes) /\ StreamOf(Append(tokens, t)) = x \o y
  BY StreamOfOneMore, HeardType
<1> HIDE DEF x, y
<1>2. CASE t = Bos
  <2>1. y = <<>> /\ Decode(bytes, t).text = <<>> /\ Decode(bytes, t).pending = bytes
    BY <1>2 DEF Decode, Heard, y
  <2>2. DetokUtf8(x).text \in Seq(Bytes)
    BY <1>1, DetokUtf8Type
  <2>3. x \o <<>> = x /\ DetokUtf8(x).text \o <<>> = DetokUtf8(x).text
    BY <1>1, <2>2
  <2> QED
    BY <1>1, <2>1, <2>3 DEF x
<1>3. CASE t # Bos
  <2>1. y = Vocab[t] /\ Decode(bytes, t) = DetokUtf8(bytes \o y)
    BY <1>3 DEF Decode, Heard, y
  <2>2. /\ DetokUtf8(x \o y).text = DetokUtf8(x).text \o DetokUtf8(Undecoded(x) \o y).text
        /\ DetokUtf8(x \o y).pending = DetokUtf8(Undecoded(x) \o y).pending
        /\ DetokUtf8(x).pending = Undecoded(x)
    BY <1>1, DecodesInPieces
  <2>3. bytes = Undecoded(x)
    BY <2>2 DEF x
  <2> QED
    BY <1>1, <2>1, <2>2, <2>3 DEF x
<1> QED
  BY <1>2, <1>3

(* What is shown when a stop was found, and the stop, are what was decoded  *)
(* up to its end.                                                           *)
LEMMA StopIsBehind ==
  ASSUME NEW s \in Seq(Bytes), NEW buffer \in Seq(Bytes), NEW i, NEW lo, StopAt(buffer, i, lo)
  PROVE  IsPrefix((s \o SubSeq(buffer, 1, lo)) \o Stop(i), s \o buffer)
<1> DEFINE m     == Len(Stop(i))
           n     == Len(s)
           b     == Len(buffer)
           begun == SubSeq(buffer, 1, lo)
           l     == (s \o begun) \o Stop(i)
           all   == s \o buffer
           r     == SubSeq(all, 1, n + lo + m)
<1>1. Stop(i) \in Seq(Bytes) /\ m \in Nat
  <2>1. i \in DOMAIN EosTokenIds
    BY DEF StopAt
  <2>2. EosTokenIds[i] \in Token
    BY <2>1, Vocabulary
  <2> QED
    BY <2>2, Vocabulary DEF Stop
<1>2. n \in Nat /\ b \in Nat /\ lo \in 0 .. b /\ lo + m <= b
  BY DEF StopAt
<1>3. \A j \in 1 .. m : Stop(i)[j] = buffer[lo + j]
  <2> DEFINE piece == SubSeq(buffer, lo + 1, lo + m)
  <2>1. piece = Stop(i)
    BY DEF StopAt
  <2>2. ASSUME NEW j \in 1 .. m PROVE piece[j] = buffer[lo + j]
    <3> HIDE DEF m
    <3>1. (lo + m) - (lo + 1) + 1 = m /\ lo + 1 + j - 1 = lo + j
      BY <1>1, <1>2
    <3> QED
      BY <1>1, <1>2, <3>1
  <2> HIDE DEF piece
  <2> QED
    BY <2>1, <2>2
<1>4. begun \in Seq(Bytes) /\ Len(begun) = lo /\ \A j \in 1 .. lo : begun[j] = buffer[j]
  BY <1>2
<1> HIDE DEF begun
<1>5. /\ s \o begun \in Seq(Bytes) /\ Len(s \o begun) = n + lo
      /\ \A j \in 1 .. n : (s \o begun)[j] = s[j]
      /\ \A j \in 1 .. lo : (s \o begun)[n + j] = begun[j]
  BY <1>4, ConcatIndex
<1>6. /\ l \in Seq(Bytes) /\ Len(l) = n + lo + m
      /\ \A j \in 1 .. (n + lo) : l[j] = (s \o begun)[j]
      /\ \A j \in 1 .. m : l[n + lo + j] = Stop(i)[j]
  BY <1>1, <1>5, ConcatIndex
<1>7. /\ all \in Seq(Bytes) /\ Len(all) = n + b
      /\ \A j \in 1 .. n : all[j] = s[j]
      /\ \A j \in 1 .. b : all[n + j] = buffer[j]
  BY ConcatIndex
<1> HIDE DEF m, n, b, l, all
<1>8. n + lo + m \in Nat /\ n + lo + m <= Len(all)
  BY <1>1, <1>2, <1>7
<1>9. r \in Seq(Bytes) /\ Len(r) = n + lo + m /\ \A j \in 1 .. (n + lo + m) : r[j] = all[j]
  BY <1>7, <1>8
<1> HIDE DEF r
<1>10. ASSUME NEW j \in 1 .. (n + lo + m) PROVE l[j] = all[j]
  <2>1. CASE j <= n
    <3>1. j \in 1 .. n /\ j \in 1 .. (n + lo)
      BY <1>1, <1>2, <2>1
    <3> QED
      BY <1>5, <1>6, <1>7, <3>1
  <2>2. CASE n < j /\ j <= n + lo
    <3>1. /\ j - n \in 1 .. lo /\ j \in 1 .. (n + lo) /\ n + (j - n) = j /\ j - n \in 1 .. b
      BY <1>1, <1>2, <2>2
    <3>2. (s \o begun)[n + (j - n)] = begun[j - n] /\ all[n + (j - n)] = buffer[j - n]
      BY <1>5, <1>7, <3>1
    <3> QED
      BY <1>4, <1>6, <3>1, <3>2
  <2>3. CASE n + lo < j
    <3>1. /\ j - (n + lo) \in 1 .. m /\ n + lo + (j - (n + lo)) = j
          /\ lo + (j - (n + lo)) \in 1 .. b /\ n + (lo + (j - (n + lo))) = j
      BY <1>1, <1>2, <2>3
    <3>2. l[n + lo + (j - (n + lo))] = Stop(i)[j - (n + lo)]
      BY <1>6, <3>1
    <3>3. all[n + (lo + (j - (n + lo)))] = buffer[lo + (j - (n + lo))]
      BY <1>7, <3>1
    <3>4. Stop(i)[j - (n + lo)] = buffer[lo + (j - (n + lo))]
      BY <1>3, <3>1
    <3> QED
      BY <3>1, <3>2, <3>3, <3>4
  <2> QED
    BY <1>1, <1>2, <2>1, <2>2, <2>3
<1>11. l = r
  BY <1>6, <1>9, <1>10, SeqEqual
<1>12. SubSeq(l, 1, Len(l)) = l
  BY <1>6
<1>13. Len(l) <= Len(all) /\ SubSeq(l, 1, Len(l)) = SubSeq(all, 1, Len(l))
  BY <1>6, <1>8, <1>11, <1>12 DEF r
<1>14. IsPrefix(l, all)
  BY <1>13 DEF IsPrefix
<1> QED
  BY <1>14 DEF l, all, begun

LEMMA AskKeepsText ==
  ASSUME ChatShape, NEW text \in Texts, Ask(text)
  PROVE  ChatText'
<1>1. /\ pc = "ask" /\ answer' = <<>> /\ shown' = <<>> /\ held' = held
      /\ pc' \in {"eval", "refused", "aborted"}
  BY AskedPrompt DEF Ask
<1>2. held = <<>>
  BY <1>1 DEF ChatShape
<1> QED
  BY <1>1, <1>2, NothingDecoded DEF ChatText, Shown

LEMMA EvaluatedKeepsText ==
  ASSUME ChatText, Evaluated
  PROVE  ChatText'
<1>1. /\ pc = "eval" /\ pc' = "predict" /\ pending' = <<>>
      /\ held' = held /\ answer' = answer /\ shown' = shown
  BY DEF Evaluated
<1>2. shown = <<>> /\ held = <<>> /\ answer = <<>>
  BY <1>1 DEF ChatText
<1>3. ~EosIn(<<>>)
  BY DEF EosIn
<1> QED
  BY <1>1, <1>2, <1>3, NothingDecoded DEF ChatText, Shown

(* A token behind an eos token, which only `inference' samples.             *)
LEMMA PredictBehindEos ==
  ASSUME ChatShape, ChatText, NEW t \in Sampled, Predict(t), EosIn(answer)
  PROVE  ChatText'
<1>1. /\ pc = "predict" /\ answer' = Append(answer, t) /\ mode' = mode /\ answer \in Seq(Token)
      /\ t \in Token /\ pos \in Nat
  BY Numbers, ChatAssumption DEF Predict, ChatShape, ChatTypeOK
<1>2. mode = "inference"
  BY <1>1 DEF ChatText
<1>3. EosIn(answer')
  BY <1>1, EosInOneMore
<1>4. pc' = "predict"
  BY <1>1, <1>2, ShowsCases DEF Predict
<1> QED
  BY <1>1, <1>2, <1>3, <1>4 DEF ChatText, Shown

(* An eos token ends an answer of `chat' and shows what was held back.      *)
LEMMA PredictEos ==
  ASSUME ChatShape, ChatText, NEW t \in Sampled, Predict(t), ~EosIn(answer), IsEos(t)
  PROVE  ChatText'
<1> DEFINE piece  == Decode(pending, t)
           text   == piece.text
           buffer == held \o text
           old    == DetokUtf8(StreamOf(answer))
<1>1. /\ pc = "predict" /\ answer' = Append(answer, t) /\ mode' = mode /\ answer \in Seq(Token)
      /\ t \in Token /\ pos \in Nat /\ Shows(t, text)
      /\ pending \in Seq(Bytes) /\ held \in Seq(Bytes) /\ shown \in Seq(Bytes)
  BY Numbers, ChatAssumption DEF Predict, ChatShape, ChatTypeOK
<1>2. EosIn(answer')
  BY <1>1, EosInOneMore
<1>3. CASE mode = "inference"
  <2>1. pc' = "predict"
    BY <1>1, <1>3, ShowsCases
  <2> QED
    BY <1>1, <1>2, <1>3, <2>1 DEF ChatText, Shown
<1>4. CASE mode # "inference"
  <2>1. text \in {<<>>, pending}
    BY DEF Decode
  <2>2. pending = old.pending /\ shown \o held = old.text
    BY <1>1 DEF ChatText
  <2>3. DetokUtf8(StreamOf(answer')) = old
    <3>1. Heard(t) = <<>>
      BY DEF Heard
    <3>2. StreamOf(answer) \in Seq(Bytes) /\ StreamOf(answer') = StreamOf(answer) \o <<>>
      BY <1>1, <3>1, StreamOfOneMore
    <3>3. StreamOf(answer') = StreamOf(answer)
      BY <3>2
    <3> QED
      BY <3>3
  <2> HIDE DEF text, old
  <2>4. text \in Seq(Bytes) /\ buffer \in Seq(Bytes)
    <3>1. <<>> \in Seq(Bytes)
      OBVIOUS
    <3>2. text \in Seq(Bytes)
      BY <1>1, <2>1, <3>1
    <3> QED
      BY <1>1, <3>2
  <2>5. Detect(buffer, t).type = "EOS" /\ Detect(buffer, t).delta = buffer
    BY <1>1, <2>4, DetectCases DEF Detected
  <2>6. /\ shown' = shown \o buffer /\ held' = HeldAfter("EOS", buffer)
        /\ pc' \in {"ask", "done"}
    <3>1. pos + 1 < SeqLen \/ pos + 1 >= SeqLen
      BY <1>1, Numbers
    <3> QED
      BY <1>1, <1>4, <2>5, <3>1, ShowsCases
  <2>7. held' = <<>>
    BY <2>6 DEF HeldAfter
  <2>8. shown' = old.text \o text
    <3>1. shown \o (held \o text) = (shown \o held) \o text
      BY <1>1, <2>4, BytesConcat
    <3>2. (shown \o held) \o text = old.text \o text
      BY <2>2
    <3> QED
      BY <2>6, <3>1, <3>2
  <2>9. \/ shown' \o held' = old.text
        \/ shown' = old.text \o old.pending
    <3>1. CASE text = pending
      BY <2>2, <2>8, <3>1
    <3>2. CASE text = <<>>
      <4>1. shown \o held \in Seq(Bytes)
        BY <1>1
      <4>2. old.text \o <<>> = old.text
        BY <2>2, <4>1
      <4> QED
        BY <2>7, <2>8, <3>2, <4>2
    <3> QED
      BY <2>1, <3>1, <3>2
  <2>10. Shown(pc', mode', shown', held', answer')
    BY <1>2, <2>3, <2>9 DEF Shown
  <2> QED
    BY <2>6, <2>10 DEF ChatText
<1> QED
  BY <1>3, <1>4

(* Any other token.                                                         *)
LEMMA PredictText ==
  ASSUME ChatShape, ChatText, NEW t \in Sampled, Predict(t), ~EosIn(answer), ~IsEos(t)
  PROVE  ChatText'
<1> DEFINE piece  == Decode(pending, t)
           text   == piece.text
           buffer == held \o text
           new    == DetokUtf8(StreamOf(answer'))
<1>1. /\ pc = "predict" /\ answer' = Append(answer, t) /\ mode' = mode /\ answer \in Seq(Token)
      /\ t \in Token /\ pos \in Nat /\ Shows(t, text) /\ pending' = piece.pending
      /\ Decodes(pending, t) /\ Len(pending) < StrBufferSize
      /\ pending \in Seq(Bytes) /\ held \in Seq(Bytes) /\ shown \in Seq(Bytes)
      /\ mode = "inference" => held = <<>>
  BY Numbers, ChatAssumption DEF Predict, ChatShape, ChatTypeOK
<1>2. ~EosIn(answer') /\ mode \in {"inference", "chat"}
  BY <1>1, EosInOneMore, ModeIs DEF ChatShape
<1>3. /\ pending = DetokUtf8(StreamOf(answer)).pending
      /\ shown \o held = DetokUtf8(StreamOf(answer)).text
  BY <1>1 DEF ChatText
<1>4. new.text = (shown \o held) \o text /\ new.pending = pending'
  BY <1>1, <1>3, DecodedOnward
<1>5. text \in Seq(Bytes) /\ buffer \in Seq(Bytes)
  <2>1. text \in Seq(Bytes)
    BY <1>1, DecodeType
  <2> HIDE DEF text
  <2> QED
    BY <1>1, <2>1
<1> HIDE DEF piece, text, new
<1>6. new.text = shown \o buffer
  BY <1>1, <1>4, <1>5, BytesConcat
<1>7. shown' \o held' = new.text => ChatText'
  <2>1. SUFFICES ASSUME shown' \o held' = new.text, pc' # "eval" PROVE ChatText'
    <3>1. pc' # "eval"
      <4>1. pos + 1 < SeqLen \/ pos + 1 >= SeqLen
        BY <1>1, Numbers
      <4>2. pc' \in {pc, "ask", "done"}
        BY <1>1, <4>1, ShowsCases
      <4> QED
        BY <1>1, <4>2
    <3> QED
      BY <3>1
  <2> QED
    BY <1>2, <1>4, <2>1 DEF ChatText, Shown, new
<1>8. CASE mode = "inference"
  <2>1. shown' = shown \o text /\ held' = <<>> /\ held = <<>>
    BY <1>1, <1>8, ShowsCases
  <2>2. shown \o <<>> = shown /\ shown \o text \in Seq(Bytes)
    BY <1>1, <1>5
  <2>3. (shown \o text) \o <<>> = shown \o text
    BY <2>2
  <2> QED
    BY <1>4, <1>7, <2>1, <2>2, <2>3
<1>9. CASE mode # "inference"
  <2> DEFINE found == Detect(buffer, t)
  <2>1. /\ shown' = shown \o found.delta
        /\ held' = HeldAfter(found.type, buffer)
        /\ found.type = "EOS" /\ pos + 1 < SeqLen => pc' = "ask"
        /\ found.type = "EOS" /\ pos + 1 >= SeqLen => pc' = "done"
    BY <1>1, <1>9, ShowsCases
  <2>2. Detected(found, buffer, t)
    BY <1>1, <1>5, DetectCases
  <2> HIDE DEF found, buffer
  <2>3. CASE found.type = "NOT_EOS" /\ found.delta = buffer
    <3>1. held' = <<>> /\ shown' = shown \o buffer
      BY <2>1, <2>3 DEF HeldAfter
    <3>2. shown \o buffer \in Seq(Bytes)
      BY <1>1, <1>5
    <3>3. (shown \o buffer) \o <<>> = shown \o buffer
      BY <3>2
    <3> QED
      BY <1>6, <1>7, <3>1, <3>3
  <2>4. CASE found.type = "MAYBE_EOS" /\ found.delta = <<>>
    <3>1. held' = buffer /\ shown' = shown \o <<>>
      BY <2>1, <2>4 DEF HeldAfter
    <3>2. shown \o <<>> = shown
      BY <1>1
    <3> QED
      BY <1>6, <1>7, <3>1, <3>2
  <2>5. CASE /\ found.type = "EOS"
             /\ \E i, lo : StopAt(buffer, i, lo) /\ found.delta = SubSeq(buffer, 1, lo)
    <3>1. PICK i, lo : StopAt(buffer, i, lo) /\ found.delta = SubSeq(buffer, 1, lo)
      BY <2>5
    <3>2. pc' \in {"ask", "done"}
      <4>1. pos + 1 < SeqLen \/ pos + 1 >= SeqLen
        BY <1>1, Numbers
      <4> QED
        BY <2>1, <2>5, <4>1
    <3>3. shown' = shown \o SubSeq(buffer, 1, lo) /\ i \in DOMAIN EosTokenIds
      BY <2>1, <3>1 DEF StopAt
    <3>4. IsPrefix((shown \o SubSeq(buffer, 1, lo)) \o Stop(i), shown \o buffer)
      BY <1>1, <1>5, <3>1, StopIsBehind
    <3>5. IsPrefix(shown' \o Stop(i), new.text)
      BY <1>6, <3>3, <3>4
    <3>6. mode' = "chat"
      BY <1>1, <1>2, <1>9
    <3>7. Shown(pc', mode', shown', held', answer')
      BY <3>2, <3>3, <3>5, <3>6 DEF Shown, new
    <3> QED
      BY <3>2, <3>7 DEF ChatText
  <2> QED
    BY <2>2, <2>3, <2>4, <2>5 DEF Detected
<1> QED
  BY <1>8, <1>9

LEMMA OthersKeepText ==
  ASSUME ChatText,
         EvalBatch \/ EndOfContext \/ (\E t \in Sampled : DecoderAborts(t)) \/ UNCHANGED vars
  PROVE  ChatText'
<1>1. /\ pc' = pc \/ (pc = "predict" /\ pc' \in {"done", "aborted"})
      /\ mode' = mode /\ pending' = pending
      /\ held' = held /\ answer' = answer /\ shown' = shown
  BY DEF EvalBatch, EndOfContext, DecoderAborts, vars
<1> QED
  BY <1>1 DEF ChatText, Shown

LEMMA ChatTextStep == ChatShape /\ ChatText /\ [ChatNext]_vars => ChatText'
<1> SUFFICES ASSUME ChatShape, ChatText, [ChatNext]_vars PROVE ChatText'
  OBVIOUS
<1>1. CASE Evaluated
  BY <1>1, EvaluatedKeepsText
<1>2. ASSUME NEW t \in Sampled, Predict(t) PROVE ChatText'
  BY <1>2, PredictBehindEos, PredictEos, PredictText
<1>3. ASSUME NEW text \in Texts, Ask(text) PROVE ChatText'
  BY <1>3, AskKeepsText
<1>4. CASE EvalBatch \/ EndOfContext \/ (\E t \in Sampled : DecoderAborts(t)) \/ UNCHANGED vars
  BY <1>4, OthersKeepText
<1> QED
  BY <1>1, <1>2, <1>3, <1>4 DEF ChatNext, Computing

(* What is shown, with what the detector holds back, is what the bytes of   *)
(* all tokens of the answer decode to at once, whatever pieces they come    *)
(* in: nothing is lost, doubled or out of order, also when a character is   *)
(* split over tokens or a stop turns out not to be one (tokenizer.cpp:      *)
(* 218-301, 667-719, dllama.cpp:189-208).                                   *)
THEOREM ShownIsText == ChatSpec => []ShownIsDecoded
<1>1. ChatText => ShownIsDecoded
  BY ShownIs DEF ChatText
<1> QED
  BY <1>1, ChatShapeInit, ChatShapeStep, ChatTextInit, ChatTextStep, PTL DEF ChatSpec
=============================================================================
