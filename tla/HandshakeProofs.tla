---------------------------- MODULE HandshakeProofs ----------------------------
(***************************************************************************)
(* What holds of every stream of messages, however it is cut into chunks,  *)
(* and of every attempt to connect, if no chunk ends in a header that an   *)
(* earlier one began.                                                      *)
(*                                                                         *)
(* The invariant says where the parser stands: the first k messages were   *)
(* cut out, and the bytes it holds (buffer or stub, then data) are those   *)
(* that follow them, up to the last one received.                          *)
(***************************************************************************)
EXTENDS Handshake, FiniteSetTheorems, SequenceTheorems, WellFoundedInduction, TLAPS

(* Induction over a set.                                                   *)
LEMMA NatIn ==
  ASSUME NEW S, 0 \in S, \A n \in Nat : n \in S => n + 1 \in S
  PROVE  \A n \in Nat : n \in S
<1> SUFFICES ASSUME Nat \ S # {} PROVE FALSE
  OBVIOUS
<1>1. PICK n \in Nat \ S : \A m \in Nat \ S : <<m, n>> \notin OpToRel(<, Nat)
  BY NatLessThanWellFounded, WFMin
<1>2. \A m \in Nat \ S : ~(m < n)
  BY <1>1, Zenon DEF OpToRel
<1>3. n - 1 \in Nat /\ n - 1 + 1 = n
  OBVIOUS
<1> QED
  BY <1>2, <1>3

-------------------------------------------------------------------------------
(* The stream: End is what its definition says.                            *)
Streams == [1..Messages -> [kind : Kinds, size : Sizes]]

IsEnd(f, n) == f = [m \in 0..n |-> IF m = 0 THEN 0 ELSE f[m - 1] + sent[m].size]

LEMMA EndExists == \E f : IsEnd(f, Messages)
<1> DEFINE Good(n) == \E f : IsEnd(f, n)
<1>1. Good(0)
  <2> DEFINE f == [m \in 0..0 |-> 0]
  <2>1. f = [m \in 0..0 |-> IF m = 0 THEN 0 ELSE f[m - 1] + sent[m].size]
    OBVIOUS
  <2> QED
    BY <2>1 DEF IsEnd
<1>2. ASSUME NEW n \in Nat, Good(n) PROVE Good(n + 1)
  <2>1. PICK f : IsEnd(f, n)
    BY <1>2
  <2> DEFINE g == [m \in 0..(n + 1) |-> IF m = n + 1 THEN f[n] + sent[m].size ELSE f[m]]
  <2>2. \A m \in 0..n : f[m] = IF m = 0 THEN 0 ELSE f[m - 1] + sent[m].size
    BY <2>1, Zenon DEF IsEnd
  <2>3. \A m \in 0..(n + 1) : g[m] = IF m = 0 THEN 0 ELSE g[m - 1] + sent[m].size
    <3> TAKE m \in 0..(n + 1)
    <3>1. CASE m = 0
      BY <3>1, <2>2
    <3>2. CASE m = n + 1
      <4>1. m - 1 = n /\ n \in 0..(n + 1) /\ n # n + 1 /\ m # 0
        BY <3>2
      <4>2. g[n] = f[n] /\ g[m] = f[n] + sent[m].size
        BY <3>2, <4>1
      <4> QED
        BY <4>1, <4>2
    <3>3. CASE m # 0 /\ m # n + 1
      <4>1. m \in 0..n /\ m - 1 \in 0..(n + 1) /\ m - 1 # n + 1
        BY <3>3
      <4> QED
        BY <3>3, <4>1, <2>2
    <3> QED
      BY <3>1, <3>2, <3>3
  <2>4. g = [m \in 0..(n + 1) |-> g[m]]
    OBVIOUS
  <2> HIDE DEF g
  <2>5. IsEnd(g, n + 1)
    BY <2>3, <2>4 DEF IsEnd
  <2> QED
    BY <2>5
<1> HIDE DEF Good
<1> DEFINE good == {m \in Nat : Good(m)}
<1>3. \A n \in Nat : n \in good
  <2>1. 0 \in good /\ \A n \in Nat : n \in good => n + 1 \in good
    BY <1>1, <1>2
  <2> HIDE DEF good
  <2> QED
    BY <2>1, NatIn
<1>4. Good(Messages)
  BY <1>3, FramingAssumption
<1> QED
  BY <1>4 DEF Good

LEMMA EndIs ==
  /\ End[0] = 0
  /\ \A m \in 1..Messages : End[m] = End[m - 1] + sent[m].size
<1>1. IsEnd(End, Messages)
  BY EndExists, Zenon DEF End, IsEnd
<1>2. \A m \in 0..Messages : End[m] = IF m = 0 THEN 0 ELSE End[m - 1] + sent[m].size
  BY <1>1, Zenon DEF IsEnd
<1> QED
  BY <1>2, FramingAssumption

LEMMA SentIs ==
  ASSUME sent \in Streams, NEW m \in 1..Messages
  PROVE  /\ sent[m].size \in Nat /\ Header < sent[m].size /\ sent[m].size < MaxSize
         /\ sent[m].kind \in MessageKinds
<1>1. sent[m].size \in Sizes /\ sent[m].kind \in Kinds
  BY DEF Streams
<1>2. /\ sent[m].size \in 5..(MaxSize - 1) /\ MaxSize \in Nat
      /\ sent[m].kind \in MessageKinds
  BY <1>1, FramingAssumption
<1> QED
  BY <1>2 DEF Header

LEMMA EndGrows ==
  ASSUME sent \in Streams
  PROVE  /\ \A m \in 0..Messages : End[m] \in Nat
         /\ \A m \in 1..Messages : \A l \in 0..(m - 1) : End[l] + Header < End[m]
<1> DEFINE Good(m) == /\ End[m] \in Nat
                      /\ \A l \in 0..(m - 1) : End[l] \in Nat /\ End[l] + Header < End[m]
           good == {n \in Nat : n <= Messages => Good(n)}
<1>1. 0 \in good
  BY EndIs
<1>2. ASSUME NEW n \in Nat, n \in good PROVE n + 1 \in good
  <2> SUFFICES ASSUME n + 1 <= Messages PROVE Good(n + 1)
    OBVIOUS
  <2>1. n + 1 \in 1..Messages /\ n + 1 - 1 = n /\ Good(n)
    BY <1>2, FramingAssumption
  <2>2. End[n + 1] = End[n] + sent[n + 1].size
    BY <2>1, EndIs
  <2>4. sent[n + 1].size \in Nat /\ sent[n + 1].size > Header
    BY <2>1, SentIs
  <2> HIDE DEF Header
  <2>5. Header \in Nat
    BY DEF Header
  <2>6. End[n + 1] \in Nat /\ End[n] + Header < End[n + 1]
    BY <2>1, <2>2, <2>4, <2>5
  <2>7. ASSUME NEW l \in 0..n PROVE End[l] \in Nat /\ End[l] + Header < End[n + 1]
    <3>1. CASE l = n
      BY <3>1, <2>1, <2>6
    <3>2. CASE l # n
      <4>1. l \in 0..(n - 1)
        BY <3>2
      <4>2. End[l] \in Nat /\ End[l] + Header < End[n]
        BY <4>1, <2>1
      <4> QED
        BY <4>2, <2>1, <2>2, <2>4, <2>5
    <3> QED
      BY <3>1, <3>2
  <2> QED
    BY <2>1, <2>6, <2>7
<1> HIDE DEF good
<1>3. \A n \in Nat : n \in good
  BY <1>1, <1>2, NatIn
<1>4. \A n \in 0..Messages : Good(n)
  BY <1>3 DEF good
<1> QED
  BY <1>4

-------------------------------------------------------------------------------
(* The bytes of the stream from one place to another.                      *)
Stretch(from, to) == [k \in 1..(to - from) |-> from + k]

LEMMA StretchIs ==
  ASSUME NEW a \in Nat, NEW b \in Nat, a <= b
  PROVE  /\ Stretch(a, b) \in Seq(Nat)
         /\ Len(Stretch(a, b)) = b - a
         /\ a # b <=> Stretch(a, b) # <<>>
         /\ \A k \in 1..(b - a) : Stretch(a, b)[k] = a + k
BY DEF Stretch

LEMMA StretchLen ==
  ASSUME NEW a \in Nat, NEW n \in Nat
  PROVE  /\ Stretch(a, a + n) \in Seq(Nat) /\ Len(Stretch(a, a + n)) = n
         /\ n > 0 => Stretch(a, a + n) # <<>>
BY DEF Stretch

LEMMA StretchJoined ==
  ASSUME NEW a \in Nat, NEW b \in Nat, NEW c \in Nat, a <= b, b <= c
  PROVE  Stretch(a, b) \o Stretch(b, c) = Stretch(a, c)
BY DEF Stretch

LEMMA StretchCut ==
  ASSUME NEW a \in Nat, NEW b \in Nat, NEW i \in Int, NEW j \in Int,
         1 <= i, i <= j + 1, a + j <= b
  PROVE  SubSeq(Stretch(a, b), i, j) = Stretch(a + i - 1, a + j)
BY DEF Stretch

LEMMA HeadIs ==
  ASSUME NEW a \in Nat, NEW b \in Nat, a + Header <= b
  PROVE  /\ SubSeq(Stretch(a, b), 1, Header) = Stretch(a, a + Header)
         /\ Stretch(a, a + Header)[1] = a + 1
<1>1. SubSeq(Stretch(a, b), 1, 4) = Stretch(a, a + 4)
  BY DEF Stretch, Header
<1>2. Stretch(a, a + 4)[1] = a + 1
  BY DEF Stretch
<1> QED
  BY <1>1, <1>2 DEF Header

(* No message is empty, and none begins where another one does.            *)
LEMMA BytesIs ==
  ASSUME sent \in Streams, NEW m \in 1..Messages
  PROVE  /\ m - 1 \in 0..Messages /\ m \in 0..Messages
         /\ End[m - 1] \in Nat /\ End[m] \in Nat
         /\ End[m - 1] + Header < End[m] /\ End[m] = End[m - 1] + sent[m].size
         /\ Bytes(m) = Stretch(End[m - 1], End[m])
         /\ Bytes(m)[1] = End[m - 1] + 1
         /\ SubSeq(Bytes(m), 1, Header) = Stretch(End[m - 1], End[m - 1] + Header)
         /\ Stretch(End[m - 1], End[m - 1] + Header)[1] = End[m - 1] + 1
<1>1. /\ m - 1 \in 0..Messages /\ m \in 0..Messages /\ m - 1 \in 0..(m - 1)
  BY FramingAssumption
<1>2. /\ End[m - 1] \in Nat /\ End[m] \in Nat
      /\ End[m - 1] + Header < End[m] /\ End[m] = End[m - 1] + sent[m].size
  BY <1>1, EndGrows, EndIs
<1>3. sent[m].size \in Nat /\ sent[m].size = End[m] - End[m - 1]
  BY <1>2, SentIs
<1>4. Bytes(m) = Stretch(End[m - 1], End[m])
  BY <1>3 DEF Bytes, Stretch
<1>5. 1 \in 1..sent[m].size
  BY <1>2, <1>3 DEF Header
<1>6. Bytes(m)[1] = End[m - 1] + 1
  BY <1>5 DEF Bytes
<1>7. End[m - 1] + Header <= End[m]
  BY <1>2 DEF Header
<1>8. /\ SubSeq(Bytes(m), 1, Header) = Stretch(End[m - 1], End[m - 1] + Header)
      /\ Stretch(End[m - 1], End[m - 1] + Header)[1] = End[m - 1] + 1
  BY <1>2, <1>4, <1>7, HeadIs
<1> QED
  BY <1>1, <1>2, <1>4, <1>6, <1>8

LEMMA BytesAre ==
  ASSUME sent \in Streams, NEW m \in 1..Messages
  PROVE  /\ Bytes(m) = Stretch(End[m - 1], End[m])
         /\ Recognized(Bytes(m)) = m
         /\ \A from \in Nat, to \in Nat :
              End[m - 1] = from /\ from + Header <= to
                => StatedSizes(Stretch(from, to)) = {Stated(m)}
<1>1. /\ m - 1 \in 0..Messages /\ m \in 0..Messages /\ End[m - 1] \in Nat /\ End[m] \in Nat
      /\ End[m - 1] + Header < End[m] /\ Bytes(m) = Stretch(End[m - 1], End[m])
      /\ Bytes(m)[1] = End[m - 1] + 1
  BY BytesIs
<1>3. ASSUME NEW l \in 1..Messages, Bytes(l)[1] = End[m - 1] + 1 PROVE l = m
  <2>1. End[l - 1] \in Nat /\ Bytes(l)[1] = End[l - 1] + 1
    BY BytesIs
  <2>3. End[l - 1] = End[m - 1]
    BY <1>1, <1>3, <2>1
  <2>4. ~(l < m)
    <3> SUFFICES ASSUME l < m PROVE FALSE
      OBVIOUS
    <3>1. CASE l - 1 = m - 1
      BY <3>1
    <3>2. CASE l - 1 < m - 1
      <4>1. m - 1 \in 1..Messages /\ l - 1 \in 0..(m - 1 - 1)
        BY <3>2, FramingAssumption
      <4>2. End[l - 1] + Header < End[m - 1]
        BY <4>1, EndGrows
      <4> QED
        BY <4>2, <2>3, <1>1 DEF Header
    <3> QED
      BY <3>1, <3>2
  <2>5. ~(m < l)
    <3> SUFFICES ASSUME m < l PROVE FALSE
      OBVIOUS
    <3>1. l - 1 \in 1..Messages /\ m - 1 \in 0..(l - 1 - 1)
      BY FramingAssumption
    <3>2. End[m - 1] + Header < End[l - 1]
      BY <3>1, EndGrows
    <3> QED
      BY <3>2, <2>3, <1>1 DEF Header
  <2> QED
    BY <2>4, <2>5
<1>5. Recognized(Bytes(m)) = m
  <2>1. \A l \in 1..Messages : Bytes(m) = Bytes(l) => l = m
    BY <1>1, <1>3
  <2> QED
    BY <2>1 DEF Recognized
<1>6. ASSUME NEW from \in Nat, NEW to \in Nat, End[m - 1] = from, from + Header <= to
      PROVE  StatedSizes(Stretch(from, to)) = {Stated(m)}
  <2> DEFINE head == SubSeq(Stretch(from, to), 1, Header)
             begun == {l \in 1..Messages : head = SubSeq(Bytes(l), 1, Header)}
  <2>1. head = Stretch(from, from + Header)
    BY <1>6, HeadIs
  <2>2. SubSeq(Bytes(m), 1, Header) = Stretch(from, from + Header)
    BY <1>6, BytesIs
  <2>3. head = SubSeq(Bytes(m), 1, Header)
    BY <2>1, <2>2
  <2>4. ASSUME NEW l \in 1..Messages, head = SubSeq(Bytes(l), 1, Header) PROVE l = m
    <3>1. /\ End[l - 1] \in Nat /\ End[l] \in Nat /\ End[l - 1] + Header < End[l]
          /\ Bytes(l) = Stretch(End[l - 1], End[l]) /\ Bytes(l)[1] = End[l - 1] + 1
      BY BytesIs
    <3>2. head = Stretch(End[l - 1], End[l - 1] + Header)
      BY <2>4, BytesIs
    <3>3. head[1] = from + 1 /\ head[1] = End[l - 1] + 1
      BY <1>6, <2>1, <3>2, BytesIs, HeadIs
    <3> QED
      BY <1>3, <1>6, <3>1, <3>3
  <2>5. begun = {m}
    BY <2>3, <2>4
  <2> QED
    BY <2>5 DEF StatedSizes
<1> QED
  BY <1>1, <1>5, <1>6

-------------------------------------------------------------------------------
(* The parser                                                              *)

(* Each message is emitted or being decompressed, once.                    *)
Accounted ==
  /\ emitted \in Seq(1..Messages) /\ IsInjective(emitted)
  /\ unpacking \subseteq {m \in 1..Messages : Compressed(m)}
  /\ Range(emitted) \cap unpacking = {}

(* data follows n bytes of the messages after the first k. *)
Follows(k, n) ==
  /\ End[k] + n <= received
  /\ data = Stretch(End[k] + n, received)

(* The parser is between two messages,                                     *)
Between(k) ==
  /\ buffer = <<>> /\ size = 0 /\ stub = <<>>
  /\ Follows(k, 0)

(* or has read n bytes of one,                                             *)
Inside(k, n) ==
  /\ k < Messages /\ n < sent[k + 1].size
  /\ buffer = Stretch(End[k], End[k] + n) /\ size = sent[k + 1].size /\ stub = <<>>
  /\ Follows(k, n)

(* or keeps n bytes of its header.                                         *)
Stubbed(k, n) ==
  /\ n <= Header
  /\ buffer = <<>> /\ size = 0 /\ stub = Stretch(End[k], End[k] + n)
  /\ data # <<>> => n + Len(data) > Header
  /\ Follows(k, n)

Placed(k) ==
  \/ Between(k)
  \/ \E n \in 1..received : Inside(k, n) \/ Stubbed(k, n)

FramingInv ==
  /\ sent \in Streams
  /\ received \in Nat /\ received <= Total
  /\ Accounted
  /\ failed \in BOOLEAN
  /\ IF failed THEN data = <<>>
     ELSE \E k \in 0..Messages : Range(emitted) \cup unpacking = 1..k /\ Placed(k)

-------------------------------------------------------------------------------
(* The attempt                                                             *)

(* How many of the first i steps are commands.                             *)
Asked(all, i) == Cardinality({j \in 1..i : all[j] # "work"})

(* The messages that count as heard. *)
Heard == IF failed THEN Nat ELSE Range(emitted)

AttemptType ==
  [stage : {"opening", "asking", "working", "done"}, untried : SUBSET {4, 6},
   socket : {"opening", "open", "ended", "closed"}, timedOut : BOOLEAN,
   todo : Seq(Steps), asked : Nat, refused : BOOLEAN,
   calls : {<<>>, <<"ok">>, <<"error">>}, thrown : BOOLEAN]

(* The attempt a, which heard h, is at the i-th step of its conversation,  *)
(* or over.                                                                *)
UnderWay(all, i, a) ==
  /\ a.calls = <<>> /\ a.todo = SubSeq(all, i, Len(all))
  /\ a.socket \in {"open", "closed"} /\ a.asked = Asked(all, i)

Attempts(all, i, a, h) ==
  /\ a \in AttemptType
  /\ CASE a.stage = "opening" ->
            a.calls = <<>> /\ a.todo = all /\ a.socket = "opening"
       [] a.stage = "asking" -> UnderWay(all, i, a) /\ all[i] # "work"
       [] a.stage = "working" -> UnderWay(all, i, a) /\ 1..a.asked \subseteq h
       [] OTHER ->
            \/ a.calls = <<"error">> /\ a.socket \in {"ended", "closed"}
            \/ /\ a.calls = <<"ok">> /\ a.socket # "opening"
               /\ a.todo = <<>> /\ ~a.refused /\ 1..a.asked \subseteq h

(* What the proof needs of a conversation: the command that goes on when   *)
(* it fails is followed by another command.                                *)
IsExchange(all) ==
  /\ all \in Seq(Steps) /\ all # <<>> /\ all[1] = "checked"
  /\ \A i \in 1..Len(all) :
       all[i] = "careless" => i < Len(all) /\ all[i + 1] \in {"checked", "unchecked"}

AttemptInv ==
  \E mechanism \in Mechanisms : \E steps \in Conversations[mechanism] :
    /\ \A m \in 1..Messages : m <= Commands(Exchange(steps)) => ~Compressed(m)
    /\ \E i \in 1..Len(Exchange(steps)) : Attempts(Exchange(steps), i, attempt, Heard)

HandshakeInv == FramingInv /\ AttemptInv

-------------------------------------------------------------------------------
(* Sequences without repetitions                                           *)

LEMMA AppendOnce ==
  ASSUME NEW S, NEW q \in Seq(S), IsInjective(q), NEW x \in S, x \notin Range(q)
  PROVE  /\ Append(q, x) \in Seq(S) /\ IsInjective(Append(q, x))
         /\ Range(Append(q, x)) = Range(q) \cup {x}
         /\ Last(Append(q, x)) = x /\ Len(Append(q, x)) = Len(q) + 1
<1> DEFINE r == Append(q, x)
<1>1. /\ Len(q) \in Nat /\ DOMAIN q = 1..Len(q)
      /\ r \in Seq(S) /\ DOMAIN r = 1..(Len(q) + 1) /\ Len(r) = Len(q) + 1
      /\ r[Len(q) + 1] = x /\ \A i \in 1..Len(q) : r[i] = q[i]
  OBVIOUS
<1> HIDE DEF r
<1>2. \A i \in DOMAIN q : q[i] # x
  BY DEF Range
<1>3. IsInjective(r)
  <2>1. SUFFICES ASSUME NEW i \in DOMAIN r, NEW j \in DOMAIN r, r[i] = r[j]
                 PROVE  i = j
    BY DEF IsInjective
  <2>2. CASE i = Len(q) + 1 \/ j = Len(q) + 1
    BY <1>1, <1>2, <2>1, <2>2
  <2>3. CASE i \in DOMAIN q /\ j \in DOMAIN q
    BY <1>1, <2>1, <2>3 DEF IsInjective
  <2> QED
    BY <1>1, <2>2, <2>3
<1>4. Range(r) = Range(q) \cup {x}
  <2>1. Len(q) + 1 \in DOMAIN r /\ DOMAIN q \subseteq DOMAIN r
        /\ \A i \in DOMAIN r : i \in DOMAIN q \/ i = Len(q) + 1
    BY <1>1
  <2> QED
    BY <1>1, <2>1 DEF Range
<1> QED
  BY <1>1, <1>3, <1>4 DEF r, Last

LEMMA CountedOnce ==
  ASSUME NEW S, NEW q \in Seq(S), IsInjective(q)
  PROVE  Cardinality(Range(q)) = Len(q)
<1>1. Len(q) \in Nat /\ DOMAIN q = 1..Len(q) /\ q \in [1..Len(q) -> Range(q)]
  BY DEF Range
<1>2. q \in Bijection(1..Len(q), Range(q))
  BY <1>1 DEF Bijection, Injection, Surjection, Range
<1> QED
  BY <1>1, <1>2, FS_CountingElements DEF ExistsBijection

-------------------------------------------------------------------------------
(* Every step of the parser preserves its invariant                        *)

LEMMA EndStays ==
  ASSUME sent' = sent
  PROVE  /\ End' = End /\ Total' = Total
         /\ Streams' = Streams
         /\ \A m : Compressed(m)' = Compressed(m)
BY DEF End, Total, Streams, Compressed

LEMMA EndBelow ==
  ASSUME FramingInv, NEW k \in 0..Messages
  PROVE  /\ End[k] \in Nat
         /\ End[k] < received => k < Messages
         /\ k < Messages =>
              /\ k + 1 \in 1..Messages /\ k + 1 \in 0..Messages
              /\ sent[k + 1].size \in Nat /\ Header < sent[k + 1].size
              /\ sent[k + 1].size < MaxSize
              /\ End[k + 1] = End[k] + sent[k + 1].size
              /\ Bytes(k + 1) = Stretch(End[k], End[k] + sent[k + 1].size)
              /\ Recognized(Bytes(k + 1)) = k + 1
<1>1. sent \in Streams /\ received \in Nat /\ received <= End[Messages]
  BY DEF FramingInv, Total
<1>2. End[k] \in Nat
  BY <1>1, EndGrows
<1>3. End[k] < received => k < Messages
  BY <1>1, <1>2, FramingAssumption
<1>4. ASSUME k < Messages
      PROVE  /\ k + 1 \in 1..Messages /\ k + 1 \in 0..Messages
             /\ sent[k + 1].size \in Nat /\ Header < sent[k + 1].size
             /\ sent[k + 1].size < MaxSize
             /\ End[k + 1] = End[k] + sent[k + 1].size
             /\ Bytes(k + 1) = Stretch(End[k], End[k] + sent[k + 1].size)
             /\ Recognized(Bytes(k + 1)) = k + 1
  <2>1. k + 1 \in 1..Messages /\ k + 1 \in 0..Messages /\ k + 1 - 1 = k
    BY <1>4, FramingAssumption
  <2>2. /\ End[k + 1] = End[k] + sent[k + 1].size
        /\ Bytes(k + 1) = Stretch(End[k], End[k + 1])
        /\ Recognized(Bytes(k + 1)) = k + 1
    BY <1>1, <2>1, BytesIs, BytesAre
  <2>3. /\ sent[k + 1].size \in Nat /\ Header < sent[k + 1].size
        /\ sent[k + 1].size < MaxSize
    BY <1>1, <2>1, SentIs
  <2> QED
    BY <2>1, <2>2, <2>3
<1> QED
  BY <1>2, <1>3, <1>4

LEMMA Emits ==
  ASSUME Accounted, NEW m \in 1..Messages, m \notin Range(emitted)
  PROVE  /\ Append(emitted, m) \in Seq(1..Messages)
         /\ IsInjective(Append(emitted, m))
         /\ Range(Append(emitted, m)) = Range(emitted) \cup {m}
         /\ Last(Append(emitted, m)) = m /\ Len(Append(emitted, m)) > Len(emitted)
<1> DEFINE numbers == 1..Messages
<1>1. emitted \in Seq(numbers) /\ m \in numbers /\ IsInjective(emitted)
  BY DEF Accounted
<1>2. Append(emitted, m) \in Seq(1..Messages) /\ Len(emitted) \in Nat
  BY <1>1
<1> HIDE DEF numbers
<1>3. /\ IsInjective(Append(emitted, m))
      /\ Range(Append(emitted, m)) = Range(emitted) \cup {m}
      /\ Last(Append(emitted, m)) = m /\ Len(Append(emitted, m)) = Len(emitted) + 1
  BY <1>1, AppendOnce
<1> QED
  BY <1>2, <1>3

(* The message that was read is the one after those cut out so far.        *)
LEMMA CutOut ==
  ASSUME FramingInv, NEW k \in 0..Messages, k < Messages,
         Range(emitted) \cup unpacking = 1..k,
         ProcessMessage(Bytes(k + 1)), sent' = sent
  PROVE  Accounted' /\ (Range(emitted) \cup unpacking)' = 1..(k + 1)
<1>1. k + 1 \in 1..Messages /\ Recognized(Bytes(k + 1)) = k + 1
  BY EndBelow
<1>2. k + 1 \notin Range(emitted) /\ k + 1 \notin unpacking /\ 1..(k + 1) = 1..k \cup {k + 1}
  <2>1. k + 1 \notin 1..k /\ 1..(k + 1) = 1..k \cup {k + 1}
    OBVIOUS
  <2> QED
    BY <2>1
<1>3. Accounted
  BY DEF FramingInv
<1>4. CASE Compressed(k + 1)
  <2>1. unpacking' = unpacking \cup {k + 1} /\ emitted' = emitted
    BY <1>1, <1>4 DEF ProcessMessage
  <2>2. \A m : Compressed(m)' = Compressed(m)
    BY EndStays
  <2> QED
    BY <1>1, <1>2, <1>3, <1>4, <2>1, <2>2 DEF Accounted
<1>5. CASE ~Compressed(k + 1)
  <2>1. emitted' = Append(emitted, k + 1) /\ unpacking' = unpacking
    BY <1>1, <1>5 DEF ProcessMessage
  <2>2. \A m : Compressed(m)' = Compressed(m)
    BY EndStays
  <2>3. /\ emitted' \in Seq(1..Messages) /\ IsInjective(emitted')
        /\ Range(emitted') = Range(emitted) \cup {k + 1}
    <3>3. /\ Append(emitted, k + 1) \in Seq(1..Messages)
          /\ IsInjective(Append(emitted, k + 1))
          /\ Range(Append(emitted, k + 1)) = Range(emitted) \cup {k + 1}
      BY <1>1, <1>2, <1>3, Emits
    <3> QED
      BY <2>1, <3>3
  <2> QED
    BY <1>2, <1>3, <2>1, <2>2, <2>3 DEF Accounted
<1> QED
  BY <1>4, <1>5

LEMMA Stands ==
  ASSUME FramingInv, sent' = sent, received' \in Nat, received' <= Total,
         Accounted', failed' = FALSE, NEW k \in 0..Messages,
         (Range(emitted) \cup unpacking)' = 1..k, Placed(k)'
  PROVE  FramingInv'
BY EndStays DEF FramingInv

LEMMA ReceiveKeeps ==
  ASSUME FramingInv, ~SplitHeaders, NEW n \in Nat \ {0}, Receive(n)
  PROVE  FramingInv'
<1>1. PICK k \in 0..Messages : Range(emitted) \cup unpacking = 1..k /\ Placed(k)
  BY DEF FramingInv, Receive
<1>2. End' = End /\ Total' = Total /\ \A m : Compressed(m)' = Compressed(m)
  BY EndStays DEF Receive
<1>3. End[k] \in Nat /\ received \in Nat /\ received' = received + n
  BY EndBelow DEF FramingInv, Receive
<1>4. data' = Stretch(received, received + n) /\ Len(data') = n /\ data' # <<>>
  <2>1. data' = Stretch(received, received + n)
    BY <1>3 DEF Receive, Stretch
  <2> QED
    BY <1>3, <2>1, StretchIs
<1>5. ASSUME NEW i \in 0..received, Follows(k, i)
      PROVE  End[k] + i = received /\ Follows(k, i)'
  <2>1. End[k] + i = received
    <3>1. Stretch(End[k] + i, received) = <<>> /\ End[k] + i <= received
      BY <1>5 DEF Follows, Receive
    <3>2. End[k] + i \in Nat
      BY <1>3
    <3> QED
      BY <1>3, <3>1, <3>2, StretchIs
  <2> QED
    BY <1>2, <1>3, <1>4, <2>1 DEF Follows
<1>6. Placed(k)'
  <2>1. CASE Between(k)
    <3>1. Follows(k, 0)'
      BY <1>3, <1>5, <2>1 DEF Between
    <3> QED
      BY <2>1, <3>1 DEF Between, Placed, Receive, parser
  <2>2. ASSUME NEW i \in 1..received, Inside(k, i) PROVE Placed(k)'
    <3>1. Follows(k, i)'
      BY <1>3, <1>5, <2>2 DEF Inside
    <3>2. Inside(k, i)' /\ i \in 1..received'
      BY <1>2, <1>3, <2>2, <3>1 DEF Inside, Receive, parser
    <3> QED
      BY <3>2 DEF Placed
  <2>3. ASSUME NEW i \in 1..received, Stubbed(k, i) PROVE Placed(k)'
    <3>1. Follows(k, i)'
      BY <1>3, <1>5, <2>3 DEF Stubbed
    <3>2. Len(stub) = i /\ stub # <<>>
      <4>1. i \in Nat /\ i > 0 /\ stub = Stretch(End[k], End[k] + i)
        BY <1>3, <2>3 DEF Stubbed
      <4> QED
        BY <1>3, <4>1, StretchLen, Zenon
    <3>3. i + Len(data') > Header
      BY <1>4, <3>2 DEF Receive
    <3>4. Stubbed(k, i)' /\ i \in 1..received'
      BY <1>2, <1>3, <2>3, <3>1, <3>3 DEF Stubbed, Receive, parser
    <3> QED
      BY <3>4 DEF Placed
  <2> QED
    BY <1>1, <2>1, <2>2, <2>3 DEF Placed
<1>7. /\ sent' = sent /\ failed' = FALSE /\ Accounted'
      /\ (Range(emitted) \cup unpacking)' = 1..k
  BY <1>1, <1>2 DEF Receive, FramingInv, Accounted
<1>8. received' \in Nat /\ received' <= Total
  BY <1>3 DEF Receive
<1> QED
  BY <1>6, <1>7, <1>8, Stands

LEMMA FollowsIs ==
  ASSUME FramingInv, NEW k \in 0..Messages, NEW n \in Nat, Follows(k, n)
  PROVE  /\ received \in Nat /\ End[k] \in Nat /\ End[k] + n \in Nat
         /\ End[k] + n <= received
         /\ data = Stretch(End[k] + n, received)
         /\ data \in Seq(Nat) /\ Len(data) = received - (End[k] + n)
         /\ data # <<>> => End[k] + n < received /\ Len(data) > 0
         /\ Stretch(received, received) = <<>>
         /\ Stretch(End[k], End[k] + n) \in Seq(Nat)
         /\ Len(Stretch(End[k], End[k] + n)) = n
<1>1. /\ received \in Nat /\ End[k] \in Nat /\ End[k] + n \in Nat
      /\ End[k] + n <= received /\ data = Stretch(End[k] + n, received)
  BY EndBelow DEF FramingInv, Follows
<1>2. /\ Stretch(received, received) = <<>>
      /\ data \in Seq(Nat) /\ Len(data) = received - (End[k] + n)
      /\ data # <<>> => End[k] + n # received
  <2> DEFINE at == End[k] + n
  <2>1. at \in Nat /\ received \in Nat /\ at <= received /\ data = Stretch(at, received)
    BY <1>1
  <2> HIDE DEF at
  <2>2. /\ data \in Seq(Nat) /\ Len(data) = received - at
        /\ data # <<>> => at # received
    BY <2>1, StretchIs
  <2>3. Stretch(received, received) = <<>>
    BY <2>1, StretchIs
  <2> QED
    BY <2>2, <2>3 DEF at
<1>3. /\ Stretch(End[k], End[k] + n) \in Seq(Nat)
      /\ Len(Stretch(End[k], End[k] + n)) = n
  BY <1>1, StretchLen
<1> QED
  BY <1>1, <1>2, <1>3

LEMMA WhereItStands ==
  ASSUME FramingInv, data # <<>>
  PROVE  /\ failed = FALSE /\ Accounted /\ received \in Nat /\ received <= Total
         /\ \E k \in 0..Messages : Range(emitted) \cup unpacking = 1..k /\ Placed(k)
BY DEF FramingInv

LEMMA ContinueKeeps ==
  ASSUME FramingInv, data # <<>>, Continue
  PROVE  FramingInv'
<1>1. PICK k \in 0..Messages : Range(emitted) \cup unpacking = 1..k /\ Placed(k)
  BY WhereItStands
<1>2. PICK n \in 1..received : Inside(k, n)
  BY <1>1 DEF Placed, Between, Stubbed, Continue
<1>3. End' = End /\ \A m : Compressed(m)' = Compressed(m)
  BY EndStays DEF Continue
<1>4. n \in Nat /\ n > 0 /\ Follows(k, n)
  BY <1>2, WhereItStands DEF Inside
<1>5. /\ received \in Nat /\ End[k] \in Nat /\ End[k] + n \in Nat
      /\ End[k] + n <= received
      /\ data = Stretch(End[k] + n, received)
      /\ Len(data) = received - (End[k] + n)
      /\ Stretch(received, received) = <<>> /\ Len(buffer) = n
  BY <1>2, <1>4, FollowsIs DEF Inside
<1> DEFINE l == received - End[k]
<1>6. l \in 1..received /\ End[k] + l = received /\ End[k] <= End[k] + n
  BY <1>4, <1>5
<1>7. l < sent[k + 1].size
  <2>1. k < Messages /\ size = sent[k + 1].size
    BY <1>2 DEF Inside
  <2>2. size \in Nat
    BY <2>1, EndBelow
  <2>3. size - n > received - (End[k] + n)
    BY <1>5 DEF Continue
  <2> QED
    <3>1. size > received - End[k]
      <4>1. /\ n \in Nat /\ received \in Nat /\ End[k] \in Nat
        BY <1>4, <1>5
      <4>2. (received - (End[k] + n)) + n = received - End[k]
        BY <4>1
      <4> QED
        BY <2>2, <2>3, <4>1, <4>2
    <3> QED
      BY <2>1, <3>1
<1>8. buffer' = Stretch(End[k], End[k] + l)
  <2>1. buffer = Stretch(End[k], End[k] + n)
    BY <1>2 DEF Inside
  <2>2. buffer' = buffer \o data
    BY DEF Continue
  <2>3. Stretch(End[k], End[k] + n) \o Stretch(End[k] + n, received) = Stretch(End[k], received)
    BY <1>5, <1>6, StretchJoined
  <2> QED
    BY <1>5, <1>6, <2>1, <2>2, <2>3
<1>9. Follows(k, l)'
  <2>1. End' = End /\ sent' = sent /\ received' = received /\ data' = <<>>
    BY <1>3 DEF Continue
  <2>2. l' = l
    BY <2>1
  <2> HIDE DEF l
  <2> QED
    BY <1>5, <1>6, <2>1, <2>2 DEF Follows
<1>10. Inside(k, l)'
  <2>1. /\ End' = End /\ sent' = sent /\ received' = received /\ size' = size
        /\ stub' = stub
    BY <1>3 DEF Continue
  <2>2. l' = l
    BY <2>1
  <2> HIDE DEF l
  <2> QED
    BY <1>2, <1>7, <1>8, <1>9, <2>1, <2>2 DEF Inside
<1>11. Placed(k)'
  <2>1. received' = received /\ l' = l
    BY <1>3 DEF Continue
  <2> HIDE DEF l
  <2> QED
    BY <1>6, <1>10, <2>1 DEF Placed
<1>12. /\ sent' = sent /\ failed' = FALSE /\ Accounted'
       /\ (Range(emitted) \cup unpacking)' = 1..k
       /\ received' \in Nat /\ received' <= Total
  BY <1>1, <1>3, WhereItStands DEF Continue, Accounted
<1> QED
  BY <1>11, <1>12, Stands

LEMMA CompleteKeeps ==
  ASSUME FramingInv, data # <<>>, Complete
  PROVE  FramingInv'
<1>1. PICK k \in 0..Messages : Range(emitted) \cup unpacking = 1..k /\ Placed(k)
  BY WhereItStands
<1>2. PICK n \in 1..received : Inside(k, n)
  BY <1>1 DEF Placed, Between, Stubbed, Complete
<1>3. End' = End
  BY EndStays DEF Complete
<1>4. n \in Nat /\ n > 0 /\ Follows(k, n) /\ k < Messages
  BY <1>2, WhereItStands DEF Inside
<1>5. /\ received \in Nat /\ End[k] \in Nat /\ End[k] + n \in Nat
      /\ End[k] + n <= received
      /\ data = Stretch(End[k] + n, received)
      /\ Len(data) = received - (End[k] + n) /\ Len(buffer) = n
  BY <1>2, <1>4, FollowsIs DEF Inside
<1>6. /\ k + 1 \in 0..Messages /\ sent[k + 1].size \in Nat /\ n < sent[k + 1].size
      /\ size = sent[k + 1].size /\ End[k + 1] = End[k] + size
      /\ Bytes(k + 1) = Stretch(End[k], End[k] + size)
  BY <1>2, <1>4, EndBelow DEF Inside
<1> DEFINE missing == size - Len(buffer)
           at == End[k] + n
<1>7. /\ missing = size - n /\ missing <= received - at /\ at = End[k] + n
  BY <1>5 DEF Complete
<1>8. /\ data = Stretch(at, received) /\ Len(data) = received - at
      /\ data' = SubSeq(data, missing + 1, Len(data))
      /\ ProcessMessage(buffer \o SubSeq(data, 1, missing))
  BY <1>5 DEF Complete
<1> HIDE DEF missing, at
<1>9. /\ buffer \o SubSeq(data, 1, missing) = Bytes(k + 1)
      /\ data' = Stretch(End[k + 1], received) /\ End[k + 1] <= received
  <2>0. /\ received \in Nat /\ End[k] \in Nat /\ n \in Nat /\ size \in Nat
        /\ n < size /\ at <= received
    BY <1>4, <1>5, <1>6, <1>7
  <2>1. /\ missing \in Nat /\ missing > 0 /\ at \in Nat /\ End[k] <= at
        /\ at + missing = End[k] + size /\ End[k] + size \in Nat
        /\ at <= at + missing /\ at + missing <= received
    <3>1. missing \in Nat /\ missing > 0
      BY <1>7, <2>0
    <3>2. at \in Nat /\ End[k] <= at
      BY <1>7, <2>0
    <3>3. at + missing = End[k] + size
      <4>1. \A e \in Nat : (e + n) + (size - n) = e + size
        BY <2>0
      <4> QED
        BY <1>7, <2>0, <4>1
    <3>4. End[k] + size \in Nat
      BY <2>0
    <3>5. at <= at + missing
      BY <3>1, <3>2
    <3>6. at + missing <= received
      <4>1. missing <= received - at
        BY <1>7
      <4> QED
        BY <2>0, <3>1, <3>2, <4>1
    <3> QED
      BY <3>1, <3>2, <3>3, <3>4, <3>5, <3>6
  <2>2. SubSeq(data, 1, missing) = Stretch(at, at + missing)
    BY <1>8, <2>0, <2>1 DEF Stretch
  <2>3. SubSeq(data, missing + 1, Len(data)) = Stretch(at + missing, received)
    BY <1>8, <2>0, <2>1 DEF Stretch
  <2>4. buffer = Stretch(End[k], at) /\ at + missing \in Nat
    BY <1>2, <1>7, <2>1 DEF Inside
  <2>5. Stretch(End[k], at) \o Stretch(at, at + missing) = Stretch(End[k], at + missing)
    BY <2>0, <2>1, <2>4, StretchJoined
  <2> QED
    BY <1>6, <1>8, <2>1, <2>2, <2>3, <2>4, <2>5
<1>10. ProcessMessage(Bytes(k + 1)) /\ sent' = sent /\ received' = received /\ failed' = failed
  BY <1>8, <1>9 DEF Complete
<1>11. Accounted' /\ (Range(emitted) \cup unpacking)' = 1..(k + 1)
  BY <1>1, <1>4, <1>10, CutOut
<1>12. Placed(k + 1)'
  <2>1. Follows(k + 1, 0)'
    <3>1. End'[k + 1] = End[k + 1] /\ received' = received
      BY <1>3, <1>10
    <3>2. End[k + 1] \in Nat
      BY <1>5, <1>6
    <3>3. End[k + 1] + 0 = End[k + 1]
      BY <3>2
    <3> QED
      BY <1>9, <3>1, <3>3, Zenon DEF Follows
  <2> QED
    BY <2>1 DEF Placed, Between, Complete, Cleared
<1> QED
  BY <1>6, <1>10, <1>11, <1>12, WhereItStands, Stands

LEMMA UnstubKeeps ==
  ASSUME FramingInv, data # <<>>, Unstub
  PROVE  FramingInv'
<1>1. PICK k \in 0..Messages : Range(emitted) \cup unpacking = 1..k /\ Placed(k)
  BY WhereItStands
<1>2. PICK n \in 1..received : Stubbed(k, n)
  BY <1>1 DEF Placed, Between, Inside, Unstub
<1>3. End' = End /\ \A m : Compressed(m)' = Compressed(m)
  BY EndStays DEF Unstub
<1>4. n \in Nat /\ Follows(k, n)
  BY <1>2, WhereItStands DEF Stubbed
<1>5. /\ received \in Nat /\ End[k] \in Nat /\ End[k] + n \in Nat
      /\ End[k] + n <= received /\ data = Stretch(End[k] + n, received)
  BY <1>4, FollowsIs
<1>6. data' = Stretch(End[k], received)
  <2>1. data' = Stretch(End[k], End[k] + n) \o Stretch(End[k] + n, received)
    BY <1>2, <1>5 DEF Stubbed, Unstub
  <2>2. End[k] <= End[k] + n
    BY <1>4, <1>5
  <2> QED
    BY <1>5, <2>1, <2>2, StretchJoined
<1>7. Placed(k)'
  <2>1. Follows(k, 0)'
    <3>1. End'[k] = End[k] /\ received' = received
      BY <1>3 DEF Unstub
    <3>2. End[k] + 0 = End[k] /\ End[k] <= received
      BY <1>4, <1>5
    <3> QED
      BY <1>6, <3>1, <3>2, Zenon DEF Follows
  <2> QED
    BY <2>1 DEF Placed, Between, Unstub, Cleared
<1>8. /\ sent' = sent /\ failed' = FALSE /\ Accounted'
      /\ (Range(emitted) \cup unpacking)' = 1..k
      /\ received' \in Nat /\ received' <= Total
  BY <1>1, <1>3, WhereItStands DEF Unstub, Accounted
<1> QED
  BY <1>7, <1>8, Stands

LEMMA TooShortKeeps ==
  ASSUME FramingInv, data # <<>>, TooShort
  PROVE  FramingInv'
<1>1. PICK k \in 0..Messages : Range(emitted) \cup unpacking = 1..k /\ Placed(k)
  BY WhereItStands
<1>2. End' = End /\ \A m : Compressed(m)' = Compressed(m)
  BY EndStays DEF TooShort
<1>3. ASSUME NEW n \in 1..received, Inside(k, n) PROVE FALSE
  BY <1>3, EndBelow DEF Inside, TooShort, Header
<1>4. ASSUME NEW n \in 1..received, Stubbed(k, n) PROVE FALSE
  <2>1. n \in Nat /\ Follows(k, n) /\ n + Len(data) > Header
    BY <1>4, WhereItStands DEF Stubbed
  <2>2. Len(stub) = n
    BY <1>4, <2>1, FollowsIs DEF Stubbed
  <2>3. Len(data) \in Nat
    BY <2>1, FollowsIs
  <2> QED
    BY <2>1, <2>2, <2>3 DEF TooShort, Header
<1>5. Between(k)
  BY <1>1, <1>3, <1>4 DEF Placed
<1>6. /\ received \in Nat /\ End[k] \in Nat /\ End[k] < received
      /\ data = Stretch(End[k], received) /\ Len(data) = received - End[k]
      /\ Stretch(received, received) = <<>>
  BY <1>5, FollowsIs DEF Between
<1> DEFINE n == received - End[k]
<1>7. n \in 1..received /\ End[k] + n = received /\ n <= Header
  BY <1>5, <1>6 DEF Between, TooShort, Header
<1>8. stub' = Stretch(End[k], End[k] + n) /\ data' = <<>>
  BY <1>5, <1>6, <1>7 DEF Between, TooShort, KeptStub
<1>9. Follows(k, n)'
  BY <1>2, <1>6, <1>7, <1>8 DEF Follows, TooShort
<1>10. Stubbed(k, n)'
  BY <1>2, <1>5, <1>7, <1>8, <1>9 DEF Stubbed, Between, TooShort
<1>11. Placed(k)'
  <2>1. received' = received /\ n' = n
    BY <1>2 DEF TooShort
  <2> HIDE DEF n
  <2> QED
    BY <1>7, <1>10, <2>1 DEF Placed
<1>12. /\ sent' = sent /\ failed' = FALSE /\ Accounted'
       /\ (Range(emitted) \cup unpacking)' = 1..k
       /\ received' \in Nat /\ received' <= Total
  BY <1>1, <1>2, WhereItStands DEF TooShort, Accounted
<1> QED
  BY <1>11, <1>12, Stands

LEMMA Fails ==
  ASSUME FramingInv, sent' = sent, received' = received, Accounted',
         failed' = TRUE, data' = <<>>
  PROVE  FramingInv'
BY EndStays DEF FramingInv

LEMMA BeginKeeps ==
  ASSUME FramingInv, data # <<>>, NEW stated \in -1..(MaxSize + 1), Begin(stated)
  PROVE  FramingInv'
<1>1. PICK k \in 0..Messages : Range(emitted) \cup unpacking = 1..k /\ Placed(k)
  BY WhereItStands
<1>2. End' = End /\ (\A m : Compressed(m)' = Compressed(m)) /\ Total' = Total
      /\ sent' = sent /\ received' = received
  BY EndStays DEF Begin
<1>3. ASSUME NEW n \in 1..received, Inside(k, n) PROVE FALSE
  BY <1>3, EndBelow DEF Inside, Begin, Header
<1>4. ASSUME NEW n \in 1..received, Stubbed(k, n) PROVE FALSE
  <2>1. n \in Nat /\ n > 0 /\ Follows(k, n)
    BY <1>4, WhereItStands DEF Stubbed
  <2>2. Len(stub) = n
    BY <1>4, <2>1, FollowsIs DEF Stubbed
  <2> QED
    BY <2>1, <2>2 DEF Begin
<1>5. Between(k)
  BY <1>1, <1>3, <1>4 DEF Placed
<1>6. /\ received \in Nat /\ End[k] \in Nat /\ End[k] < received
      /\ data = Stretch(End[k], received) /\ Len(data) = received - End[k]
      /\ Stretch(received, received) = <<>> /\ End[k] + Header <= received
  <2>1. /\ received \in Nat /\ End[k] \in Nat /\ End[k] < received
        /\ data = Stretch(End[k], received) /\ Len(data) = received - End[k]
        /\ Stretch(received, received) = <<>>
    BY <1>5, FollowsIs DEF Between
  <2> QED
    BY <2>1 DEF Begin, Header
<1>7. /\ k < Messages /\ k + 1 \in 1..Messages /\ k + 1 \in 0..Messages
      /\ sent[k + 1].size \in Nat /\ Header < sent[k + 1].size
      /\ sent[k + 1].size < MaxSize
      /\ End[k + 1] = End[k] + sent[k + 1].size
      /\ Bytes(k + 1) = Stretch(End[k], End[k] + sent[k + 1].size)
  BY <1>6, EndBelow
<1>8. stated = Stated(k + 1)
  <2>1. k + 1 - 1 = k /\ sent \in Streams
    BY DEF FramingInv
  <2>2. StatedSizes(data) = {Stated(k + 1)}
    BY <1>6, <1>7, <2>1, BytesAre
  <2> QED
    BY <2>2 DEF Begin
<1>9. stated \in {Header, MaxSize + 1, sent[k + 1].size} /\ MaxSize \in Nat /\ Header \in Nat
  BY <1>8, FramingAssumption DEF Stated, Header
<1>10. ASSUME UNCHANGED <<unpacking, emitted>>
       PROVE  Accounted' /\ (Range(emitted) \cup unpacking)' = 1..k
  BY <1>1, <1>2, <1>10, WhereItStands DEF Accounted
<1>11. failed = FALSE /\ received <= Total
  BY WhereItStands
<1>12. CASE failed' = TRUE /\ data' = <<>> /\ UNCHANGED <<unpacking, emitted>>
  BY <1>2, <1>10, <1>12, Fails
<1>13. CASE /\ stated > Header /\ stated < MaxSize /\ stated > Len(data)
            /\ buffer' = data /\ size' = stated /\ stub' = <<>> /\ data' = <<>>
            /\ UNCHANGED <<unpacking, emitted, failed>>
  <2> DEFINE n == received - End[k]
  <2>1. n \in 1..received /\ End[k] + n = received /\ End[k] + n <= received
    BY <1>6
  <2>2. stated = sent[k + 1].size /\ n < sent[k + 1].size
    BY <1>6, <1>9, <1>13
  <2>3. buffer' = Stretch(End[k], End[k] + n)
    BY <1>6, <1>13, <2>1
  <2>4. Follows(k, n)'
    BY <1>2, <1>6, <1>13, <2>1 DEF Follows
  <2>5. Inside(k, n)'
    BY <1>2, <1>7, <1>13, <2>2, <2>3, <2>4 DEF Inside
  <2>6. Placed(k)'
    <3>1. n' = n
      BY <1>2
    <3> HIDE DEF n
    <3> QED
      BY <1>2, <2>1, <2>5, <3>1 DEF Placed
  <2> QED
    BY <1>2, <1>6, <1>10, <1>11, <1>13, <2>6, Stands
<1>14. ASSUME stated <= Len(data), data' = SubSeq(data, stated + 1, Len(data)),
              stated = sent[k + 1].size, Cleared,
              ProcessMessage(SubSeq(data, 1, stated)), failed' = failed
       PROVE  FramingInv'
  <2>1. /\ stated \in Nat /\ End[k] + stated <= received /\ End[k] + stated = End[k + 1]
        /\ Header < stated
    BY <1>6, <1>7, <1>14
  <2>2. SubSeq(data, 1, stated) = Stretch(End[k], End[k] + stated)
    BY <1>6, <2>1 DEF Stretch
  <2>3. data' = Stretch(End[k] + stated, received)
    <3>1. data' = SubSeq(data, stated + 1, Len(data))
      BY <1>14
    <3>2. /\ received \in Nat /\ End[k] \in Nat /\ data = Stretch(End[k], received)
          /\ Len(data) = received - End[k]
      BY <1>6
    <3> DEFINE first == stated + 1
               last == received - End[k]
               from == End[k]
    <3>3. SubSeq(data, stated + 1, Len(data)) = Stretch(End[k] + stated, received)
      <4>1. /\ first \in Int /\ last \in Int /\ from \in Nat /\ received \in Nat
            /\ 1 <= first
        BY <2>1, <3>2
      <4>2. first <= last + 1 /\ from + last = received
        BY <2>1, <3>2
      <4>3. from + first - 1 = End[k] + stated
        BY <2>1, <3>2
      <4> HIDE DEF first, last, from
      <4>4. from + last <= received
        BY <4>1, <4>2
      <4>5. SubSeq(Stretch(from, received), first, last)
              = Stretch(from + first - 1, from + last)
        BY ONLY <4>1, <4>2, <4>4, StretchCut
      <4>6. SubSeq(Stretch(from, received), first, last) = Stretch(End[k] + stated, received)
        BY <4>2, <4>3, <4>5
      <4> QED
        BY <3>2, <4>6 DEF first, last, from
    <3> QED
      BY <3>1, <3>3
  <2>4. ProcessMessage(Bytes(k + 1))
    BY <1>7, <1>14, <2>2
  <2>5. Accounted' /\ (Range(emitted) \cup unpacking)' = 1..(k + 1)
    BY <1>1, <1>2, <1>7, <2>4, CutOut
  <2>6. Follows(k + 1, 0)'
    BY <1>2, <1>6, <2>1, <2>3 DEF Follows
  <2>7. Placed(k + 1)'
    BY <1>14, <2>6 DEF Placed, Between, Cleared
  <2> QED
    BY <1>2, <1>6, <1>7, <1>11, <1>14, <2>5, <2>7, Stands
<1>15. CASE /\ stated > Header /\ stated < MaxSize /\ stated = Len(data)
            /\ Cleared /\ data' = <<>> /\ ProcessMessage(data) /\ UNCHANGED failed
  <2>1. stated = sent[k + 1].size
    BY <1>9, <1>15
  <2>2. SubSeq(data, 1, stated) = data /\ SubSeq(data, stated + 1, Len(data)) = <<>>
    <3>1. data \in Seq(Nat)
      BY <1>5, FollowsIs DEF Between
    <3> QED
      BY <1>15, <3>1
  <2>3. /\ stated <= Len(data) /\ data' = SubSeq(data, stated + 1, Len(data))
        /\ ProcessMessage(SubSeq(data, 1, stated)) /\ failed' = failed /\ Cleared
    <3>1. Len(data) \in Nat
      BY <1>6
    <3>2. stated <= Len(data)
      BY <1>15, <3>1
    <3>3. data' = SubSeq(data, stated + 1, Len(data)) /\ failed' = failed /\ Cleared
      BY <1>15, <2>2
    <3>4. ProcessMessage(SubSeq(data, 1, stated))
      BY <1>15, <2>2
    <3> QED
      BY <3>2, <3>3, <3>4
  <2> QED
    BY <1>14, <2>1, <2>3
<1>16. CASE /\ Header < stated /\ stated <= MaxSize
            /\ ~(stated > Header /\ stated < MaxSize) \/ stated < Len(data)
            /\ Cleared /\ data' = SubSeq(data, stated + 1, Len(data))
            /\ ProcessMessage(SubSeq(data, 1, stated)) /\ UNCHANGED failed
  <2>1. stated = sent[k + 1].size /\ stated <= Len(data)
    <3>1. stated = sent[k + 1].size
      BY <1>9, <1>16 DEF Header
    <3>2. stated < Len(data) /\ Len(data) \in Nat /\ stated \in Nat
      BY <1>6, <1>7, <1>16, <3>1
    <3> QED
      BY <3>1, <3>2
  <2> QED
    BY <1>14, <1>16, <2>1
<1> QED
  BY <1>12, <1>13, <1>15, <1>16 DEF Begin

LEMMA DecompressedKeeps ==
  ASSUME FramingInv, NEW m \in unpacking, Decompressed(m)
  PROVE  FramingInv'
<1>1. End' = End /\ (\A l : Compressed(l)' = Compressed(l)) /\ Total' = Total
      /\ sent' = sent /\ received' = received
  BY EndStays DEF Decompressed
<1>2. Accounted /\ m \in 1..Messages /\ m \notin Range(emitted)
  BY DEF FramingInv, Accounted
<1>3. CASE sent[m].kind = "corrupt"
  <2>1. Accounted'
    BY <1>1, <1>2, <1>3 DEF Decompressed, Accounted
  <2> QED
    BY <1>1, <1>3, <2>1, Fails DEF Decompressed
<1>4. CASE sent[m].kind # "corrupt"
  <2>1. emitted' = Append(emitted, m) /\ unpacking' = unpacking \ {m} /\ failed' = failed
    BY <1>4 DEF Decompressed
  <2>2. /\ emitted' \in Seq(1..Messages) /\ IsInjective(emitted')
        /\ Range(emitted') = Range(emitted) \cup {m}
    BY <1>2, <2>1, Emits
  <2>3. Accounted' /\ (Range(emitted) \cup unpacking)' = Range(emitted) \cup unpacking
    BY <1>1, <1>2, <2>1, <2>2 DEF Accounted
  <2>4. CASE failed
    BY <1>1, <2>1, <2>3, <2>4, Fails DEF Decompressed, FramingInv
  <2>5. CASE ~failed
    <3>1. PICK k \in 0..Messages : Range(emitted) \cup unpacking = 1..k /\ Placed(k)
      BY <2>5 DEF FramingInv
    <3>2. Placed(k)'
      BY <1>1, <3>1 DEF Placed, Between, Inside, Stubbed, Follows, Decompressed, parser
    <3>3. failed' = FALSE /\ received' \in Nat /\ received' <= Total
      BY <1>1, <2>1, <2>5 DEF FramingInv
    <3> QED
      BY <1>1, <2>3, <3>1, <3>2, <3>3, Stands
  <2> QED
    BY <2>4, <2>5
<1> QED
  BY <1>3, <1>4

LEMMA FramingKeeps ==
  ASSUME FramingInv, ~SplitHeaders, [Next]_vars
  PROVE  FramingInv'
<1>1. CASE UNCHANGED framingVars
  BY <1>1, EndStays
     DEF framingVars, parser, FramingInv, Accounted, Placed, Between, Inside, Stubbed, Follows
<1>2. ASSUME NEW n \in 1..Total, Arrives(n) PROVE FramingInv'
  <2>1. Total \in Nat
    BY EndGrows, FramingAssumption DEF FramingInv, Total
  <2>2. n \in Nat \ {0} /\ Receive(n)
    BY <1>2, <2>1 DEF Arrives
  <2> QED
    BY <2>2, ReceiveKeeps
<1>3. CASE Parses
  <2>1. data # <<>> /\ Handle
    BY <1>3 DEF Parses, Handle
  <2> QED
    BY <2>1, ContinueKeeps, CompleteKeeps, UnstubKeeps, TooShortKeeps, BeginKeeps DEF Handle
<1>4. ASSUME NEW m \in unpacking, Unpacks(m) PROVE FramingInv'
  BY <1>4, DecompressedKeeps DEF Unpacks
<1> QED
  BY <1>1, <1>2, <1>3, <1>4
     DEF Next, vars, Connected, OpenFails, WorkEnds, SocketCloses, TimesOut

LEMMA FramingStarts == FramingInit => FramingInv
<1> SUFFICES ASSUME FramingInit PROVE FramingInv
  OBVIOUS
<1>1. sent \in Streams /\ End[0] = 0 /\ Total \in Nat /\ 0 \in 0..Messages
  BY EndIs, EndGrows, FramingAssumption DEF FramingInit, Streams, Total
<1>2. Accounted
  BY DEF FramingInit, Accounted, IsInjective, Range
<1>3. Between(0)
  BY <1>1, StretchIs DEF FramingInit, Between, Follows
<1>4. Range(emitted) \cup unpacking = 1..0
  BY DEF FramingInit, Range
<1>5. \E k \in 0..Messages : Range(emitted) \cup unpacking = 1..k /\ Placed(k)
  BY <1>1, <1>3, <1>4 DEF Placed
<1>6. received \in Nat /\ received <= Total /\ failed = FALSE
  BY <1>1 DEF FramingInit
<1> QED
  BY <1>1, <1>2, <1>5, <1>6 DEF FramingInv

LEMMA FramingHolds == ~SplitHeaders => (Spec => []FramingInv)
<1> SUFFICES ASSUME ~SplitHeaders PROVE Spec => []FramingInv
  OBVIOUS
<1>1. Init => FramingInv
  BY FramingStarts DEF Init
<1>2. FramingInv /\ [Next]_vars => FramingInv'
  BY FramingKeeps
<1> QED
  BY <1>1, <1>2, PTL DEF Spec

(* If no chunk ends in a header that an earlier one began: when a chunk    *)
(* has been handled, the messages that have arrived entirely, and no       *)
(* others, were cut out, each once, for every number of messages of every  *)
(* size and every way to cut them into chunks (dataHandler).               *)
THEOREM EveryByte == ~SplitHeaders => (Spec => []EveryByteCounts)
<1>1. FramingInv => EveryByteCounts
  <2> SUFFICES ASSUME FramingInv PROVE EveryByteCounts
    OBVIOUS
  <2>1. Accounted
    BY DEF FramingInv
  <2>2. 0 \notin Range(emitted)
    <3> DEFINE numbers == 1..Messages
    <3>0. emitted \in Seq(numbers) /\ 0 \notin numbers
      BY <2>1 DEF Accounted
    <3> HIDE DEF numbers
    <3>1. \A i \in DOMAIN emitted : emitted[i] \in numbers
      BY <3>0
    <3> QED
      BY <3>0, <3>1 DEF Range
  <2>3. Cardinality(Range(emitted)) = Len(emitted)
    BY <2>1, CountedOnce DEF Accounted
  <2>4. ASSUME data = <<>>, ~failed PROVE Range(emitted) \cup unpacking = Whole
    <3>1. PICK k \in 0..Messages : Range(emitted) \cup unpacking = 1..k /\ Placed(k)
      BY <2>4 DEF FramingInv
    <3>2. /\ sent \in Streams /\ received \in Nat /\ End[k] \in Nat
          /\ End[k] < received => k < Messages
          /\ k < Messages => /\ sent[k + 1].size \in Nat /\ Header < sent[k + 1].size
                            /\ End[k + 1] = End[k] + sent[k + 1].size
      BY EndBelow DEF FramingInv
    <3>3. \E n \in Nat : Follows(k, n) /\ (k < Messages => n < sent[k + 1].size)
      <4>1. CASE Between(k)
        BY <3>2, <4>1 DEF Between, Header
      <4>2. ASSUME NEW n \in 1..received, Inside(k, n) PROVE Follows(k, n) /\ n < sent[k + 1].size
        BY <4>2 DEF Inside
      <4>3. ASSUME NEW n \in 1..received, Stubbed(k, n)
            PROVE  Follows(k, n) /\ (k < Messages => n < sent[k + 1].size)
        BY <3>2, <4>3 DEF Stubbed, Header
      <4> QED
        BY <3>1, <3>2, <4>1, <4>2, <4>3 DEF Placed
    <3>4. PICK n \in Nat : Follows(k, n) /\ (k < Messages => n < sent[k + 1].size)
      BY <3>3
    <3>5. End[k] + n = received
      <4>1. /\ End[k] + n <= received /\ Len(data) = received - (End[k] + n)
        BY <3>4, FollowsIs
      <4> QED
        BY <2>4, <3>2, <4>1
    <3>6. ASSUME NEW m \in 1..Messages PROVE End[m] <= received <=> m \in 1..k
      <4>1. End[m] \in Nat /\ \A l \in 0..(m - 1) : End[l] + Header < End[m]
        BY <3>2, EndGrows, FramingAssumption
      <4>2. CASE m < k
        <5>1. k \in 1..Messages /\ m \in 0..(k - 1)
          BY <4>2
        <5>2. End[m] + Header < End[k]
          BY <3>2, <5>1, EndGrows
        <5> QED
          BY <3>2, <3>5, <4>1, <4>2, <5>2 DEF Header
      <4>3. CASE m = k
        BY <3>2, <3>5, <4>3
      <4>4. CASE m > k
        <5>1. k < Messages /\ End[k + 1] > received
          <6>1. k < Messages
            BY <4>4, FramingAssumption
          <6> QED
            BY <3>2, <3>4, <3>5, <6>1
        <5>2. End[k + 1] <= End[m]
          <6>1. CASE m = k + 1
            BY <4>1, <6>1
          <6>2. CASE m # k + 1
            <7>1. k + 1 \in 0..(m - 1) /\ k + 1 \in 0..Messages
              BY <4>4, <6>2, FramingAssumption
            <7>2. End[k + 1] + Header < End[m] /\ End[k + 1] \in Nat
              BY <3>2, <4>1, <7>1, EndGrows
            <7> QED
              BY <4>1, <7>2 DEF Header
          <6> QED
            BY <6>1, <6>2
        <5>3. End[k + 1] \in Nat
          BY <3>2, <5>1
        <5> QED
          BY <3>2, <4>1, <4>4, <5>1, <5>2, <5>3
      <4> QED
        BY <4>2, <4>3, <4>4
    <3>7. 1..k \subseteq 1..Messages
      BY FramingAssumption
    <3> QED
      BY <3>1, <3>6, <3>7 DEF Whole
  <2> QED
    BY <2>1, <2>2, <2>3, <2>4 DEF EveryByteCounts, Accounted
<1> QED
  BY <1>1, FramingHolds, PTL

-------------------------------------------------------------------------------
(* The conversations                                                       *)

LEMMA ExchangesAre ==
  ASSUME NEW mechanism \in Mechanisms, NEW steps \in Conversations[mechanism]
  PROVE  IsExchange(Exchange(steps))
<1>1. mechanism \in {"none", "plain", "x509", "mongocr", "scram", "gssapi", "sspi"}
  BY HandshakeAssumption DEF Conversations
<1>2. CASE steps = <<>>
  BY <1>2 DEF Exchange, IsExchange, Steps
<1>3. CASE steps = <<"unchecked">>
  BY <1>3 DEF Exchange, IsExchange, Steps
<1>4. CASE steps = <<"careless", "unchecked">>
  BY <1>4 DEF Exchange, IsExchange, Steps
<1>5. CASE steps = <<"work", "checked", "unchecked">>
  BY <1>5 DEF Exchange, IsExchange, Steps
<1>6. CASE steps = <<"work", "checked", "unchecked", "unchecked">>
  BY <1>6 DEF Exchange, IsExchange, Steps
<1>7. CASE steps = <<"work", "unchecked", "work", "unchecked", "work", "unchecked", "work">>
  BY <1>7 DEF Exchange, IsExchange, Steps
<1> QED
  BY <1>1, <1>2, <1>3, <1>4, <1>5, <1>6, <1>7
     DEF Conversations, Plain, X509, MongoCR, ScramSHA, GSSAPI, SSPI

LEMMA CommandsAre ==
  ASSUME NEW all, IsExchange(all)
  PROVE  Commands(all) \in Nat
<1> DEFINE commands == {i \in DOMAIN all : all[i] # "work"}
<1>1. DOMAIN all = 1..Len(all) /\ Len(all) \in Nat
  BY DEF IsExchange
<1>2. IsFiniteSet(1..Len(all)) /\ commands \subseteq 1..Len(all)
  BY <1>1, FS_Interval
<1>3. IsFiniteSet(commands)
  BY <1>2, FS_Subset
<1> QED
  BY <1>3, FS_CardinalityType DEF Commands

LEMMA AskedIs ==
  ASSUME NEW all, IsExchange(all), NEW i \in 1..Len(all)
  PROVE  /\ Asked(all, i) \in Nat /\ Asked(all, i) <= Commands(all)
         /\ i = 1 => Asked(all, i) = 1
         /\ i < Len(all) /\ all[i + 1] = "work" => Asked(all, i + 1) = Asked(all, i)
         /\ i < Len(all) /\ all[i + 1] # "work" => Asked(all, i + 1) = Asked(all, i) + 1
<1> DEFINE asked(j) == {l \in 1..j : all[l] # "work"}
           commands == {l \in DOMAIN all : all[l] # "work"}
<1>1. Len(all) \in Nat /\ DOMAIN all = 1..Len(all) /\ all[1] # "work"
  BY DEF IsExchange
<1>2. IsFiniteSet(commands) /\ IsFiniteSet(asked(i))
  <2>1. IsFiniteSet(1..Len(all))
    BY <1>1, FS_Interval
  <2>2. commands \subseteq 1..Len(all) /\ asked(i) \subseteq 1..Len(all)
    BY <1>1
  <2> QED
    BY <2>1, <2>2, FS_Subset
<1>3. Asked(all, i) \in Nat /\ Asked(all, i) <= Commands(all)
  <2>1. asked(i) \subseteq commands
    BY <1>1
  <2> QED
    BY <1>2, <2>1, FS_Subset, FS_CardinalityType DEF Asked, Commands
<1>4. ASSUME i = 1 PROVE Asked(all, i) = 1
  <2>1. asked(i) = {1}
    BY <1>1, <1>4
  <2> QED
    BY <2>1, FS_Singleton DEF Asked
<1>5. ASSUME i < Len(all), all[i + 1] = "work" PROVE Asked(all, i + 1) = Asked(all, i)
  <2>1. asked(i + 1) = asked(i)
    BY <1>5
  <2> QED
    BY <2>1 DEF Asked
<1>6. ASSUME i < Len(all), all[i + 1] # "work" PROVE Asked(all, i + 1) = Asked(all, i) + 1
  <2>1. asked(i + 1) = asked(i) \cup {i + 1} /\ i + 1 \notin asked(i)
    BY <1>6
  <2> HIDE DEF asked
  <2>2. Cardinality(asked(i) \cup {i + 1}) = Cardinality(asked(i)) + 1
    BY <1>2, <2>1, FS_AddElement
  <2> QED
    BY <2>1, <2>2 DEF Asked, asked
<1> QED
  BY <1>3, <1>4, <1>5, <1>6

LEMMA RestIs ==
  ASSUME NEW all, IsExchange(all), NEW i \in 1..Len(all)
  PROVE  LET rest == SubSeq(all, i, Len(all)) IN
         /\ rest \in Seq(Steps) /\ rest # <<>> /\ Head(rest) = all[i]
         /\ i < Len(all) => Tail(rest) = SubSeq(all, i + 1, Len(all)) /\ Tail(rest) # <<>>
                           /\ Head(Tail(rest)) = all[i + 1] /\ i + 1 \in 1..Len(all)
         /\ i = Len(all) => Tail(rest) = <<>>
         /\ SubSeq(all, 1, Len(all)) = all
<1> DEFINE rest == SubSeq(all, i, Len(all))
<1>1. all \in Seq(Steps) /\ Len(all) \in Nat
  BY DEF IsExchange
<1>2. /\ rest \in Seq(Steps) /\ Len(rest) = Len(all) - i + 1
      /\ \A j \in 1..Len(rest) : rest[j] = all[i + j - 1]
  BY <1>1
<1>3. rest # <<>> /\ Head(rest) = all[i]
  <2>1. Len(rest) > 0 /\ rest[1] = all[i] /\ rest \in Seq(Steps)
    BY <1>1, <1>2
  <2> HIDE DEF rest
  <2> QED
    BY <2>1
<1>4. ASSUME i < Len(all)
      PROVE  /\ Tail(rest) = SubSeq(all, i + 1, Len(all)) /\ Tail(rest) # <<>>
             /\ Head(Tail(rest)) = all[i + 1] /\ i + 1 \in 1..Len(all)
  <2>1. Tail(rest) = SubSeq(all, i + 1, Len(all))
    BY <1>1, <1>4
  <2> DEFINE more == SubSeq(all, i + 1, Len(all))
  <2>2. Len(more) > 0 /\ more[1] = all[i + 1] /\ more \in Seq(Steps)
    BY <1>1, <1>4
  <2>3. i + 1 \in 1..Len(all) /\ Tail(rest) = more
    BY <1>1, <1>4, <2>1
  <2> HIDE DEF more
  <2>4. more # <<>> /\ Head(more) = all[i + 1]
    BY <2>2
  <2> QED
    BY <2>1, <2>3, <2>4
<1>5. i = Len(all) => Tail(rest) = <<>>
  BY <1>1
<1>6. SubSeq(all, 1, Len(all)) = all
  BY <1>1
<1> QED
  BY <1>2, <1>3, <1>4, <1>5, <1>6

-------------------------------------------------------------------------------
(* Every step preserves where the attempt is                               *)

LEMMA EndsWell ==
  ASSUME NEW all, NEW i, NEW h, NEW a \in AttemptType, a.calls = <<>>
  PROVE  /\ a.socket \in {"open", "closed"} => Attempts(all, i, Fail(a), h)
         /\ a.socket = "opening" =>
              Attempts(all, i, [Fail(a) EXCEPT !.socket = "closed"], h)
         /\ /\ a.socket \in {"open", "closed"} /\ a.todo = <<>> /\ 1..a.asked \subseteq h
           => Attempts(all, i, Conclude(a), h)
<1>1. Append(a.calls, "error") = <<"error">> /\ Append(a.calls, "ok") = <<"ok">>
  OBVIOUS
<1> QED
  BY <1>1 DEF Attempts, AttemptType, Fail, Conclude

LEMMA Proceeds ==
  ASSUME NEW all, IsExchange(all), NEW i \in 1..Len(all), NEW h,
         NEW a \in AttemptType, UnderWay(all, i, a),
         1..a.asked \subseteq h \/ all[i] = "careless"
  PROVE  \E j \in 1..Len(all) : Attempts(all, j, Proceed(a), h)
<1> DEFINE rest == Tail(a.todo)
<1>1. Len(all) \in Nat /\ (all[i] = "careless" =>
        i < Len(all) /\ all[i + 1] \in {"checked", "unchecked"})
  BY DEF IsExchange
<1>2. CASE i = Len(all)
  <2>1. rest = <<>>
    BY <1>2, RestIs DEF UnderWay
  <2>2. Proceed(a) = Conclude([a EXCEPT !.todo = <<>>])
    BY <2>1 DEF Proceed
  <2>3. 1..a.asked \subseteq h
    BY <1>1, <1>2
  <2>4. /\ [a EXCEPT !.todo = <<>>] \in AttemptType
        /\ [a EXCEPT !.todo = <<>>].calls = <<>> /\ [a EXCEPT !.todo = <<>>].todo = <<>>
        /\ [a EXCEPT !.todo = <<>>].socket \in {"open", "closed"}
        /\ [a EXCEPT !.todo = <<>>].asked = a.asked
    <3>1. <<>> \in Seq(Steps)
      OBVIOUS
    <3>2. [a EXCEPT !.todo = <<>>] \in AttemptType
      BY <3>1 DEF AttemptType
    <3> QED
      BY <3>2 DEF AttemptType, UnderWay
  <2>5. Attempts(all, i, Conclude([a EXCEPT !.todo = <<>>]), h)
    BY <2>3, <2>4, EndsWell
  <2> QED
    BY <2>2, <2>5
<1>3. CASE i < Len(all)
  <2>1. /\ rest = SubSeq(all, i + 1, Len(all)) /\ rest # <<>> /\ Head(rest) = all[i + 1]
        /\ i + 1 \in 1..Len(all)
    BY <1>3, RestIs DEF UnderWay
  <2>2. rest \in Seq(Steps)
    <3>1. SubSeq(all, i + 1, Len(all)) \in Seq(Steps)
      BY <2>1, RestIs
    <3> QED
      BY <2>1, <3>1
  <2> HIDE DEF rest
  <2>3. CASE all[i + 1] = "work"
    <3>1. Proceed(a) = [a EXCEPT !.stage = "working", !.todo = rest]
      BY <2>1, <2>3 DEF Proceed, rest
    <3>2. Asked(all, i + 1) = Asked(all, i) /\ 1..a.asked \subseteq h
      BY <1>1, <1>3, <2>3, AskedIs
    <3>3. Attempts(all, i + 1, Proceed(a), h)
      BY <2>1, <2>2, <3>1, <3>2 DEF Attempts, AttemptType, UnderWay
    <3> QED
      BY <2>1, <3>3
  <2>4. CASE all[i + 1] # "work"
    <3>1. Proceed(a) = [a EXCEPT !.stage = "asking", !.todo = rest, !.asked = @ + 1]
      BY <2>1, <2>4 DEF Proceed, rest
    <3>2. Asked(all, i + 1) = Asked(all, i) + 1 /\ Asked(all, i) \in Nat
      BY <1>3, <2>4, AskedIs
    <3>3. Attempts(all, i + 1, Proceed(a), h)
      <4>1. a.asked \in Nat /\ a.asked + 1 = Asked(all, i + 1) /\ a.asked + 1 \in Nat
        BY <3>2 DEF AttemptType, UnderWay
      <4>2. Proceed(a) \in AttemptType
        BY <2>2, <3>1, <4>1 DEF AttemptType
      <4>3. UnderWay(all, i + 1, Proceed(a)) /\ Proceed(a).stage = "asking"
        BY <2>1, <3>1, <4>1 DEF AttemptType, UnderWay
      <4> QED
        BY <2>4, <4>2, <4>3 DEF Attempts
    <3> QED
      BY <2>1, <3>3
  <2> QED
    BY <2>3, <2>4
<1> QED
  BY <1>1, <1>2, <1>3

(* A command that fails ends the attempt, or does not matter.              *)
LEMMA Breaks ==
  ASSUME NEW all, IsExchange(all), NEW i \in 1..Len(all), NEW h,
         NEW a \in AttemptType, UnderWay(all, i, a)
  PROVE  \E j \in 1..Len(all) : Attempts(all, j, Broken(a), h)
<1>1. Head(a.todo) = all[i]
  BY RestIs DEF UnderWay
<1>2. CASE all[i] = "careless"
  BY <1>1, <1>2, Proceeds DEF Broken
<1>3. CASE all[i] # "careless"
  <2>1. Attempts(all, i, Fail(a), h)
    BY EndsWell DEF UnderWay
  <2> QED
    BY <1>1, <1>3, <2>1 DEF Broken
<1> QED
  BY <1>2, <1>3

LEMMA Answers ==
  ASSUME NEW all, IsExchange(all), NEW i \in 1..Len(all), NEW h,
         NEW a \in AttemptType, UnderWay(all, i, a), 1..a.asked \subseteq h,
         NEW ok \in BOOLEAN
  PROVE  \E j \in 1..Len(all) : Attempts(all, j, Answered(a, ok), h)
<1> DEFINE b == [a EXCEPT !.refused = ~ok]
<1>1. b \in AttemptType /\ UnderWay(all, i, b) /\ b.asked = a.asked /\ b.calls = <<>>
      /\ b.socket \in {"open", "closed"}
  BY DEF AttemptType, UnderWay
<1> HIDE DEF b
<1>2. Attempts(all, i, Fail(b), h)
  BY <1>1, EndsWell
<1>3. \E j \in 1..Len(all) : Attempts(all, j, Proceed(b), h)
  BY <1>1, Proceeds
<1> QED
  BY <1>2, <1>3 DEF Answered, b

LEMMA HearsMore ==
  ASSUME NEW all, NEW i, NEW a, NEW h, NEW g, h \subseteq g, Attempts(all, i, a, h)
  PROVE  Attempts(all, i, a, g)
BY DEF Attempts

LEMMA ParsesMore ==
  ASSUME FramingInv, FramingInv', [Next]_vars
  PROVE  /\ sent' = sent /\ Heard \subseteq Heard'
         /\ Len(emitted') > Len(emitted) =>
              Last(emitted') \in Range(emitted') /\ failed' = failed
<1>1. /\ emitted \in Seq(Nat) /\ emitted' \in Seq(Nat)
      /\ failed \in BOOLEAN /\ failed' \in BOOLEAN /\ Len(emitted) \in Nat
  <2>1. 1..Messages \subseteq Nat
    OBVIOUS
  <2>2. emitted \in Seq(1..Messages) /\ emitted' \in Seq(1..Messages)
    BY DEF FramingInv, Accounted
  <2>3. emitted \in Seq(Nat) /\ emitted' \in Seq(Nat)
    <3> DEFINE numbers == 1..Messages
    <3> HIDE DEF numbers
    <3>1. numbers \subseteq Nat /\ emitted \in Seq(numbers) /\ emitted' \in Seq(numbers)
      BY <2>1, <2>2 DEF numbers
    <3> QED
      BY <3>1, SeqMonotonic
  <2> QED
    BY <2>3 DEF FramingInv
<1>2. /\ sent' = sent /\ (failed => failed' = TRUE)
      /\ failed' # failed => emitted' = emitted
      /\ emitted' = emitted \/ \E x : emitted' = Append(emitted, x)
  <2>1. CASE Parses
    <3>1. Handle /\ failed = FALSE
      BY <2>1, WhereItStands DEF Parses, Handle
    <3> QED
      BY <3>1 DEF Handle, Continue, Complete, Unstub, TooShort, Begin, ProcessMessage
  <2>2. ASSUME NEW m \in unpacking, Unpacks(m)
        PROVE  /\ sent' = sent /\ (failed => failed' = TRUE)
               /\ failed' # failed => emitted' = emitted
               /\ emitted' = emitted \/ \E x : emitted' = Append(emitted, x)
    BY <1>1, <2>2 DEF Unpacks, Decompressed
  <2>3. CASE UNCHANGED <<sent, emitted, failed>>
    BY <1>1, <2>3
  <2> QED
    BY <2>1, <2>2, <2>3
       DEF Next, vars, framingVars, Connected, OpenFails, WorkEnds, SocketCloses, TimesOut,
           Arrives, Receive
<1>3. Range(emitted) \subseteq Range(emitted') /\ Range(emitted) \subseteq Nat
  <2>1. CASE emitted' = emitted
    BY <1>1, <2>1 DEF Range
  <2>2. ASSUME NEW x, emitted' = Append(emitted, x)
        PROVE  Range(emitted) \subseteq Range(emitted')
    <3>1. \A j \in DOMAIN emitted : j \in DOMAIN emitted' /\ emitted'[j] = emitted[j]
      BY <1>1, <2>2
    <3> QED
      BY <3>1 DEF Range
  <2>3. \A j \in DOMAIN emitted : emitted[j] \in Nat
    BY <1>1
  <2> QED
    BY <1>2, <2>1, <2>2, <2>3 DEF Range
<1>4. ASSUME Len(emitted') > Len(emitted) PROVE Last(emitted') \in Range(emitted')
  <2>1. Len(emitted') \in DOMAIN emitted'
    BY <1>1, <1>4
  <2> QED
    BY <2>1 DEF Last, Range
<1> QED
  BY <1>1, <1>2, <1>3, <1>4 DEF Heard

(* The answer to a command of the handshake comes after those to the       *)
(* earlier ones, of which none is compressed.                              *)
LEMMA HeardThrough ==
  ASSUME FramingInv', sent' = sent, NEW c \in Nat,
         \A m \in 1..Messages : m <= c => ~Compressed(m),
         NEW n \in Nat, n <= c, n \in Range(emitted')
  PROVE  1..n \subseteq Heard'
<1>1. CASE failed'
  BY <1>1 DEF Heard
<1>2. CASE ~failed'
  <2>1. PICK k \in 0..Messages : (Range(emitted) \cup unpacking)' = 1..k
    BY <1>2, EndStays DEF FramingInv
  <2>2. ASSUME NEW m \in 1..n PROVE m \in Range(emitted')
    <3>1. m \in 1..k /\ m \in 1..Messages /\ m <= c
      BY <2>1, FramingAssumption
    <3>2. m \notin unpacking'
      BY <3>1, EndStays DEF FramingInv, Accounted
    <3> QED
      BY <2>1, <3>1, <3>2
  <2> QED
    BY <1>2, <2>2 DEF Heard
<1> QED
  BY <1>1, <1>2

LEMMA AttemptKeeps ==
  ASSUME HandshakeInv, FramingInv', [Next]_vars
  PROVE  AttemptInv'
<1>1. PICK mechanism \in Mechanisms : \E steps \in Conversations[mechanism] :
        /\ \A m \in 1..Messages : m <= Commands(Exchange(steps)) => ~Compressed(m)
        /\ \E i \in 1..Len(Exchange(steps)) : Attempts(Exchange(steps), i, attempt, Heard)
  BY DEF HandshakeInv, AttemptInv
<1>2. PICK steps \in Conversations[mechanism] :
        /\ \A m \in 1..Messages : m <= Commands(Exchange(steps)) => ~Compressed(m)
        /\ \E i \in 1..Len(Exchange(steps)) : Attempts(Exchange(steps), i, attempt, Heard)
  BY <1>1
<1> DEFINE all == Exchange(steps)
<1>3. /\ IsExchange(all) /\ \A m \in 1..Messages : m <= Commands(all) => ~Compressed(m)
      /\ \E i \in 1..Len(all) : Attempts(all, i, attempt, Heard)
  BY <1>2, ExchangesAre
<1>4. /\ sent' = sent /\ Heard \subseteq Heard' /\ \A m : Compressed(m)' = Compressed(m)
      /\ Len(emitted') > Len(emitted) =>
           Last(emitted') \in Range(emitted') /\ failed' = failed
  BY ParsesMore, EndStays DEF HandshakeInv
<1>5. SUFFICES \E j \in 1..Len(all) : Attempts(all, j, attempt', Heard')
  BY <1>3, <1>4 DEF AttemptInv
<1> HIDE DEF all
<1>6. PICK i \in 1..Len(all) : Attempts(all, i, attempt, Heard)
  BY <1>3
<1>7. attempt \in AttemptType /\ Len(all) \in Nat /\ 1 \in 1..Len(all)
  BY <1>3, <1>6 DEF Attempts, IsExchange
<1>8. CASE attempt' = attempt
  BY <1>4, <1>6, <1>8, HearsMore
<1>9. ASSUME NEW j \in 1..Len(all), NEW b, Attempts(all, j, b, Heard), attempt' = b
      PROVE  \E l \in 1..Len(all) : Attempts(all, l, attempt', Heard')
  BY <1>4, <1>9, HearsMore
<1>10. CASE Connected
  <2>1. /\ attempt.calls = <<>> /\ attempt.todo = all /\ attempt.socket = "opening"
    BY <1>6, <1>10 DEF Attempts, Connected
  <2>2. Asked(all, 1) = 1 /\ SubSeq(all, 1, Len(all)) = all /\ all[1] # "work"
    BY <1>3, <1>7, AskedIs, RestIs DEF IsExchange
  <2>3. Attempts(all, 1, attempt', Heard)
    BY <1>7, <1>10, <2>1, <2>2 DEF Attempts, AttemptType, UnderWay, Connected
  <2> QED
    BY <1>7, <1>9, <2>3
<1>11. CASE OpenFails
  <2>1. /\ attempt.calls = <<>> /\ attempt.todo = all /\ attempt.socket = "opening"
    BY <1>6, <1>11 DEF Attempts, OpenFails
  <2>2. Attempts(all, i, [Fail(attempt) EXCEPT !.socket = "closed"], Heard)
    BY <1>7, <2>1, EndsWell
  <2>3. Attempts(all, i, [attempt EXCEPT !.untried = {}], Heard)
    BY <1>6, <1>7, <1>11, <2>1 DEF Attempts, AttemptType, OpenFails
  <2> QED
    BY <1>9, <1>11, <2>2, <2>3 DEF OpenFails
<1>12. ASSUME NEW ok \in BOOLEAN, WorkEnds(ok)
       PROVE  \E l \in 1..Len(all) : Attempts(all, l, attempt', Heard')
  <2>1. UnderWay(all, i, attempt) /\ 1..attempt.asked \subseteq Heard
    BY <1>6, <1>12 DEF Attempts, WorkEnds
  <2>2. \E j \in 1..Len(all) : Attempts(all, j, Proceed(attempt), Heard)
    BY <1>3, <1>7, <2>1, Proceeds
  <2>3. Attempts(all, i, Fail(attempt), Heard)
    BY <1>7, <2>1, EndsWell DEF UnderWay
  <2> QED
    BY <1>9, <1>12, <2>2, <2>3 DEF WorkEnds
<1>13. ASSUME NEW error \in BOOLEAN, SocketCloses(error)
       PROVE  \E l \in 1..Len(all) : Attempts(all, l, attempt', Heard')
  <2> DEFINE closed == [attempt EXCEPT !.socket = "closed"]
  <2>1. attempt.socket # "opening" /\ closed \in AttemptType
    BY <1>7, <1>13 DEF AttemptType, SocketCloses
  <2>2. CASE attempt.stage = "asking"
    <3>1. UnderWay(all, i, attempt)
      BY <1>6, <2>2 DEF Attempts
    <3>2. UnderWay(all, i, closed)
      BY <1>7, <3>1 DEF UnderWay, AttemptType
    <3>3. attempt' = Broken(closed)
      BY <1>13, <2>2 DEF SocketCloses
    <3> HIDE DEF closed
    <3>4. \E j \in 1..Len(all) : Attempts(all, j, Broken(closed), Heard)
      BY <1>3, <2>1, <3>2, Breaks
    <3> QED
      BY <1>9, <3>3, <3>4
  <2>3. CASE attempt.stage # "asking"
    <3>1. Attempts(all, i, closed, Heard)
      BY <1>6, <1>7, <2>1, <2>3 DEF Attempts, AttemptType, UnderWay
    <3>2. ASSUME NEW thrown \in BOOLEAN
          PROVE  Attempts(all, i, [closed EXCEPT !.thrown = thrown], Heard)
      <4> HIDE DEF closed
      <4> DEFINE late == [closed EXCEPT !.thrown = thrown]
      <4>1. /\ late.stage = closed.stage /\ late.calls = closed.calls
            /\ late.todo = closed.todo /\ late.socket = closed.socket
            /\ late.asked = closed.asked /\ late.refused = closed.refused
        BY <2>1 DEF AttemptType
      <4>2. late \in AttemptType
        BY <2>1, <3>2 DEF AttemptType
      <4> HIDE DEF late
      <4>3. Attempts(all, i, late, Heard)
        BY <3>1, <4>1, <4>2 DEF Attempts, UnderWay
      <4> QED
        BY <4>3 DEF late
    <3>3. \/ attempt' = closed
          \/ \E thrown \in BOOLEAN : attempt' = [closed EXCEPT !.thrown = thrown]
      <4>1. \/ attempt' = closed
            \/ attempt' = [closed EXCEPT !.thrown = ~Handed]
        BY <1>13, <2>3 DEF SocketCloses
      <4>2. CASE Handed
        BY <4>1, <4>2
      <4>3. CASE ~Handed
        BY <4>1, <4>3
      <4> QED
        BY <4>2, <4>3
    <3> HIDE DEF closed
    <3> QED
      BY <1>9, <3>1, <3>2, <3>3
  <2> QED
    BY <2>2, <2>3
<1>14. CASE TimesOut
  <2> DEFINE late == [attempt EXCEPT !.timedOut = TRUE]
  <2>1. late \in AttemptType
    BY <1>7 DEF AttemptType
  <2>2. CASE attempt.stage = "asking"
    <3>1. UnderWay(all, i, attempt)
      BY <1>6, <2>2 DEF Attempts
    <3>2. UnderWay(all, i, late)
      BY <1>7, <3>1 DEF UnderWay, AttemptType
    <3>3. attempt' = Broken(late)
      BY <1>14, <2>2 DEF TimesOut
    <3> HIDE DEF late
    <3>4. \E j \in 1..Len(all) : Attempts(all, j, Broken(late), Heard)
      BY <1>3, <2>1, <3>2, Breaks
    <3> QED
      BY <1>9, <3>3, <3>4
  <2>3. CASE attempt.stage # "asking"
    <3>1. Attempts(all, i, late, Heard)
      BY <1>6, <1>7, <2>1, <2>3 DEF Attempts, AttemptType, UnderWay
    <3>2. attempt' = late
      BY <1>14, <2>3 DEF TimesOut
    <3> QED
      BY <1>9, <3>1, <3>2
  <2> QED
    BY <2>2, <2>3
<1>15. CASE Hears
  <2>1. CASE attempt.stage = "asking" /\ failed' # failed
    <3>1. UnderWay(all, i, attempt)
      BY <1>6, <2>1 DEF Attempts
    <3>2. attempt' = Broken(attempt)
      BY <1>4, <1>15, <2>1 DEF Hears
    <3>3. \E j \in 1..Len(all) : Attempts(all, j, Broken(attempt), Heard)
      BY <1>3, <1>7, <3>1, Breaks
    <3> QED
      BY <1>9, <3>2, <3>3
  <2>2. CASE /\ attempt.stage = "asking" /\ failed' = failed
             /\ Len(emitted') > Len(emitted) /\ Last(emitted') = attempt.asked
    <3>1. UnderWay(all, i, attempt)
      BY <1>6, <2>2 DEF Attempts
    <3>2. PICK ok \in BOOLEAN : attempt' = Answered(attempt, ok)
      BY <1>15, <2>2 DEF Hears
    <3>3. /\ attempt.asked \in Nat /\ attempt.asked <= Commands(all)
          /\ attempt.asked \in Range(emitted')
      BY <1>3, <1>4, <2>2, <3>1, AskedIs DEF UnderWay
    <3>4. 1..attempt.asked \subseteq Heard'
      <4>1. Commands(all) \in Nat
        BY <1>3, CommandsAre
      <4> QED
        BY <1>3, <1>4, <3>3, <4>1, HeardThrough
    <3>5. \E j \in 1..Len(all) : Attempts(all, j, Answered(attempt, ok), Heard')
      BY <1>3, <1>7, <3>1, <3>4, Answers
    <3> QED
      BY <3>2, <3>5
  <2> QED
    BY <1>8, <1>15, <2>1, <2>2 DEF Hears
<1> QED
  BY <1>8, <1>10, <1>11, <1>12, <1>13, <1>14, <1>15
     DEF Next, vars, Arrives, Parses, Unpacks

LEMMA AttemptStarts == Init => AttemptInv
<1> SUFFICES ASSUME Init PROVE AttemptInv
  OBVIOUS
<1>1. PICK mechanism \in Mechanisms : \E steps \in Conversations[mechanism] :
        /\ Relevant(Commands(Exchange(steps)))
        /\ attempt = [stage |-> "opening", untried |-> IF FamilyGiven THEN {} ELSE {4},
                      socket |-> "opening", timedOut |-> FALSE,
                      todo |-> Exchange(steps), asked |-> 0, refused |-> FALSE,
                      calls |-> <<>>, thrown |-> FALSE]
  BY DEF Init
<1>2. PICK steps \in Conversations[mechanism] :
        /\ Relevant(Commands(Exchange(steps)))
        /\ attempt = [stage |-> "opening", untried |-> IF FamilyGiven THEN {} ELSE {4},
                      socket |-> "opening", timedOut |-> FALSE,
                      todo |-> Exchange(steps), asked |-> 0, refused |-> FALSE,
                      calls |-> <<>>, thrown |-> FALSE]
  BY <1>1
<1> DEFINE all == Exchange(steps)
<1>3. all \in Seq(Steps) /\ 1 \in 1..Len(all)
  <2>1. IsExchange(all)
    BY ExchangesAre
  <2> HIDE DEF all
  <2> QED
    BY <2>1 DEF IsExchange
<1>4. \A m \in 1..Messages : m <= Commands(all) => ~Compressed(m)
  <2>1. Commands(all) \in Nat
    BY ExchangesAre, CommandsAre
  <2>2. \A m \in 1..Commands(all) : sent[m].kind \notin {"compressed", "corrupt"}
    BY <1>2 DEF Relevant
  <2> HIDE DEF all
  <2> QED
    BY <2>1, <2>2 DEF Compressed
<1>5. Attempts(all, 1, attempt, Heard)
  <2>1. /\ attempt.stage = "opening" /\ attempt.calls = <<>>
        /\ attempt.todo = all /\ attempt.socket = "opening"
    BY <1>2
  <2> HIDE DEF all
  <2>2. attempt \in AttemptType
    BY <1>2, <1>3 DEF AttemptType, all
  <2> QED
    BY <2>1, <2>2 DEF Attempts
<1> QED
  BY <1>3, <1>4, <1>5 DEF AttemptInv

LEMMA HandshakeHolds == ~SplitHeaders => (Spec => []HandshakeInv)
<1> SUFFICES ASSUME ~SplitHeaders PROVE Spec => []HandshakeInv
  OBVIOUS
<1>1. Init => HandshakeInv
  BY FramingStarts, AttemptStarts DEF Init, HandshakeInv
<1>2. HandshakeInv /\ [Next]_vars => HandshakeInv'
  BY FramingKeeps, AttemptKeeps DEF HandshakeInv
<1> QED
  BY <1>1, <1>2, PTL DEF Spec

(* Whatever the mechanism, the server's answers and the order of timeouts, *)
(* errors and messages: connect() calls back once at most, with a          *)
(* connection only if each command of the conversation was answered and    *)
(* the last one accepted, and with an error only if its socket was ended.  *)
THEOREM AttemptsSound == ~SplitHeaders => (Spec => []AttemptSound)
<1>1. HandshakeInv => AttemptSound
  <2> SUFFICES ASSUME HandshakeInv PROVE AttemptSound
    OBVIOUS
  <2>1. PICK all, i : Attempts(all, i, attempt, Heard)
    BY DEF HandshakeInv, AttemptInv
  <2>2. /\ attempt.calls \in {<<>>, <<"ok">>, <<"error">>}
        /\ attempt.calls = <<"ok">> =>
             attempt.todo = <<>> /\ ~attempt.refused /\ 1..attempt.asked \subseteq Heard
        /\ attempt.calls = <<"error">> => attempt.socket \in {"ended", "closed"}
    <3>1. /\ attempt \in AttemptType
          /\ attempt.stage \in {"opening", "asking", "working"} => attempt.calls = <<>>
      BY <2>1 DEF Attempts, UnderWay
    <3>2. attempt.calls \in {<<>>, <<"ok">>, <<"error">>}
      BY <3>1 DEF AttemptType
    <3>3. /\ <<"ok">> # <<>> /\ <<"error">> # <<>> /\ <<"ok">> # <<"error">>
      OBVIOUS
    <3> QED
      BY <2>1, <3>1, <3>2, <3>3 DEF Attempts, AttemptType
  <2>3. Len(attempt.calls) <= 1
    <3>1. Len(<<>>) <= 1 /\ Len(<<"ok">>) <= 1 /\ Len(<<"error">>) <= 1
      OBVIOUS
    <3> QED
      BY <2>2, <3>1
  <2> QED
    BY <2>2, <2>3 DEF AttemptSound, Handed, Heard
<1> QED
  BY <1>1, HandshakeHolds, PTL
===============================================================================
