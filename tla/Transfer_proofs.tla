---------------------------- MODULE Transfer_proofs ---------------------------
(***************************************************************************)
(* Theorems about Transfer, for any set of models, any lengths of names    *)
(* and any capacity of the connections.                                    *)
(*                                                                         *)
(* For each worker the invariant relates what is still to come on its      *)
(* connection (what is on the wire, and what the root has still to write)  *)
(* to what the worker has still to read: a list of items, of which some    *)
(* call for more items when they are read.  The reading of configurations  *)
(* is followed field by field; that of a weight in eight stages.            *)
(***************************************************************************)
EXTENDS TransferData_proofs

-----------------------------------------------------------------------------
(* The inductive invariant                                                  *)

(* What has been written for a worker and not read, and what will be        *)
Coming(w) == Write(w, toWorker[w]) \o PartOf(w, RestOf(Programs[model], rootPc))

(* What concerns one worker                                                 *)
View(w) ==
  [want |-> want[w], got |-> got[w], coming |-> Coming(w), ack |-> toRoot[w], loaded |-> loaded[w]]

Acked(w, ack) == IF ack = <<>> THEN <<>> ELSE AwaitAck(w)

(* A worker reads a configuration: X is left of it, then it acknowledges    *)
(* and reads Y, which the root writes as more.                              *)
Reading(m, w, v, X, Y, more, pairs) ==
  /\ IsSeq(X) /\ v.want = X \o (Give \o Y)
  /\ \A x \in Elems(X) : ItemOK(m, w, x)
  /\ v.coming = Acked(w, v.ack) \o (Write(w, Said(m, w, X)) \o (AwaitAck(w) \o more))
  /\ InOrder(Known(v.got), X)
  /\ Known(v.got) \cup Coverage(m, w, X) = pairs
  /\ \A p \in Known(v.got) : v.got[p[1]][p[2]] = Told(m, w, p[1], p[2])
  /\ v.ack # <<>> => X # <<>> /\ Head(X).do = "read"
  /\ v.loaded = <<>>

NetRest == ReadNode \o ReadWeight

ReadingNet(m, w, v, X) == Reading(m, w, v, X, NetRest, NetMore(m, w), NetPairs(m, w))
ReadingNode(m, w, v, X) == Reading(m, w, v, X, ReadWeight, After(m, w, 1), Pairs(m, w))

(* The configuration has been read, whatever the locals are.                *)
HasConfig(m, w, g) ==
  /\ {p \in Known(g) : p[1] # Locals} = {p \in Pairs(m, w) : p[1] # Locals}
  /\ \A p \in Known(g) : p[1] # Locals => g[p[1]][p[2]] = Told(m, w, p[1], p[2])

(* the locals that hold weight k *)
Local(m, w, k, f) ==
  LET weight == Weights(m)[k]
  IN  CASE f = "bytes"  -> strlen(weight.name) + 1
        [] f = "name"   -> weight.name
        [] f = "index"  -> weight.index
        [] f = "nBytes" -> Cells(weight.slice.sliceSize)
        [] f = "data"   -> WeightPart(k, w)

Holds(m, w, g, k, fields) ==
  /\ Locals \in DOMAIN g
  /\ \A f \in fields : f \in DOMAIN g[Locals] /\ g[Locals][f] = Local(m, w, k, f)

(* What a worker goes on to read of a weight                                *)
FromLoad == << [do |-> "load"] >> \o ReadWeight
FromData(item) == item \o FromLoad
FromSize == Read(<<"nnsize">>, Locals, "nBytes") \o FromData(Expand("data", Locals))
FromIndex == ReadUInt(Locals, "index") \o FromSize
FromName(item) == item \o FromIndex

(* The last n fields of a weight                                            *)
LeftOf(m, w, k, n) ==
  LET fields == WeightFields(m, w, k)
  IN  [i \in 1 .. n |-> fields[5 - n + i]]

Place(m, n, k) ==
  LET weight == Weights(m)[k]
  IN  First(Locate(Configs[m][n], weight.name, weight.index))

Given(m, n, k) == n = 0 \/ Weights(m)[k].slice.how # "root"

(* Of the weights up to k, those that the node is given have been loaded.   *)
Placed(m, n, ld, k) ==
  /\ \A p \in DOMAIN ld :
       /\ ld[p].weight \in 1 .. k /\ ld[p].node = n /\ Given(m, n, ld[p].weight)
       /\ p = Place(m, n, ld[p].weight)
       /\ Locate(Configs[m][n], Weights(m)[ld[p].weight].name, Weights(m)[ld[p].weight].index) # {}
  /\ \A j \in 1 .. k : Given(m, n, j) => Place(m, n, j) \in DOMAIN ld

(* A worker is going to read items, of the n fields left of weight k.       *)
ReadingWeight(m, w, v, k, items, n, fields) ==
  /\ v.want = items /\ v.ack = <<>>
  /\ v.coming = Write(w, LeftOf(m, w, k, n)) \o After(m, w, k)
  /\ Holds(m, w, v.got, k, fields)
  /\ Placed(m, w, v.loaded, k - 1)

InWeight(m, w, v, k) ==
  LET name == Local(m, w, k, "name")
      size == Local(m, w, k, "nBytes")
  IN  \/ ReadingWeight(m, w, v, k, Expand("weight", Locals), 4, {"bytes"})
      \/ ReadingWeight(m, w, v, k, FromName(Expand("name", Locals)), 4, {"bytes"})
      \/ ReadingWeight(m, w, v, k, FromName(Read(<<"bytes", strlen(name) + 1>>, Locals, "name")), 4, {"bytes"})
      \/ ReadingWeight(m, w, v, k, FromIndex, 3, {"bytes", "name"})
      \/ ReadingWeight(m, w, v, k, FromSize, 2, {"bytes", "name", "index"})
      \/ ReadingWeight(m, w, v, k, FromData(Expand("data", Locals)), 1, {"bytes", "name", "index", "nBytes"})
      \/ ReadingWeight(m, w, v, k, FromData(Read(<<"bytes", size>>, Locals, "data")), 1,
                       {"bytes", "name", "index", "nBytes"})
      \/ ReadingWeight(m, w, v, k, FromLoad, 0, {"bytes", "name", "index", "nBytes", "data"})

BetweenWeights(m, w, v, k) ==
  /\ v.want = ReadWeight /\ v.coming = Acked(w, v.ack) \o After(m, w, k)
  /\ Placed(m, w, v.loaded, k)

Ending(m, w, v) ==
  /\ v.ack = <<>> /\ v.coming = AwaitAck(w) /\ Placed(m, w, v.loaded, LastWeight(m))
  /\ \/ /\ v.want = Expand("weight", Locals)
        /\ Locals \in DOMAIN v.got /\ "bytes" \in DOMAIN v.got[Locals] /\ v.got[Locals]["bytes"] = 0
     \/ v.want = Give

Finished(m, w, v) ==
  v.want = <<>> /\ v.coming = Acked(w, v.ack) /\ Placed(m, w, v.loaded, LastWeight(m))

WeightPhase(m, w, v) ==
  /\ HasConfig(m, w, v.got)
  /\ \/ \E k \in 1 .. LastWeight(m) : BetweenWeights(m, w, v, k)
     \/ \E k \in 2 .. LastWeight(m) : InWeight(m, w, v, k)
     \/ Ending(m, w, v)
     \/ Finished(m, w, v)

(* What a worker has and what it will be sent fit together.                 *)
Consistent(m, w, v) ==
  /\ v.ack \in {<<>>, <<Ack>>}
  /\ \A id \in DOMAIN v.got : DOMAIN v.got[id] # {}
  /\ \/ \E X : ReadingNet(m, w, v, X)
     \/ \E X : ReadingNode(m, w, v, X)
     \/ WeightPhase(m, w, v)

WorkerInv(w) ==
  /\ IsSeq(toWorker[w])
  /\ status[w] = "ready" <=> want[w] = <<>>
  /\ Consistent(model, w, View(w))

(* The root loads its own weights in their order.                           *)
RootInv ==
  /\ rootPc \in 0 .. Len(Programs[model])
  /\ status[0] = "ready" <=> rootPc = Len(Programs[model])
  /\ \E k \in 0 .. LastWeight(model) :
       /\ PartOf(0, RestOf(Programs[model], rootPc)) = OwnAfter(model, k)
       /\ Placed(model, 0, loaded[0], k)

Shapes ==
  /\ model \in Models
  /\ status \in [AllNodes -> {"running", "ready", "killed", "exited", "absent"}]
  /\ DOMAIN toWorker = AllNodes /\ DOMAIN toRoot = AllNodes /\ DOMAIN want = AllNodes
  /\ DOMAIN got = AllNodes /\ DOMAIN loaded = AllNodes
  /\ \A w \in AllNodes : Len(toWorker[w]) <= Capacity /\ Len(toRoot[w]) <= 1

TransferInv == Shapes /\ RootInv /\ \A w \in Workers : WorkerInv(w)

-----------------------------------------------------------------------------
(* Steps of a worker that reads a configuration                             *)

(* What the assumption says of a model.                                     *)
LEMMA ModelFacts ==
  ASSUME NEW m \in Models
  PROVE  /\ m.nNodes \in Nat \ {0} /\ m.nLayers \in Nat \ {0}
         /\ \A w : Sound(m, w)
         /\ \A k \in 1 .. Len(Weights(m)) : strlen(Weights(m)[k].name) \in Nat
<1>1. IsModel(m)
  BY TransferAssumption
<1>2. m.nNodes \in Nat \ {0} /\ m.nLayers \in Nat \ {0}
  BY <1>1 DEF IsModel
<1>3. \A w : Sound(m, w)
  BY <1>2, ConfigsShape, ConfigSound
<1>4. DOMAIN Weights(m) = 1 .. Len(Weights(m))
  BY <1>2, WeightsShape, SeqShape
<1>5. \A k \in DOMAIN Weights(m) : strlen(Weights(m)[k].name) \in Nat
  BY TransferAssumption
<1> QED
  BY <1>2, <1>3, <1>4, <1>5

(* Lists of instructions and of items.                                      *)
LEMMA SmallLists ==
  /\ \A size, id, f : IsSeq(Read(size, id, f)) /\ IsSeq(ReadUInt(id, f))
  /\ \A of, id : IsSeq(Expand(of, id))
  /\ IsSeq(Give) /\ IsSeq(ReadWeight)
  /\ \A w : IsSeq(AwaitAck(w))
  /\ \A w, ack : IsSeq(Acked(w, ack))
  /\ \A w, fields : IsSeq(fields) => IsSeq(Write(w, fields))
<1>1. \A size, id, f : IsSeq(Read(size, id, f)) /\ IsSeq(ReadUInt(id, f))
  BY OneIsSeq DEF Read, ReadUInt
<1>2. \A of, id : IsSeq(Expand(of, id))
  BY OneIsSeq DEF Expand
<1>3. IsSeq(Give)
  BY OneIsSeq DEF Give
<1>4. IsSeq(ReadWeight)
  BY <1>1, <1>2, CatSeq DEF ReadWeight
<1>5. \A w : IsSeq(AwaitAck(w))
  BY OneIsSeq DEF AwaitAck
<1>6. \A w, ack : IsSeq(Acked(w, ack))
  BY <1>5, EmptyIsSeq DEF Acked
<1>7. \A w, fields : IsSeq(fields) => IsSeq(Write(w, fields))
  BY WriteCat
<1> QED
  BY <1>1, <1>2, <1>3, <1>4, <1>5, <1>6, <1>7

(* One in front of a list in front of another.                              *)
LEMMA ConsCat ==
  ASSUME NEW x, NEW a, NEW b, IsSeq(a), IsSeq(b)
  PROVE  (<<x>> \o a) \o b = <<x>> \o (a \o b) /\ IsSeq(<<x>> \o a) /\ IsSeq(a \o b)
<1> DEFINE one == <<x>>
<1>1. IsSeq(one)
  BY OneIsSeq
<1> HIDE DEF one
<1>2. Associates(one, a, b) /\ IsSeq(one \o a) /\ IsSeq(a \o b)
  BY <1>1, CatAssociates, CatSeq
<1> QED
  BY <1>2 DEF Associates, one

(* A worker begins to read what is sent to it.                              *)
LEMMA ReadingStarts ==
  ASSUME NEW m, NEW w, NEW v, NEW items, NEW fields, NEW covers, NEW Y, NEW more,
         Built(m, w, items, fields, covers, {}),
         v.want = items \o (Give \o Y),
         v.coming = Acked(w, v.ack) \o (Write(w, fields) \o (AwaitAck(w) \o more)),
         \A p \in Known(v.got) : v.got[p[1]][p[2]] = Told(m, w, p[1], p[2]),
         items # <<>>, Head(items).do = "read", v.loaded = <<>>
  PROVE  Reading(m, w, v, items, Y, more, Known(v.got) \cup covers)
<1>1. /\ IsSeq(items) /\ \A x \in Elems(items) : ItemOK(m, w, x)
      /\ Said(m, w, items) = fields /\ InOrder({}, items) /\ Coverage(m, w, items) = covers
  BY DEF Built
<1>2. InOrder(Known(v.got), items)
  BY <1>1, InOrderMore
<1> QED
  BY <1>1, <1>2 DEF Reading

(* The two configurations begin with the magic number.                      *)
LEMMA FirstItems ==
  /\ NetItems # <<>> /\ Head(NetItems).do = "read"
  /\ NodeItems # <<>> /\ Head(NodeItems).do = "read"
<1> DEFINE x == [do |-> "read", size |-> <<"ack">>, id |-> Locals, field |-> "ack"]
<1>1. ASSUME NEW a, NEW b, IsSeq(a), IsSeq(b), a # <<>>, Head(a).do = "read"
      PROVE  IsSeq(a \o b) /\ a \o b # <<>> /\ Head(a \o b).do = "read"
  <2> DEFINE h == Head(a)
             t == Tail(a)
  <2>1. a = <<h>> \o t /\ IsSeq(t)
    BY <1>1, HeadFirst
  <2> HIDE DEF h, t
  <2>2. a \o b = <<h>> \o (t \o b) /\ IsSeq(t \o b)
    BY <1>1, <2>1, ConsCat
  <2>3. a \o b # <<>> /\ Head(a \o b) = h
    BY <2>2, ConsHead
  <2>4. IsSeq(a \o b)
    BY <1>1, CatSeq
  <2>5. Head(a).do = "read"
    BY <1>1
  <2> QED
    BY <2>3, <2>4, <2>5 DEF h
<1> DEFINE Good(a) == IsSeq(a) /\ a # <<>> /\ Head(a).do = "read"
<1>2. \A a, b : Good(a) /\ IsSeq(b) => Good(a \o b)
  BY <1>1
<1>3. Good(Read(<<"ack">>, Locals, "ack"))
  <2>1. \A y : Head(<<y>>) = y /\ <<y>> # <<>>
    OBVIOUS
  <2>2. Read(<<"ack">>, Locals, "ack") = <<x>> /\ x.do = "read"
    BY DEF Read
  <2> HIDE DEF x
  <2>3. IsSeq(<<x>>) /\ Head(<<x>>) = x /\ <<x>> # <<>>
    BY <2>1, OneIsSeq
  <2> QED
    BY <2>2, <2>3
<1> HIDE DEF Good
<1>4. Good(NetItems)
  BY <1>2, <1>3, SmallLists DEF NetItems
<1>5. Good(NodeItems)
  BY <1>2, <1>3, SmallLists DEF NodeItems
<1> QED
  BY <1>4, <1>5 DEF Good

(* What a worker is going to read, when it begins.                          *)
LEMMA WantAtFirst ==
  /\ ReadNet \o ReadNode \o ReadWeight = NetItems \o (Give \o NetRest)
  /\ NetRest = NodeItems \o (Give \o ReadWeight)
  /\ IsSeq(NetItems) /\ IsSeq(NodeItems) /\ IsSeq(NetRest)
<1>1. ReadNet = NetItems \o Give
  BY DEF ReadNet, NetItems
<1>2. ReadNode = NodeItems \o Give
  BY DEF ReadNode, NodeItems
<1>3. IsSeq(NetItems)
  BY SmallLists, CatSeq DEF NetItems
<1>4. IsSeq(NodeItems)
  BY SmallLists, CatSeq DEF NodeItems
<1>5. IsSeq(ReadNode)
  BY <1>2, <1>4, SmallLists, CatSeq
<1>6. IsSeq(ReadNet)
  BY <1>1, <1>3, SmallLists, CatSeq
<1>7. IsSeq(NetRest)
  BY <1>5, SmallLists, CatSeq DEF NetRest
<1>8. /\ Associates(NodeItems, Give, ReadWeight) /\ Associates(NetItems, Give, NetRest)
      /\ Associates(ReadNet, ReadNode, ReadWeight)
  BY <1>3, <1>4, <1>5, <1>6, <1>7, SmallLists, CatAssociates
<1>9. NetRest = NodeItems \o (Give \o ReadWeight)
  BY <1>2, <1>8 DEF Associates, NetRest
<1>10. (ReadNet \o ReadNode) \o ReadWeight = ReadNet \o NetRest
  BY <1>8 DEF Associates, NetRest
<1>11. ReadNet \o NetRest = NetItems \o (Give \o NetRest)
  BY <1>1, <1>8 DEF Associates
<1> QED
  BY <1>3, <1>4, <1>7, <1>9, <1>10, <1>11

(* The first of the items that are left, and the others                      *)
FirstOf(m, w, v, X, Y, x, rest) ==
  /\ IsSeq(rest) /\ X = <<x>> \o rest
  /\ v.want = <<x>> \o (rest \o (Give \o Y)) /\ IsSeq(rest \o (Give \o Y))
  /\ ItemOK(m, w, x) /\ \A y \in Elems(rest) : ItemOK(m, w, y)
  /\ IsSeq(Says(m, w, x)) /\ IsSeq(Said(m, w, rest))
  /\ Said(m, w, X) = Says(m, w, x) \o Said(m, w, rest)
  /\ Coverage(m, w, X) = Covers(m, w, x) \cup Coverage(m, w, rest)
  /\ InOrder(Known(v.got), <<x>> \o rest)

(* A worker that is not through with a configuration goes on with an item.  *)
LEMMA ReadingHead ==
  ASSUME NEW m, NEW w, Sound(m, w), NEW v, NEW X, NEW Y, NEW more, NEW pairs, IsSeq(Y),
         Reading(m, w, v, X, Y, more, pairs), X # <<>>
  PROVE  FirstOf(m, w, v, X, Y, Head(X), Tail(X))
<1> DEFINE x    == Head(X)
           rest == Tail(X)
           one  == <<x>>
<1>1. /\ IsSeq(X) /\ v.want = X \o (Give \o Y)
      /\ \A y \in Elems(X) : ItemOK(m, w, y)
      /\ InOrder(Known(v.got), X)
  BY DEF Reading
<1>2. X = one \o rest /\ IsSeq(rest)
  BY <1>1, HeadFirst
<1>3. IsSeq(one) /\ Elems(one) = {x} /\ one = <<x>>
  BY OneIsSeq, ElemsOfOne
<1> HIDE DEF x, rest, one
<1>4. IsSeq(Give \o Y)
  BY SmallLists, CatSeq
<1>5. v.want = one \o (rest \o (Give \o Y)) /\ IsSeq(rest \o (Give \o Y))
  <2>1. Associates(one, rest, Give \o Y) /\ IsSeq(rest \o (Give \o Y))
    BY <1>2, <1>3, <1>4, CatAssociates, CatSeq
  <2> QED
    BY <1>1, <1>2, <2>1 DEF Associates
<1>6. Elems(X) = {x} \cup Elems(rest)
  BY <1>2, <1>3, CatElems
<1>7. \A y : ItemOK(m, w, y) => IsSeq(Says(m, w, y))
  BY DEF Sound
<1>8. ItemOK(m, w, x) /\ \A y \in Elems(rest) : ItemOK(m, w, y)
  BY <1>1, <1>6
<1>9. /\ IsSeq(Says(m, w, x)) /\ IsSeq(Said(m, w, rest))
      /\ Said(m, w, X) = Says(m, w, x) \o Said(m, w, rest)
  <2>1. \A y \in Elems(one) \cup Elems(rest) : IsSeq(Says(m, w, y))
    BY <1>3, <1>7, <1>8
  <2>2. Said(m, w, one \o rest) = Said(m, w, one) \o Said(m, w, rest)
    <3>1. IsSeq(one) /\ IsSeq(rest)
      BY <1>2, <1>3
    <3> QED
      BY <2>1, <3>1, SaidCat
  <2>3. IsSeq(Said(m, w, rest))
    <3>1. \A y \in Elems(rest) \cup Elems(rest) : IsSeq(Says(m, w, y))
      BY <2>1
    <3> QED
      BY <1>2, <3>1, SaidCat
  <2>4. IsSeq(Says(m, w, x)) /\ Said(m, w, one) = Says(m, w, x)
    BY <1>3, <1>7, <1>8, SaidOne
  <2> QED
    BY <1>2, <2>2, <2>3, <2>4
<1>10. Coverage(m, w, X) = Covers(m, w, x) \cup Coverage(m, w, rest)
  BY <1>6 DEF Coverage
<1>11. FirstOf(m, w, v, X, Y, x, rest)
  BY <1>1, <1>2, <1>3, <1>5, <1>8, <1>9, <1>10 DEF FirstOf
<1> QED
  BY <1>11 DEF x, rest

(* A field that is sent, or an acknowledgement, as the program lists it     *)
WriteOf(w, field) == [do |-> "write", node |-> w, field |-> field]

AwaitOf(w) == [do |-> "await", node |-> w]

(* Of the fields that are still to come, the first.                         *)
WritesFirst(w, field, fields, rest) ==
  Write(w, <<field>> \o fields) \o rest = <<WriteOf(w, field)>> \o (Write(w, fields) \o rest)

(* The first of the fields that are still to be written.                     *)
LEMMA ComingWrite ==
  ASSUME NEW w, NEW field, NEW fields, NEW rest, IsSeq(fields), IsSeq(rest)
  PROVE  WritesFirst(w, field, fields, rest)
<1> DEFINE x == WriteOf(w, field)
<1>1. Write(w, <<field>> \o fields) = <<x>> \o Write(w, fields)
  BY WriteCons DEF WriteOf
<1> HIDE DEF x
<1>2. (<<x>> \o Write(w, fields)) \o rest = <<x>> \o (Write(w, fields) \o rest)
  BY WriteCat, ConsCat
<1> QED
  BY <1>1, <1>2 DEF x, WritesFirst

(* Of the acknowledgement that is still to be read.                         *)
LEMMA ComingAck ==
  ASSUME NEW w, NEW rest, IsSeq(rest)
  PROVE  /\ Acked(w, <<>>) \o rest = rest
         /\ Acked(w, <<Ack>>) \o rest = <<AwaitOf(w)>> \o rest
         /\ AwaitAck(w) \o rest = <<AwaitOf(w)>> \o rest
         /\ Write(w, <<>>) \o rest = rest
<1>1. Acked(w, <<>>) \o rest = rest
  BY CatEmpty DEF Acked
<1>2. AwaitAck(w) \o rest = <<AwaitOf(w)>> \o rest
  BY DEF AwaitAck, AwaitOf
<1>3. Acked(w, <<Ack>>) = AwaitAck(w)
  <2>1. <<Ack>> # <<>>
    OBVIOUS
  <2> QED
    BY <2>1 DEF Acked
<1>5. Write(w, <<>>) = <<>>
  BY WriteCons, EmptyIsSeq
<1>6. Write(w, <<>>) \o rest = rest
  BY <1>5, CatEmpty
<1> QED
  BY <1>1, <1>2, <1>3, <1>6

(* While a configuration is read, the field that a worker asks for is the   *)
(* next one that it was sent.                                               *)
NextField(m, w, v, X, more, x, rest) ==
  LET field == Field(x.size, Told(m, w, x.id, x.field))
      left  == Write(w, Said(m, w, rest)) \o (AwaitAck(w) \o more)
  IN  IsSeq(left) /\ v.coming = Acked(w, v.ack) \o (<<WriteOf(w, field)>> \o left)

(* Reading the next field of a configuration.                                *)
LEMMA ReadingField ==
  ASSUME NEW m, NEW w, Sound(m, w), NEW v, NEW X, NEW Y, NEW more, NEW pairs, IsSeq(Y), IsSeq(more),
         Reading(m, w, v, X, Y, more, pairs), X # <<>>, Head(X).do = "read"
  PROVE  NextField(m, w, v, X, more, Head(X), Tail(X))
<1> DEFINE x     == Head(X)
           rest  == Tail(X)
           field == Field(x.size, Told(m, w, x.id, x.field))
           said  == Said(m, w, rest)
           end   == AwaitAck(w) \o more
<1>1. v.coming = Acked(w, v.ack) \o (Write(w, Said(m, w, X)) \o end)
  BY DEF Reading
<1>2. FirstOf(m, w, v, X, Y, x, rest)
  BY ReadingHead
<1>3. Says(m, w, x) = <<field>>
  BY DEF Says
<1>4. IsSeq(end)
  BY SmallLists, CatSeq
<1> HIDE DEF x, rest, field, end
<1>5. IsSeq(said) /\ Said(m, w, X) = <<field>> \o said
  BY <1>2, <1>3 DEF FirstOf
<1> HIDE DEF said
<1>6. IsSeq(Write(w, said) \o end)
  BY <1>4, <1>5, WriteCat, CatSeq
<1>7. Write(w, <<field>> \o said) \o end = <<WriteOf(w, field)>> \o (Write(w, said) \o end)
  <2>1. WritesFirst(w, field, said, end)
    BY <1>4, <1>5, ComingWrite
  <2> QED
    BY <2>1 DEF WritesFirst
<1>8. v.coming = Acked(w, v.ack) \o (<<WriteOf(w, field)>> \o (Write(w, said) \o end))
  BY <1>1, <1>5, <1>7
<1>9. NextField(m, w, v, X, more, x, rest)
  BY <1>6, <1>8 DEF NextField, field, said, end
<1> QED
  BY <1>9 DEF x, rest

(* A field of a configuration is read (nn-network.cpp:690-773).              *)
LEMMA ReadingRead ==
  ASSUME NEW m, NEW w, Sound(m, w), NEW v, NEW X, NEW Y, NEW more, NEW pairs, IsSeq(Y), IsSeq(more),
         Reading(m, w, v, X, Y, more, pairs), X # <<>>, Head(X).do = "read", v.ack = <<>>,
         NEW v2,
         v2.want = Tail(v.want), v2.coming = Tail(v.coming), v2.ack = v.ack, v2.loaded = v.loaded,
         v2.got = Put(v.got, Head(X).id, Head(X).field, Head(v.coming).field.value)
  PROVE  Reading(m, w, v2, Tail(X), Y, more, pairs)
<1> DEFINE x     == Head(X)
           X2    == Tail(X)
           field == Field(x.size, Told(m, w, x.id, x.field))
           rest  == Write(w, Said(m, w, X2)) \o (AwaitAck(w) \o more)
           p0    == <<x.id, x.field>>
<1>a. NextField(m, w, v, X, more, x, X2) /\ FirstOf(m, w, v, X, Y, x, X2)
  BY ReadingField, ReadingHead
<1>b. x.do = "read"
  OBVIOUS
<1>c. v2.got = Put(v.got, x.id, x.field, Head(v.coming).field.value)
  OBVIOUS
<1> HIDE DEF x, X2
<1>1. IsSeq(rest) /\ v.coming = Acked(w, v.ack) \o (<<WriteOf(w, field)>> \o rest)
      /\ Covers(m, w, x) = {p0}
  BY <1>a, <1>b DEF NextField, Covers
<1>2. /\ IsSeq(X2) /\ X = <<x>> \o X2
      /\ v.want = <<x>> \o (X2 \o (Give \o Y)) /\ IsSeq(X2 \o (Give \o Y))
      /\ \A y \in Elems(X2) : ItemOK(m, w, y)
      /\ Coverage(m, w, X) = Covers(m, w, x) \cup Coverage(m, w, X2)
      /\ InOrder(Known(v.got), <<x>> \o X2)
  BY <1>a DEF FirstOf
<1>3. /\ Known(v.got) \cup Coverage(m, w, X) = pairs
      /\ \A p \in Known(v.got) : v.got[p[1]][p[2]] = Told(m, w, p[1], p[2])
      /\ v.loaded = <<>>
  BY DEF Reading
<1>4. x.do = "read" /\ field.value = Told(m, w, x.id, x.field)
  BY <1>b DEF Field
<1> HIDE DEF field, rest, p0
<1>5. v.coming = <<WriteOf(w, field)>> \o rest
  <2>1. IsSeq(<<WriteOf(w, field)>> \o rest)
    BY <1>1, OneIsSeq, CatSeq
  <2>2. Acked(w, <<>>) \o (<<WriteOf(w, field)>> \o rest) = <<WriteOf(w, field)>> \o rest
    BY <2>1, ComingAck
  <2> QED
    BY <1>1, <2>2
<1>6. Head(v.coming) = WriteOf(w, field) /\ Tail(v.coming) = rest
  BY <1>1, <1>5, ConsHead
<1>7. Tail(v.want) = X2 \o (Give \o Y)
  BY <1>2, ConsHead
<1>8. v2.got = Put(v.got, x.id, x.field, Told(m, w, x.id, x.field))
  BY <1>c, <1>4, <1>6 DEF WriteOf
<1>9. /\ Known(v2.got) = Known(v.got) \cup {p0}
      /\ v2.got[x.id][x.field] = Told(m, w, x.id, x.field)
      /\ \A p \in Known(v.got) : p # p0 => v2.got[p[1]][p[2]] = v.got[p[1]][p[2]]
  <2>1. HasPut(v.got, v2.got, x.id, x.field, Told(m, w, x.id, x.field))
    BY <1>8, PutKnown
  <2> QED
    BY <2>1 DEF HasPut, p0
<1>10. \A p \in Known(v2.got) : v2.got[p[1]][p[2]] = Told(m, w, p[1], p[2])
  <2> SUFFICES ASSUME NEW p \in Known(v2.got) PROVE v2.got[p[1]][p[2]] = Told(m, w, p[1], p[2])
    OBVIOUS
  <2>1. CASE p = p0
    <3>1. p[1] = x.id /\ p[2] = x.field
      BY <2>1 DEF p0
    <3> QED
      BY <1>9, <3>1
  <2>2. CASE p # p0
    <3>1. p \in Known(v.got)
      BY <1>9, <2>2
    <3> QED
      BY <1>3, <1>9, <2>2, <3>1
  <2> QED
    BY <2>1, <2>2
<1>11. InOrder(Known(v2.got), X2)
  BY <1>2, <1>4, <1>9, InOrderHead DEF p0
<1>12. Known(v2.got) \cup Coverage(m, w, X2) = pairs
  BY <1>1, <1>2, <1>3, <1>9
<1>13. v2.coming = Acked(w, v2.ack) \o (Write(w, Said(m, w, X2)) \o (AwaitAck(w) \o more))
  <2>1. v2.coming = rest /\ v2.ack = <<>>
    BY <1>6
  <2>2. Acked(w, <<>>) \o rest = rest
    BY <1>1, ComingAck
  <2> QED
    BY <2>1, <2>2 DEF rest
<1> QED
  BY <1>2, <1>3, <1>7, <1>10, <1>11, <1>12, <1>13 DEF Reading, X2

(* A worker goes on with the items that a field it has read calls for       *)
(* (nn-network.cpp:599-605, 700-716, 735-773).                               *)
LEMMA ReadingExpand ==
  ASSUME NEW m, NEW w, Sound(m, w), NEW v, NEW X, NEW Y, NEW more, NEW pairs, IsSeq(Y), IsSeq(more),
         Reading(m, w, v, X, Y, more, pairs), X # <<>>, Head(X).do = "expand",
         NEW v2,
         v2.want = Expansion(Head(X).of, Head(X).id, v.got) \o Tail(v.want),
         v2.coming = v.coming, v2.ack = v.ack, v2.loaded = v.loaded, v2.got = v.got
  PROVE  Reading(m, w, v2, Expansion(Head(X).of, Head(X).id, v.got) \o Tail(X), Y, more, pairs)
<1> DEFINE x    == Head(X)
           X2   == Tail(X)
           item == [do |-> "expand", of |-> x.of, id |-> x.id]
           E    == Expansion(x.of, x.id, v.got)
           need == Needs(item)
<1>1. /\ IsSeq(X2) /\ X = <<x>> \o X2
      /\ v.want = <<x>> \o (X2 \o (Give \o Y)) /\ IsSeq(X2 \o (Give \o Y))
      /\ ItemOK(m, w, x) /\ \A y \in Elems(X2) : ItemOK(m, w, y)
      /\ IsSeq(Says(m, w, x)) /\ IsSeq(Said(m, w, X2))
      /\ Said(m, w, X) = Says(m, w, x) \o Said(m, w, X2)
      /\ Coverage(m, w, X) = Covers(m, w, x) \cup Coverage(m, w, X2)
      /\ InOrder(Known(v.got), <<x>> \o X2)
  <2>1. FirstOf(m, w, v, X, Y, x, X2)
    BY ReadingHead
  <2> HIDE DEF x, X2
  <2> QED
    BY <2>1 DEF FirstOf
<1>2. /\ v.coming = Acked(w, v.ack) \o (Write(w, Said(m, w, X)) \o (AwaitAck(w) \o more))
      /\ Known(v.got) \cup Coverage(m, w, X) = pairs
      /\ \A p \in Known(v.got) : v.got[p[1]][p[2]] = Told(m, w, p[1], p[2])
      /\ v.loaded = <<>> /\ v.ack = <<>>
  BY DEF Reading
<1>3. x.do = "expand" /\ <<x.of, x.id>> \in Expandable(m, w)
  BY <1>1 DEF ItemOK
<1>4. Needs(x) = need /\ Covers(m, w, x) = Covers(m, w, item) /\ Says(m, w, x) = Written(m, w, x.of, x.id)
  BY <1>3 DEF Needs, Covers, Says
<1> HIDE DEF x, X2, item, E, need
<1>5. need \in Known(v.got)
  BY <1>1, <1>3, <1>4, InOrderHead
<1>6. Built(m, w, E, Written(m, w, x.of, x.id), Covers(m, w, item), {})
  <2>1. v.got[need[1]][need[2]] = Told(m, w, need[1], need[2])
    BY <1>2, <1>5
  <2> QED
    BY <1>3, <2>1, BuiltExpansion DEF E, item, need
<1>7. /\ IsSeq(E) /\ \A y \in Elems(E) : ItemOK(m, w, y)
      /\ Said(m, w, E) = Says(m, w, x) /\ InOrder({}, E) /\ Coverage(m, w, E) = Covers(m, w, x)
  BY <1>4, <1>6 DEF Built
<1>8. IsSeq(E \o X2) /\ Elems(E \o X2) = Elems(E) \cup Elems(X2)
  BY <1>1, <1>7, Cat, CatElems
<1>9. \A y \in Elems(E \o X2) : ItemOK(m, w, y)
  BY <1>1, <1>7, <1>8
<1>10. Said(m, w, E \o X2) = Said(m, w, X)
  <2>1. \A y \in Elems(E) \cup Elems(X2) : IsSeq(Says(m, w, y))
    BY <1>8, <1>9 DEF Sound
  <2>2. IsSeq(E) /\ IsSeq(X2)
    BY <1>1, <1>7
  <2>3. Said(m, w, E \o X2) = Said(m, w, E) \o Said(m, w, X2)
    BY <2>1, <2>2, SaidCat
  <2> QED
    BY <1>1, <1>7, <2>3
<1>11. Coverage(m, w, E \o X2) = Coverage(m, w, X)
  <2>1. Coverage(m, w, E \o X2) = Coverage(m, w, E) \cup Coverage(m, w, X2)
    BY <1>8 DEF Coverage
  <2> QED
    BY <1>1, <1>7, <2>1
<1>12. InOrder(Known(v.got), E \o X2)
  <2>1. InOrder(Known(v.got), E)
    BY <1>7, InOrderMore
  <2>2. InOrder(Known(v.got), X2)
    BY <1>1, <1>3, InOrderHead
  <2> QED
    BY <1>1, <1>7, <2>1, <2>2, InOrderCat
<1>13. v2.want = (E \o X2) \o (Give \o Y)
  <2>1. Tail(v.want) = X2 \o (Give \o Y)
    BY <1>1, ConsHead
  <2>2. Associates(E, X2, Give \o Y)
    BY <1>1, <1>7, SmallLists, CatSeq, CatAssociates
  <2>3. v2.want = E \o (X2 \o (Give \o Y))
    BY <2>1 DEF E, x
  <2> QED
    BY <2>2, <2>3 DEF Associates
<1>14. v2.coming = Acked(w, v2.ack) \o (Write(w, Said(m, w, E \o X2)) \o (AwaitAck(w) \o more))
  BY <1>2, <1>10
<1>15. Reading(m, w, v2, E \o X2, Y, more, pairs)
  BY <1>2, <1>8, <1>9, <1>11, <1>12, <1>13, <1>14 DEF Reading
<1> QED
  BY <1>15 DEF E, x, X2

(* A worker has read a configuration and acknowledges it                    *)
(* (nn-network.cpp:714-716, 771-773).                                       *)
LEMMA ReadingGive ==
  ASSUME NEW m, NEW w, NEW v, NEW Y, NEW more, NEW pairs, IsSeq(Y), IsSeq(more),
         Reading(m, w, v, <<>>, Y, more, pairs)
  PROVE  /\ v.ack = <<>> /\ v.want = Give \o Y
         /\ v.coming = Acked(w, <<Ack>>) \o more
         /\ Known(v.got) = pairs
<1>1. /\ v.want = <<>> \o (Give \o Y)
      /\ v.coming = Acked(w, v.ack) \o (Write(w, Said(m, w, <<>>)) \o (AwaitAck(w) \o more))
      /\ Known(v.got) \cup Coverage(m, w, <<>>) = pairs
      /\ v.ack = <<>>
  BY DEF Reading
<1>2. Said(m, w, <<>>) = <<>>
  BY FlatEmpty, EmptyIsSeq DEF Said
<1>3. Coverage(m, w, <<>>) = {}
  BY ElemsOfNone DEF Coverage
<1>4. IsSeq(AwaitAck(w) \o more) /\ IsSeq(Give \o Y)
  BY SmallLists, CatSeq
<1>5. v.coming = AwaitAck(w) \o more
  <2> DEFINE end == AwaitAck(w) \o more
  <2>1. v.coming = Acked(w, <<>>) \o (Write(w, <<>>) \o end)
    BY <1>1, <1>2
  <2>2. IsSeq(end)
    BY <1>4
  <2> HIDE DEF end
  <2>3. Write(w, <<>>) \o end = end
    BY <2>2, ComingAck
  <2>4. Acked(w, <<>>) \o end = end
    BY <2>2, ComingAck
  <2>5. v.coming = end
    BY <2>1, <2>3, <2>4
  <2> QED
    BY <2>5 DEF end
<1>6. <<Ack>> # <<>>
  OBVIOUS
<1>7. Acked(w, <<Ack>>) = AwaitAck(w)
  BY <1>6 DEF Acked
<1>8. v.want = Give \o Y
  BY <1>1, <1>4, CatEmpty
<1> QED
  BY <1>1, <1>3, <1>5, <1>7, <1>8

-----------------------------------------------------------------------------
(* Steps of a worker that reads weights                                     *)

(* The fields of a weight, one by one (nn-network.cpp:820-826).              *)
LEMMA WeightFieldsAre ==
  ASSUME NEW m, NEW w, NEW k
  PROVE  LET weight == Weights(m)[k]
             n      == Cells(weight.slice.sliceSize)
             fields == WeightFields(m, w, k)
         IN  /\ fields[1] = UInt(strlen(weight.name) + 1)
             /\ fields[2] = Bytes(strlen(weight.name) + 1, weight.name)
             /\ fields[3] = UInt(weight.index) /\ fields[4] = Field(<<"nnsize">>, n)
             /\ fields[5] = Bytes(n, WeightPart(k, w))
<1> DEFINE weight == Weights(m)[k]
           n      == Cells(weight.slice.sliceSize)
           a      == UInt(strlen(weight.name) + 1)
           b      == Bytes(strlen(weight.name) + 1, weight.name)
           c      == UInt(weight.index)
           d      == Field(<<"nnsize">>, n)
           e      == Bytes(n, WeightPart(k, w))
           s      == <<a, b>>
           t      == <<c, d, e>>
           fields == WeightFields(m, w, k)
<1>1. fields = s \o t
  BY DEF WeightFields, String
<1> HIDE DEF a, b, c, d, e
<1>2. /\ IsSeq(s) /\ Len(s) = 2 /\ s[1] = a /\ s[2] = b
      /\ IsSeq(t) /\ Len(t) = 3 /\ t[1] = c /\ t[2] = d /\ t[3] = e
  <2>1. s[1] = a /\ s[2] = b /\ t[1] = c /\ t[2] = d /\ t[3] = e
    OBVIOUS
  <2> QED
    BY <2>1, List2, List3
<1> HIDE DEF s, t, fields
<1>3. \A i \in 1 .. 5 : fields[i] = IF i <= 2 THEN s[i] ELSE t[i - 2]
  <2>1. \A i \in 1 .. (Len(s) + Len(t)) : (s \o t)[i] = IF i <= Len(s) THEN s[i] ELSE t[i - Len(s)]
    BY <1>2, Cat
  <2>2. Len(s) = 2 /\ Len(s) + Len(t) = 5
    BY <1>2
  <2>3. \A i \in 1 .. (Len(s) + Len(t)) : fields[i] = IF i <= Len(s) THEN s[i] ELSE t[i - Len(s)]
    BY <1>1, <2>1
  <2> QED
    BY <2>2, <2>3
<1>4. fields[1] = a /\ fields[2] = b /\ fields[3] = c /\ fields[4] = d /\ fields[5] = e
  BY <1>2, <1>3
<1> QED
  BY <1>4 DEF a, b, c, d, e, fields

LeftIs(m, w, k) ==
  /\ \A n \in 0 .. 5 : IsSeq(LeftOf(m, w, k, n))
  /\ LeftOf(m, w, k, 0) = <<>> /\ LeftOf(m, w, k, 5) = WeightFields(m, w, k)
  /\ \A n \in 1 .. 5 :
       LeftOf(m, w, k, n) = <<WeightFields(m, w, k)[6 - n]>> \o LeftOf(m, w, k, n - 1)

(* The fields that are left, when one of them is read.                      *)
LEMMA LeftStep ==
  ASSUME NEW m, NEW w, NEW k
  PROVE  LeftIs(m, w, k)
<1> DEFINE fields == WeightFields(m, w, k)
           L(n)   == LeftOf(m, w, k, n)
<1>1. IsSeq(fields) /\ Len(fields) = 5
  BY FieldsAreLists
<1>2. \A n : L(n) = [i \in 1 .. n |-> fields[5 - n + i]]
  BY DEF LeftOf
<1> HIDE DEF fields, L
<1>3. \A n \in 0 .. 5 : IsSeq(L(n)) /\ Len(L(n)) = n /\ \A i \in 1 .. n : L(n)[i] = fields[5 - n + i]
  <2> SUFFICES ASSUME NEW n \in 0 .. 5
               PROVE  IsSeq(L(n)) /\ Len(L(n)) = n /\ \A i \in 1 .. n : L(n)[i] = fields[5 - n + i]
    OBVIOUS
  <2>1. \A i \in 1 .. n : L(n)[i] = fields[5 - n + i]
    BY <1>2
  <2>2. L(n) = [i \in 1 .. n |-> L(n)[i]]
    BY <1>2
  <2> QED
    BY <2>1, <2>2, SeqOfFcn
<1>4. L(0) = <<>>
  BY <1>3, SeqShape
<1>5. L(5) = fields
  <2>1. IsSeq(L(5)) /\ Len(L(5)) = 5 /\ \A i \in 1 .. 5 : L(5)[i] = fields[5 - 5 + i]
    BY <1>3
  <2>2. \A i \in 1 .. Len(L(5)) : L(5)[i] = fields[i]
    BY <2>1
  <2>3. IsSeq(L(5)) /\ IsSeq(fields) /\ Len(L(5)) = Len(fields)
    BY <1>1, <2>1
  <2> QED
    BY <2>2, <2>3, SameSeq
<1>6. ASSUME NEW n \in 1 .. 5
      PROVE  L(n) = <<fields[6 - n]>> \o L(n - 1)
  <2> DEFINE one == <<fields[6 - n]>>
             r   == L(n - 1)
  <2>1. IsSeq(one) /\ Len(one) = 1 /\ one[1] = fields[6 - n]
    BY OneIsSeq
  <2>2. IsSeq(r) /\ Len(r) = n - 1 /\ \A i \in 1 .. (n - 1) : r[i] = fields[6 - n + i]
    <3>1. n - 1 \in 0 .. 5
      OBVIOUS
    <3>2. IsSeq(r) /\ Len(r) = n - 1 /\ \A i \in 1 .. (n - 1) : r[i] = fields[5 - (n - 1) + i]
      BY <1>3, <3>1
    <3>3. \A i \in 1 .. (n - 1) : 5 - (n - 1) + i = 6 - n + i
      OBVIOUS
    <3> QED
      BY <3>2, <3>3
  <2> HIDE DEF one, r
  <2>3. IsSeq(one \o r) /\ Len(one \o r) = n
    <3>1. IsSeq(one \o r) /\ Len(one \o r) = Len(one) + Len(r)
      BY <2>1, <2>2, Cat
    <3> QED
      BY <2>1, <2>2, <3>1
  <2>4. ASSUME NEW i \in 1 .. n PROVE (one \o r)[i] = fields[5 - n + i]
    <3>1. (one \o r)[i] = IF i <= 1 THEN one[i] ELSE r[i - 1]
      <4>1. \A j \in 1 .. (Len(one) + Len(r)) :
              (one \o r)[j] = IF j <= Len(one) THEN one[j] ELSE r[j - Len(one)]
        BY <2>1, <2>2, Cat
      <4>2. Len(one) = 1 /\ i \in 1 .. (Len(one) + Len(r))
        BY <2>1, <2>2
      <4> QED
        BY <4>1, <4>2
    <3>2. CASE i = 1
      BY <2>1, <3>1, <3>2
    <3>3. CASE i # 1
      <4>1. i - 1 \in 1 .. (n - 1) /\ 6 - n + (i - 1) = 5 - n + i
        BY <3>3
      <4> QED
        BY <2>2, <3>1, <3>3, <4>1
    <3> QED
      BY <3>2, <3>3
  <2>5. IsSeq(L(n)) /\ Len(L(n)) = n /\ \A i \in 1 .. n : L(n)[i] = fields[5 - n + i]
    <3>1. n \in 0 .. 5
      OBVIOUS
    <3> QED
      BY <1>3, <3>1
  <2>6. L(n) = one \o r
    <3>1. \A i \in 1 .. Len(L(n)) : L(n)[i] = (one \o r)[i]
      BY <2>4, <2>5
    <3>2. IsSeq(L(n)) /\ IsSeq(one \o r) /\ Len(L(n)) = Len(one \o r)
      BY <2>3, <2>5
    <3> QED
      BY <3>1, <3>2, SameSeq
  <2> QED
    BY <2>6 DEF one, r
<1> QED
  BY <1>3, <1>4, <1>5, <1>6 DEF L, fields, LeftIs

(* What a worker reads of a weight does not disturb its configuration.      *)
LEMMA ConfigStays ==
  ASSUME NEW m, NEW w, NEW g, NEW put, NEW f, NEW value, HasConfig(m, w, g), HasPut(g, put, Locals, f, value)
  PROVE  HasConfig(m, w, put)
<1>1. Known(put) = Known(g) \cup {<<Locals, f>>}
  BY DEF HasPut
<1>2. \A p \in Known(g) : p # <<Locals, f>> => put[p[1]][p[2]] = g[p[1]][p[2]]
  BY DEF HasPut
<1>3. <<Locals, f>>[1] = Locals
  OBVIOUS
<1>4. {p \in Known(put) : p[1] # Locals} = {p \in Known(g) : p[1] # Locals}
  BY <1>1, <1>3
<1>5. ASSUME NEW p \in Known(put), p[1] # Locals
      PROVE  put[p[1]][p[2]] = Told(m, w, p[1], p[2])
  <2>1. p \in Known(g) /\ p # <<Locals, f>>
    BY <1>1, <1>3, <1>5
  <2>2. g[p[1]][p[2]] = Told(m, w, p[1], p[2])
    BY <1>5, <2>1 DEF HasConfig
  <2> QED
    BY <1>2, <2>1, <2>2
<1> QED
  BY <1>4, <1>5 DEF HasConfig

(* v2 is v after the worker has read a field, for the item x                *)
AfterRead(v, v2, x) ==
  /\ v2.want = Tail(v.want) /\ v2.coming = Tail(v.coming) /\ v2.ack = v.ack /\ v2.loaded = v.loaded
  /\ v2.got = Put(v.got, x.id, x.field, Head(v.coming).field.value)

FieldRead(m, w, v, v2, k, n, fields, x, R) ==
  /\ Head(v.want) = x /\ IsSeq(v.want)
  /\ Head(v.coming) = WriteOf(w, WeightFields(m, w, k)[6 - n])
  /\ ReadingWeight(m, w, v2, k, R, n - 1, fields \cup {x.field})
  /\ HasConfig(m, w, v2.got)

(* A field of a weight is read (nn-network.cpp:884-909).                     *)
LEMMA WeightRead ==
  ASSUME NEW m, NEW w, NEW v, NEW v2, NEW k, IsSeq(After(m, w, k)), NEW n \in 1 .. 4, NEW fields,
         NEW x, NEW R, IsSeq(R), ReadingWeight(m, w, v, k, <<x>> \o R, n, fields),
         HasConfig(m, w, v.got), x.id = Locals, AfterRead(v, v2, x),
         WeightFields(m, w, k)[6 - n].value = Local(m, w, k, x.field)
  PROVE  FieldRead(m, w, v, v2, k, n, fields, x, R)
<1> DEFINE field == WeightFields(m, w, k)[6 - n]
           rest  == LeftOf(m, w, k, n - 1)
           after == After(m, w, k)
           got2  == v2.got
<1>1. /\ v.want = <<x>> \o R /\ v.ack = <<>>
      /\ v.coming = Write(w, LeftOf(m, w, k, n)) \o after
      /\ Holds(m, w, v.got, k, fields)
      /\ Placed(m, w, v.loaded, k - 1)
  BY DEF ReadingWeight
<1>2. /\ v2.want = Tail(v.want) /\ v2.coming = Tail(v.coming) /\ v2.ack = v.ack /\ v2.loaded = v.loaded
      /\ got2 = Put(v.got, Locals, x.field, Head(v.coming).field.value)
  BY DEF AfterRead
<1>a. LeftIs(m, w, k)
  BY LeftStep
<1>3. IsSeq(after) /\ IsSeq(rest)
  <2>1. n - 1 \in 0 .. 5
    OBVIOUS
  <2> QED
    BY <1>a, <2>1 DEF LeftIs
<1>4. LeftOf(m, w, k, n) = <<field>> \o rest
  <2>1. n \in 1 .. 5
    OBVIOUS
  <2> QED
    BY <1>a, <2>1 DEF LeftIs
<1>5. field.value = Local(m, w, k, x.field)
  OBVIOUS
<1>6. ReadingWeight(m, w, v2, k, R, n - 1, fields \cup {x.field}) <=>
         /\ v2.want = R /\ v2.ack = <<>>
         /\ v2.coming = Write(w, rest) \o after
         /\ Holds(m, w, got2, k, fields \cup {x.field})
         /\ Placed(m, w, v2.loaded, k - 1)
  BY DEF ReadingWeight
<1> HIDE DEF field, rest, after, got2
<1>7. Write(w, <<field>> \o rest) \o after = <<WriteOf(w, field)>> \o (Write(w, rest) \o after)
  <2>1. WritesFirst(w, field, rest, after)
    BY <1>3, ComingWrite
  <2> QED
    BY <2>1 DEF WritesFirst
<1>8. IsSeq(Write(w, rest) \o after)
  BY <1>3, WriteCat, CatSeq
<1>9. Head(v.coming) = WriteOf(w, field) /\ Tail(v.coming) = Write(w, rest) \o after
  <2> DEFINE item == WriteOf(w, field)
             left == Write(w, rest) \o after
  <2>1. v.coming = <<item>> \o left
    BY <1>1, <1>4, <1>7
  <2>2. IsSeq(left)
    BY <1>8
  <2> HIDE DEF item, left
  <2>3. Head(v.coming) = item /\ Tail(v.coming) = left
    BY <2>1, <2>2, ConsHead
  <2> QED
    BY <2>3 DEF item, left
<1>10. Head(v.want) = x /\ Tail(v.want) = R /\ IsSeq(v.want)
  BY <1>1, ConsHead, OneIsSeq, CatSeq
<1>11. got2 = Put(v.got, Locals, x.field, Local(m, w, k, x.field))
  BY <1>2, <1>5, <1>9 DEF WriteOf
<1>12. HasPut(v.got, got2, Locals, x.field, Local(m, w, k, x.field))
  BY <1>11, PutKnown
<1>13. HasConfig(m, w, got2)
  BY <1>12, ConfigStays
<1>14. Holds(m, w, got2, k, fields \cup {x.field})
  <2>1. /\ DOMAIN got2 = DOMAIN v.got \cup {Locals}
        /\ x.field \in DOMAIN got2[Locals] /\ got2[Locals][x.field] = Local(m, w, k, x.field)
        /\ Locals \in DOMAIN v.got =>
             \A h \in DOMAIN v.got[Locals] :
               h \in DOMAIN got2[Locals] /\ (h # x.field => got2[Locals][h] = v.got[Locals][h])
    BY <1>12 DEF HasPut
  <2> QED
    BY <1>1, <2>1 DEF Holds
<1> QED
  BY <1>1, <1>2, <1>6, <1>9, <1>10, <1>13, <1>14 DEF field, got2, FieldRead

(* The items of the reader of weights                                       *)
ReadItem(size, id, field) == [do |-> "read", size |-> size, id |-> id, field |-> field]

ExpandItem(of, id) == [do |-> "expand", of |-> of, id |-> id]

LoadItem == [do |-> "load"]

GiveItem == [do |-> "give"]

(* The items one after the other (nn-network.cpp:884-909).                   *)
LEMMA WeightItems ==
  /\ \A size, id, field : Read(size, id, field) = <<ReadItem(size, id, field)>>
  /\ \A of, id : Expand(of, id) = <<ExpandItem(of, id)>>
  /\ ReadWeight = <<ReadItem(<<"uint">>, Locals, "bytes")>> \o Expand("weight", Locals)
  /\ FromLoad = <<LoadItem>> \o ReadWeight
  /\ FromSize = <<ReadItem(<<"nnsize">>, Locals, "nBytes")>> \o FromData(Expand("data", Locals))
  /\ FromIndex = <<ReadItem(<<"uint">>, Locals, "index")>> \o FromSize
  /\ Give = <<GiveItem>>
BY DEF Read, ReadItem, Expand, ExpandItem, ReadUInt, ReadWeight, FromLoad, LoadItem, FromSize,
       FromIndex, Give, GiveItem

(* They are lists.                                                          *)
LEMMA WeightItemLists ==
  /\ IsSeq(ReadWeight) /\ IsSeq(FromLoad) /\ IsSeq(FromSize) /\ IsSeq(FromIndex)
  /\ \A item : IsSeq(item) => IsSeq(FromData(item)) /\ IsSeq(FromName(item))
<1>1. IsSeq(ReadWeight) /\ (\A of, id : IsSeq(Expand(of, id))) /\ \A x : IsSeq(<<x>>)
  BY SmallLists, OneIsSeq
<1>2. IsSeq(FromLoad)
  BY <1>1, CatSeq DEF FromLoad
<1>3. \A item : IsSeq(item) => IsSeq(FromData(item))
  BY <1>2, CatSeq DEF FromData
<1>4. IsSeq(FromSize)
  BY <1>1, <1>3, SmallLists, CatSeq DEF FromSize
<1>5. IsSeq(FromIndex)
  BY <1>4, SmallLists, CatSeq DEF FromIndex
<1>6. \A item : IsSeq(item) => IsSeq(FromName(item))
  BY <1>5, CatSeq DEF FromName
<1> QED
  BY <1>1, <1>2, <1>3, <1>4, <1>5, <1>6

(* The length of the name tells whether another weight follows              *)
(* (nn-network.cpp:893-897).                                                 *)
LEMMA WeightExpansions ==
  ASSUME NEW g
  PROVE  /\ g[Locals].bytes # 0 => Expansion("weight", Locals, g) = FromName(Expand("name", Locals))
         /\ g[Locals].bytes = 0 => Expansion("weight", Locals, g) = Give
         /\ Expansion("name", Locals, g) = Read(<<"bytes", g[Locals].bytes>>, Locals, "name")
         /\ Expansion("data", Locals, g) = Read(<<"bytes", g[Locals].nBytes>>, Locals, "data")
<1>0. \A of \in {"name", "config", "weight", "data"} : of \notin DOMAIN CountOf
  BY DEF CountOf
<1>1. g[Locals].bytes # 0 => Expansion("weight", Locals, g) = FromName(Expand("name", Locals))
  <2> SUFFICES ASSUME g[Locals].bytes # 0
               PROVE  Expansion("weight", Locals, g) = FromName(Expand("name", Locals))
    OBVIOUS
  <2> DEFINE a == Expand("name", Locals)
             b == ReadUInt(Locals, "index")
             c == Read(<<"nnsize">>, Locals, "nBytes")
             d == Expand("data", Locals)
             e == << [do |-> "load"] >>
             f == ReadWeight
  <2>1. Expansion("weight", Locals, g) = ((((a \o b) \o c) \o d) \o e) \o f
    BY <1>0 DEF Expansion
  <2>2. FromName(a) = a \o (b \o (c \o (d \o (e \o f))))
    BY DEF FromName, FromIndex, FromSize, FromData, FromLoad
  <2>3. IsSeq(a) /\ IsSeq(b) /\ IsSeq(c) /\ IsSeq(d) /\ IsSeq(e) /\ IsSeq(f)
    BY SmallLists, OneIsSeq
  <2> HIDE DEF a, b, c, d, e, f
  <2>4. Regroups(a, b, c, d, e, f)
    BY <2>3, Regroup
  <2>5. Expansion("weight", Locals, g) = FromName(a)
    BY <2>1, <2>2, <2>4 DEF Regroups
  <2> QED
    BY <2>5 DEF a
<1>2. g[Locals].bytes = 0 => Expansion("weight", Locals, g) = Give
  BY <1>0 DEF Expansion
<1>3. /\ Expansion("name", Locals, g) = Read(<<"bytes", g[Locals].bytes>>, Locals, "name")
      /\ Expansion("data", Locals, g) = Read(<<"bytes", g[Locals].nBytes>>, Locals, "data")
  BY <1>0 DEF Expansion
<1> QED
  BY <1>1, <1>2, <1>3

(* The worker asks for as many bytes as the next field has.                 *)
Asked(v) == Head(v.want).size = Head(v.coming).field.size

(* what is left to read after the next item *)
Next1(v, x, R) == v.want = <<x>> \o R /\ IsSeq(R) /\ Head(v.want) = x

(* The item that is read next, and those after it.                           *)
LEMMA NextItem ==
  ASSUME NEW v, NEW x, NEW R, IsSeq(R), v.want = <<x>> \o R
  PROVE  /\ Next1(v, x, R) /\ Tail(v.want) = R /\ v.want # <<>> /\ IsSeq(v.want)
         /\ Len(v.want) = Len(R) + 1
BY ConsHead, OneIsSeq, CatSeq DEF Next1

(* The items of each step in a weight                                       *)
StageItem(m, w, k, stage) ==
  CASE stage = 1 -> ExpandItem("weight", Locals)
    [] stage = 2 -> ExpandItem("name", Locals)
    [] stage = 3 -> ReadItem(<<"bytes", strlen(Local(m, w, k, "name")) + 1>>, Locals, "name")
    [] stage = 4 -> ReadItem(<<"uint">>, Locals, "index")
    [] stage = 5 -> ReadItem(<<"nnsize">>, Locals, "nBytes")
    [] stage = 6 -> ExpandItem("data", Locals)
    [] stage = 7 -> ReadItem(<<"bytes", Local(m, w, k, "nBytes")>>, Locals, "data")
    [] stage = 8 -> LoadItem

StageRest(stage) ==
  CASE stage = 1 -> <<>>
    [] stage \in {2, 3} -> FromIndex
    [] stage = 4 -> FromSize
    [] stage = 5 -> FromData(Expand("data", Locals))
    [] stage \in {6, 7} -> FromLoad
    [] stage = 8 -> ReadWeight

StageLeft(stage) ==
  CASE stage \in {1, 2, 3} -> 4
    [] stage = 4 -> 3
    [] stage = 5 -> 2
    [] stage \in {6, 7} -> 1
    [] stage = 8 -> 0

StageFields(stage) ==
  CASE stage \in {1, 2, 3} -> {"bytes"}
    [] stage = 4 -> {"bytes", "name"}
    [] stage = 5 -> {"bytes", "name", "index"}
    [] stage \in {6, 7} -> {"bytes", "name", "index", "nBytes"}
    [] stage = 8 -> {"bytes", "name", "index", "nBytes", "data"}

AtStage(m, w, v, k, stage) ==
  ReadingWeight(m, w, v, k, <<StageItem(m, w, k, stage)>> \o StageRest(stage), StageLeft(stage), StageFields(stage))

(* The steps one by one.                                                    *)
LEMMA StageTable ==
  ASSUME NEW m, NEW w, NEW k
  PROVE  /\ StageItem(m, w, k, 1) = ExpandItem("weight", Locals)
         /\ StageItem(m, w, k, 2) = ExpandItem("name", Locals)
         /\ StageItem(m, w, k, 3) = ReadItem(<<"bytes", strlen(Local(m, w, k, "name")) + 1>>, Locals, "name")
         /\ StageItem(m, w, k, 4) = ReadItem(<<"uint">>, Locals, "index")
         /\ StageItem(m, w, k, 5) = ReadItem(<<"nnsize">>, Locals, "nBytes")
         /\ StageItem(m, w, k, 6) = ExpandItem("data", Locals)
         /\ StageItem(m, w, k, 7) = ReadItem(<<"bytes", Local(m, w, k, "nBytes")>>, Locals, "data")
         /\ StageItem(m, w, k, 8) = LoadItem
BY DEF StageItem

(* What is left after each step, and what has been read before it.          *)
LEMMA StageRests ==
  /\ StageRest(1) = <<>> /\ StageRest(2) = FromIndex /\ StageRest(3) = FromIndex
  /\ StageRest(4) = FromSize /\ StageRest(5) = FromData(Expand("data", Locals))
  /\ StageRest(6) = FromLoad /\ StageRest(7) = FromLoad /\ StageRest(8) = ReadWeight
  /\ StageLeft(1) = 4 /\ StageLeft(2) = 4 /\ StageLeft(3) = 4 /\ StageLeft(4) = 3
  /\ StageLeft(5) = 2 /\ StageLeft(6) = 1 /\ StageLeft(7) = 1 /\ StageLeft(8) = 0
  /\ StageFields(1) = {"bytes"} /\ StageFields(2) = {"bytes"} /\ StageFields(3) = {"bytes"}
  /\ StageFields(4) = {"bytes", "name"} /\ StageFields(5) = {"bytes", "name", "index"}
  /\ StageFields(6) = {"bytes", "name", "index", "nBytes"}
  /\ StageFields(7) = {"bytes", "name", "index", "nBytes"}
  /\ StageFields(8) = {"bytes", "name", "index", "nBytes", "data"}
<1>1. /\ StageRest(1) = <<>> /\ StageRest(2) = FromIndex /\ StageRest(3) = FromIndex
      /\ StageRest(4) = FromSize /\ StageRest(5) = FromData(Expand("data", Locals))
      /\ StageRest(6) = FromLoad /\ StageRest(7) = FromLoad /\ StageRest(8) = ReadWeight
  BY DEF StageRest
<1>2. /\ StageLeft(1) = 4 /\ StageLeft(2) = 4 /\ StageLeft(3) = 4 /\ StageLeft(4) = 3
      /\ StageLeft(5) = 2 /\ StageLeft(6) = 1 /\ StageLeft(7) = 1 /\ StageLeft(8) = 0
  BY DEF StageLeft
<1>3. /\ StageFields(1) = {"bytes"} /\ StageFields(2) = {"bytes"} /\ StageFields(3) = {"bytes"}
      /\ StageFields(4) = {"bytes", "name"} /\ StageFields(5) = {"bytes", "name", "index"}
      /\ StageFields(6) = {"bytes", "name", "index", "nBytes"}
      /\ StageFields(7) = {"bytes", "name", "index", "nBytes"}
      /\ StageFields(8) = {"bytes", "name", "index", "nBytes", "data"}
  BY DEF StageFields
<1> QED
  BY <1>1, <1>2, <1>3

(* Reading a weight goes through eight steps.                               *)
LEMMA Stages ==
  ASSUME NEW m, NEW w, NEW v, NEW k
  PROVE  InWeight(m, w, v, k) <=> \E stage \in 1 .. 8 : AtStage(m, w, v, k, stage)
<1> DEFINE name == Local(m, w, k, "name")
           size == Local(m, w, k, "nBytes")
<1>1. Expand("weight", Locals) = <<StageItem(m, w, k, 1)>> \o StageRest(1)
  <2>1. <<StageItem(m, w, k, 1)>> \o <<>> = <<StageItem(m, w, k, 1)>>
    BY OneIsSeq, CatEmpty
  <2> QED
    BY <2>1, StageTable, StageRests, WeightItems
<1>2. FromName(Expand("name", Locals)) = <<StageItem(m, w, k, 2)>> \o StageRest(2)
  BY StageTable, StageRests, WeightItems DEF FromName
<1>3. FromName(Read(<<"bytes", strlen(name) + 1>>, Locals, "name")) = <<StageItem(m, w, k, 3)>> \o StageRest(3)
  BY StageTable, StageRests, WeightItems DEF FromName
<1>4. FromIndex = <<StageItem(m, w, k, 4)>> \o StageRest(4)
  BY StageTable, StageRests, WeightItems
<1>5. FromSize = <<StageItem(m, w, k, 5)>> \o StageRest(5)
  BY StageTable, StageRests, WeightItems
<1>6. FromData(Expand("data", Locals)) = <<StageItem(m, w, k, 6)>> \o StageRest(6)
  BY StageTable, StageRests, WeightItems DEF FromData
<1>7. FromData(Read(<<"bytes", size>>, Locals, "data")) = <<StageItem(m, w, k, 7)>> \o StageRest(7)
  BY StageTable, StageRests, WeightItems DEF FromData
<1>8. FromLoad = <<StageItem(m, w, k, 8)>> \o StageRest(8)
  BY StageTable, StageRests, WeightItems
<1> HIDE DEF name, size
<1>9. InWeight(m, w, v, k) <=>
        \/ AtStage(m, w, v, k, 1) \/ AtStage(m, w, v, k, 2) \/ AtStage(m, w, v, k, 3)
        \/ AtStage(m, w, v, k, 4) \/ AtStage(m, w, v, k, 5) \/ AtStage(m, w, v, k, 6)
        \/ AtStage(m, w, v, k, 7) \/ AtStage(m, w, v, k, 8)
  BY <1>1, <1>2, <1>3, <1>4, <1>5, <1>6, <1>7, <1>8, StageRests DEF InWeight, AtStage, name, size
<1> QED
  BY <1>9

(* The field that a step reads is the one that was written, and the next    *)
(* step follows.                                                            *)
StageReadsField(m, w, k, stage, x, field) ==
  /\ x.do = "read" /\ x.id = Locals /\ field.size = x.size
  /\ field.value = Local(m, w, k, x.field)
  /\ IsSeq(StageRest(stage)) /\ StageLeft(stage) \in 1 .. 4
  /\ StageRest(stage) = <<StageItem(m, w, k, stage + 1)>> \o StageRest(stage + 1)
  /\ StageLeft(stage + 1) = StageLeft(stage) - 1
  /\ StageFields(stage + 1) = StageFields(stage) \cup {x.field}
  /\ stage + 1 \in 1 .. 8

(* The fields of a weight that the steps of its reader ask for              *)
(* (nn-network.cpp:820-826, 884-909).                                        *)
LEMMA StageReads ==
  ASSUME NEW m, NEW w, NEW k, NEW stage \in {3, 4, 5, 7}
  PROVE  StageReadsField(m, w, k, stage, StageItem(m, w, k, stage), WeightFields(m, w, k)[6 - StageLeft(stage)])
<1> DEFINE weight == Weights(m)[k]
<1>1. /\ Local(m, w, k, "name") = weight.name /\ Local(m, w, k, "index") = weight.index
      /\ Local(m, w, k, "nBytes") = Cells(weight.slice.sliceSize)
      /\ Local(m, w, k, "data") = WeightPart(k, w)
  BY DEF Local
<1>2. /\ \A size, id, f : LET x == ReadItem(size, id, f)
                          IN  x.do = "read" /\ x.id = id /\ x.size = size /\ x.field = f
      /\ \A size, value : Field(size, value).size = size /\ Field(size, value).value = value
  BY DEF ReadItem, Field
<1>3. /\ WeightFields(m, w, k)[2] = Bytes(strlen(weight.name) + 1, weight.name)
      /\ WeightFields(m, w, k)[3] = UInt(weight.index)
      /\ WeightFields(m, w, k)[4] = Field(<<"nnsize">>, Cells(weight.slice.sliceSize))
      /\ WeightFields(m, w, k)[5] = Bytes(Cells(weight.slice.sliceSize), WeightPart(k, w))
  BY WeightFieldsAre
<1> HIDE DEF weight
<1>4. CASE stage = 3
  <2>1. /\ StageItem(m, w, k, 3) = ReadItem(<<"bytes", strlen(weight.name) + 1>>, Locals, "name")
        /\ StageItem(m, w, k, 4) = ReadItem(<<"uint">>, Locals, "index")
    BY <1>1, StageTable
  <2>2. StageRest(3) = <<StageItem(m, w, k, 4)>> \o StageRest(4) /\ IsSeq(StageRest(3))
    BY <2>1, StageRests, WeightItems, WeightItemLists
  <2>3. 6 - StageLeft(3) = 2 /\ StageLeft(4) = StageLeft(3) - 1 /\ StageFields(4) = StageFields(3) \cup {"name"}
        /\ StageLeft(3) \in 1 .. 4
    BY StageRests
  <2> QED
    BY <1>1, <1>2, <1>3, <1>4, <2>1, <2>2, <2>3 DEF Bytes, StageReadsField
<1>5. CASE stage = 4
  <2>1. /\ StageItem(m, w, k, 4) = ReadItem(<<"uint">>, Locals, "index")
        /\ StageItem(m, w, k, 5) = ReadItem(<<"nnsize">>, Locals, "nBytes")
    BY StageTable
  <2>2. StageRest(4) = <<StageItem(m, w, k, 5)>> \o StageRest(5) /\ IsSeq(StageRest(4))
    BY <2>1, StageRests, WeightItems, WeightItemLists
  <2>3. 6 - StageLeft(4) = 3 /\ StageLeft(5) = StageLeft(4) - 1 /\ StageFields(5) = StageFields(4) \cup {"index"}
        /\ StageLeft(4) \in 1 .. 4
    BY StageRests
  <2> QED
    BY <1>1, <1>2, <1>3, <1>5, <2>1, <2>2, <2>3 DEF UInt, StageReadsField
<1>6. CASE stage = 5
  <2>1. /\ StageItem(m, w, k, 5) = ReadItem(<<"nnsize">>, Locals, "nBytes")
        /\ StageItem(m, w, k, 6) = ExpandItem("data", Locals)
    BY StageTable
  <2>2. StageRest(5) = <<StageItem(m, w, k, 6)>> \o StageRest(6) /\ IsSeq(StageRest(5))
    <3>1. IsSeq(StageRest(5))
      BY StageRests, SmallLists, WeightItemLists
    <3>2. StageRest(5) = Expand("data", Locals) \o FromLoad
      BY StageRests DEF FromData
    <3> QED
      BY <2>1, <3>1, <3>2, StageRests, WeightItems
  <2>3. 6 - StageLeft(5) = 4 /\ StageLeft(6) = StageLeft(5) - 1 /\ StageFields(6) = StageFields(5) \cup {"nBytes"}
        /\ StageLeft(5) \in 1 .. 4
    BY StageRests
  <2> QED
    BY <1>1, <1>2, <1>3, <1>6, <2>1, <2>2, <2>3 DEF StageReadsField
<1>7. CASE stage = 7
  <2>1. /\ StageItem(m, w, k, 7) = ReadItem(<<"bytes", Cells(weight.slice.sliceSize)>>, Locals, "data")
        /\ StageItem(m, w, k, 8) = LoadItem
    BY <1>1, StageTable
  <2>2. StageRest(7) = <<StageItem(m, w, k, 8)>> \o StageRest(8) /\ IsSeq(StageRest(7))
    BY <2>1, StageRests, WeightItems, WeightItemLists
  <2>3. 6 - StageLeft(7) = 5 /\ StageLeft(8) = StageLeft(7) - 1 /\ StageFields(8) = StageFields(7) \cup {"data"}
        /\ StageLeft(7) \in 1 .. 4
    BY StageRests
  <2> QED
    BY <1>1, <1>2, <1>3, <1>7, <2>1, <2>2, <2>3 DEF Bytes, StageReadsField
<1> QED
  BY <1>4, <1>5, <1>6, <1>7

(* The other items are expanded, or load the weight.                        *)
LEMMA StageKinds ==
  ASSUME NEW m, NEW w, NEW k
  PROVE  /\ \A stage \in {1, 2, 6} : StageItem(m, w, k, stage).do = "expand" /\ StageItem(m, w, k, stage).id = Locals
         /\ \A stage \in {3, 4, 5, 7} : StageItem(m, w, k, stage).do = "read"
         /\ StageItem(m, w, k, 8).do = "load"
         /\ StageItem(m, w, k, 1).of = "weight" /\ StageItem(m, w, k, 2).of = "name"
         /\ StageItem(m, w, k, 6).of = "data"
         /\ \A stage \in 1 .. 8 : IsSeq(StageRest(stage))
<1>2. \A stage \in 1 .. 8 : IsSeq(StageRest(stage))
  <2>1. /\ IsSeq(StageRest(1)) /\ IsSeq(StageRest(2)) /\ IsSeq(StageRest(3)) /\ IsSeq(StageRest(4))
        /\ IsSeq(StageRest(5)) /\ IsSeq(StageRest(6)) /\ IsSeq(StageRest(7)) /\ IsSeq(StageRest(8))
    BY StageRests, WeightItemLists, SmallLists, EmptyIsSeq
  <2> QED
    BY <2>1
<1>3. StageItem(m, w, k, 1) = ExpandItem("weight", Locals)
      /\ StageItem(m, w, k, 2) = ExpandItem("name", Locals)
      /\ StageItem(m, w, k, 6) = ExpandItem("data", Locals)
      /\ StageItem(m, w, k, 8) = LoadItem
  BY StageTable
<1>4. /\ \E size : StageItem(m, w, k, 3) = ReadItem(size, Locals, "name")
      /\ \E size : StageItem(m, w, k, 4) = ReadItem(size, Locals, "index")
      /\ \E size : StageItem(m, w, k, 5) = ReadItem(size, Locals, "nBytes")
      /\ \E size : StageItem(m, w, k, 7) = ReadItem(size, Locals, "data")
  BY StageTable
<1>5. /\ StageItem(m, w, k, 3).do = "read" /\ StageItem(m, w, k, 4).do = "read"
      /\ StageItem(m, w, k, 5).do = "read" /\ StageItem(m, w, k, 7).do = "read"
  BY <1>4 DEF ReadItem
<1>6. /\ StageItem(m, w, k, 1).do = "expand" /\ StageItem(m, w, k, 1).id = Locals
      /\ StageItem(m, w, k, 2).do = "expand" /\ StageItem(m, w, k, 2).id = Locals
      /\ StageItem(m, w, k, 6).do = "expand" /\ StageItem(m, w, k, 6).id = Locals
      /\ StageItem(m, w, k, 1).of = "weight" /\ StageItem(m, w, k, 2).of = "name"
      /\ StageItem(m, w, k, 6).of = "data" /\ StageItem(m, w, k, 8).do = "load"
  BY <1>3 DEF ExpandItem, LoadItem
<1> QED
  BY <1>2, <1>5, <1>6

(* A field of a weight is read as it was written, and the next is expected  *)
(* (nn-network.cpp:820-826, 884-909).                                        *)
LEMMA InWeightRead ==
  ASSUME NEW m \in Models, NEW w, NEW v, NEW v2, NEW k \in 1 .. LastWeight(m), InWeight(m, w, v, k),
         HasConfig(m, w, v.got), Head(v.want).do = "read", AfterRead(v, v2, Head(v.want))
  PROVE  /\ InWeight(m, w, v2, k) /\ HasConfig(m, w, v2.got) /\ Asked(v)
         /\ v2.want # <<>>
<1>1. PICK stage \in 1 .. 8 : AtStage(m, w, v, k, stage)
  BY Stages
<1> DEFINE x     == StageItem(m, w, k, stage)
           R     == StageRest(stage)
           n     == StageLeft(stage)
           f     == StageFields(stage)
           field == WeightFields(m, w, k)[6 - n]
<1>2. ReadingWeight(m, w, v, k, <<x>> \o R, n, f)
  BY <1>1 DEF AtStage
<1>3. IsSeq(R)
  BY StageKinds
<1>4. Head(v.want) = x
  <2>1. v.want = <<x>> \o R
    BY <1>2 DEF ReadingWeight
  <2> HIDE DEF x, R
  <2> QED
    BY <1>3, <2>1, NextItem DEF Next1
<1>5. stage \in {3, 4, 5, 7}
  BY <1>4, StageKinds
<1>a. StageReadsField(m, w, k, stage, x, field)
  BY <1>5, StageReads
<1>7. IsSeq(After(m, w, k))
  BY ModelFacts, AfterStep DEF LastWeight
<1>8. AfterRead(v, v2, x)
  BY <1>4
<1>6. /\ x.id = Locals /\ field.size = x.size
      /\ field.value = Local(m, w, k, x.field) /\ n \in 1 .. 4
      /\ R = <<StageItem(m, w, k, stage + 1)>> \o StageRest(stage + 1)
      /\ StageLeft(stage + 1) = n - 1
      /\ StageFields(stage + 1) = f \cup {x.field}
      /\ stage + 1 \in 1 .. 8
  <2> HIDE DEF x, field
  <2> QED
    BY <1>a DEF StageReadsField
<1>b. WeightFields(m, w, k)[6 - n].value = Local(m, w, k, x.field)
  BY <1>6
<1> HIDE DEF x, R, n, f
<1>c. n \in 1 .. 4 /\ x.id = Locals
  BY <1>6
<1>d. FieldRead(m, w, v, v2, k, n, f, x, R)
  BY <1>2, <1>3, <1>7, <1>8, <1>b, <1>c, WeightRead
<1>9. /\ Head(v.coming) = WriteOf(w, field)
      /\ ReadingWeight(m, w, v2, k, R, n - 1, f \cup {x.field})
      /\ HasConfig(m, w, v2.got)
  BY <1>d DEF FieldRead
<1>10. AtStage(m, w, v2, k, stage + 1)
  BY <1>6, <1>9 DEF AtStage
<1>11. InWeight(m, w, v2, k)
  BY <1>6, <1>10, Stages
<1>12. Asked(v)
  BY <1>4, <1>6, <1>9 DEF Asked, WriteOf
<1>13. v2.want # <<>>
  <2> DEFINE y == StageItem(m, w, k, stage + 1)
             Q == StageRest(stage + 1)
  <2>1. v2.want = <<y>> \o Q
    BY <1>10 DEF AtStage, ReadingWeight
  <2>2. IsSeq(Q)
    BY <1>6, StageKinds
  <2> HIDE DEF y, Q
  <2> QED
    BY <2>1, <2>2, NextItem
<1> QED
  BY <1>9, <1>11, <1>12, <1>13

-----------------------------------------------------------------------------
(* Weights and operations                                                   *)

(* g has the configuration of a node.                                       *)
AgreesWith(m, w, g) ==
  \A id \in ConfigIds(m, w) : \A f \in StructFields[id[1]] : g[id][f] = Structure(m, w, id)[f]

(* the operations of a node *)
OpsOf(m, w) ==
  LET segments == NodeConfig(m, w).segments
  IN  UNION {{<<"ops", s, i>> : i \in 1 .. Len(segments[s].ops)} : s \in 1 .. Len(segments)}

(* Who has a configuration has the operations.                              *)
LEMMA SameOps ==
  ASSUME NEW m \in Models, NEW w, NEW g, AgreesWith(m, w, g)
  PROVE  /\ OpIds(g) = OpsOf(m, w) /\ OpsOf(m, w) \subseteq ConfigIds(m, w)
         /\ \A p \in OpsOf(m, w) :
              LET op == NodeConfig(m, w).segments[p[2]].ops[p[3]]
              IN  g[p].name = op.name /\ g[p].index = op.index /\ g[p].weightSize = op.weightSize
<1> DEFINE node     == NodeConfig(m, w)
           segments == node.segments
<1>1. ConfigShape(NetConfig(m), node)
  BY ModelFacts DEF Sound
<1>2. /\ IsSeq(segments) /\ node.nSegments = Len(segments) /\ DOMAIN segments = 1 .. Len(segments)
      /\ \A s \in 1 .. Len(segments) :
           /\ IsSeq(segments[s].ops) /\ segments[s].nOps = Len(segments[s].ops)
           /\ DOMAIN segments[s].ops = 1 .. Len(segments[s].ops)
  BY <1>1, SeqShape DEF ConfigShape, IsSegment
<1>3. /\ Node \in ConfigIds(m, w)
      /\ \A s \in 1 .. Len(segments) : <<"segments", 0, s>> \in ConfigIds(m, w)
      /\ \A s \in 1 .. Len(segments) : \A i \in 1 .. Len(segments[s].ops) : <<"ops", s, i>> \in ConfigIds(m, w)
  BY <1>2, IdForms
<1>4. /\ Structure(m, w, Node) = node
      /\ \A s : Structure(m, w, <<"segments", 0, s>>) = segments[s]
      /\ \A s, i : Structure(m, w, <<"ops", s, i>>) = segments[s].ops[i]
  <2>1. "segments" \in OfNode /\ "ops" \in OfSegment
    BY DEF OfNode, OfSegment
  <2>2. \A s, i : Structure(m, w, <<"ops", s, i>>) = segments[s]["ops"][i]
    BY <2>1, Structures
  <2>3. \A s : Structure(m, w, <<"segments", 0, s>>) = node["segments"][s]
    BY <2>1, Structures
  <2> QED
    BY <2>2, <2>3, Structures
<1>5. /\ "nSegments" \in StructFields[Node[1]] /\ "nOps" \in StructFields["segments"]
      /\ {"name", "index", "weightSize"} \subseteq StructFields["ops"]
  BY DEF StructFields, Node
<1> HIDE DEF node
<1>6. g[Node].nSegments = Len(segments)
  BY <1>2, <1>3, <1>4, <1>5 DEF AgreesWith
<1>7. ASSUME NEW s \in 1 .. Len(segments)
      PROVE  g[<<"segments", 0, s>>].nOps = Len(segments[s].ops)
  <2>1. <<"segments", 0, s>> \in ConfigIds(m, w) /\ <<"segments", 0, s>>[1] = "segments"
    BY <1>3
  <2>2. g[<<"segments", 0, s>>]["nOps"] = Structure(m, w, <<"segments", 0, s>>)["nOps"]
    BY <1>5, <2>1 DEF AgreesWith
  <2> QED
    BY <1>2, <1>4, <2>2
<1>8. OpIds(g) = OpsOf(m, w)
  BY <1>6, <1>7 DEF OpIds, OpsOf, node
<1>9. OpsOf(m, w) \subseteq ConfigIds(m, w)
  BY <1>3 DEF OpsOf, node
<1>10. ASSUME NEW p \in OpsOf(m, w)
       PROVE  LET op == segments[p[2]].ops[p[3]]
              IN  g[p].name = op.name /\ g[p].index = op.index /\ g[p].weightSize = op.weightSize
  <2>1. PICK s \in 1 .. Len(segments) : \E i \in 1 .. Len(segments[s].ops) : p = <<"ops", s, i>>
    BY DEF OpsOf, node
  <2>2. PICK i \in 1 .. Len(segments[s].ops) : p = <<"ops", s, i>>
    BY <2>1
  <2>3. p[1] = "ops" /\ p[2] = s /\ p[3] = i /\ p \in ConfigIds(m, w)
    BY <1>9, <2>2
  <2>4. \A f \in {"name", "index", "weightSize"} : g[p][f] = Structure(m, w, p)[f]
    BY <1>5, <2>3 DEF AgreesWith
  <2>5. Structure(m, w, p) = segments[s].ops[i]
    BY <1>4, <2>2
  <2> QED
    BY <2>3, <2>4, <2>5
<1> QED
  BY <1>8, <1>9, <1>10 DEF node

(* A worker that has read its configuration has it.                         *)
LEMMA ReadAgrees ==
  ASSUME NEW m, NEW w, NEW g, HasConfig(m, w, g)
  PROVE  AgreesWith(m, w, g)
<1> SUFFICES ASSUME NEW id \in ConfigIds(m, w), NEW f \in StructFields[id[1]]
             PROVE  g[id][f] = Structure(m, w, id)[f]
  BY DEF AgreesWith
<1>1. id[1] # "locals"
  BY IdForms DEF Net, Node
<1>2. id # Locals
  BY <1>1 DEF Locals
<1>3. f # "bytes"
  <2>1. id[1] \in {"net", "node", "pipes", "preSyncs", "buffers", "segments", "syncs", "ops", "cacheSyncs"}
    BY IdForms DEF Net, Node
  <2>2. \A a \in {"net", "node", "pipes", "preSyncs", "buffers", "segments", "syncs", "ops", "cacheSyncs"} :
          "bytes" \notin StructFields[a]
    BY DEF StructFields
  <2> QED
    BY <2>1, <2>2
<1>4. <<id, f>> \in Pairs(m, w)
  BY DEF Pairs, FieldsIn
<1>5. <<id, f>>[1] = id /\ <<id, f>>[2] = f
  OBVIOUS
<1>6. <<id, f>> \in Known(g)
  BY <1>2, <1>4, <1>5 DEF HasConfig
<1>7. g[id][f] = Told(m, w, id, f)
  BY <1>2, <1>5, <1>6 DEF HasConfig
<1> QED
  BY <1>2, <1>3, <1>7 DEF Told

(* So does the root, for every node.                                        *)
LEMMA MadeAgrees ==
  ASSUME NEW m \in Models, NEW w \in Nodes(m)
  PROVE  /\ AgreesWith(m, w, Configs[m][w])
         /\ DOMAIN Configs[m][w] = ConfigIds(m, w)
         /\ \A id \in ConfigIds(m, w) :
              Configs[m][w][id] = [f \in StructFields[id[1]] |-> Structure(m, w, id)[f]]
<1>1. Configs[m][w] = Structs(NetConfig(m), NodeConfig(m, w))
  BY DEF Configs
<1> QED
  BY <1>1 DEF Structs, AgreesWith, ConfigIds, Structure

(* loadWeight finds the operation that the configuration of the root names  *)
(* (nn-executor.cpp:133-147).                                               *)
LEMMA SamePlace ==
  ASSUME NEW m \in Models, NEW w \in Nodes(m), NEW g, AgreesWith(m, w, g), NEW name, NEW index
  PROVE  /\ Locate(g, name, index) = Locate(Configs[m][w], name, index)
         /\ \A p \in Locate(g, name, index) : g[p].weightSize = Configs[m][w][p].weightSize
<1> DEFINE h == Configs[m][w]
<1>1. AgreesWith(m, w, h)
  BY MadeAgrees
<1> HIDE DEF h
<1>2. OpIds(g) = OpsOf(m, w) /\ OpIds(h) = OpsOf(m, w)
  BY <1>1, SameOps
<1>3. ASSUME NEW p \in OpsOf(m, w)
      PROVE  g[p].name = h[p].name /\ g[p].index = h[p].index /\ g[p].weightSize = h[p].weightSize
  <2> DEFINE op == NodeConfig(m, w).segments[p[2]].ops[p[3]]
  <2>1. g[p].name = op.name /\ g[p].index = op.index /\ g[p].weightSize = op.weightSize
    BY SameOps
  <2>2. h[p].name = op.name /\ h[p].index = op.index /\ h[p].weightSize = op.weightSize
    BY <1>1, SameOps
  <2> QED
    BY <2>1, <2>2
<1> QED
  BY <1>2, <1>3 DEF Locate, h

(* One weight more has been loaded (nn-executor.cpp:133-147).               *)
LEMMA PlacedMore ==
  ASSUME NEW m, NEW n, NEW ld, NEW ld2, NEW k \in Nat \ {0}, Placed(m, n, ld, k - 1), Given(m, n, k),
         Locate(Configs[m][n], Weights(m)[k].name, Weights(m)[k].index) # {},
         ld2 = With(ld, Place(m, n, k), WeightPart(k, n))
  PROVE  Placed(m, n, ld2, k)
<1> DEFINE p0 == Place(m, n, k)
<1>1. ld2 = [y \in DOMAIN ld \cup {p0} |-> IF y = p0 THEN WeightPart(k, n) ELSE ld[y]]
  BY DEF With
<1>2. DOMAIN ld2 = DOMAIN ld \cup {p0} /\ ld2[p0] = WeightPart(k, n)
      /\ \A p \in DOMAIN ld : p # p0 => ld2[p] = ld[p]
  BY <1>1
<1>3. WeightPart(k, n).weight = k /\ WeightPart(k, n).node = n
  BY DEF WeightPart
<1>4. ASSUME NEW p \in DOMAIN ld2
      PROVE  /\ ld2[p].weight \in 1 .. k /\ ld2[p].node = n /\ Given(m, n, ld2[p].weight)
             /\ p = Place(m, n, ld2[p].weight)
             /\ Locate(Configs[m][n], Weights(m)[ld2[p].weight].name, Weights(m)[ld2[p].weight].index) # {}
  <2>1. CASE p = p0
    <3>1. ld2[p].weight = k /\ ld2[p].node = n
      BY <1>2, <1>3, <2>1
    <3>2. k \in 1 .. k
      OBVIOUS
    <3> QED
      BY <2>1, <3>1, <3>2
  <2>2. CASE p # p0
    <3>1. p \in DOMAIN ld /\ ld2[p] = ld[p]
      BY <1>2, <2>2
    <3>2. /\ ld[p].weight \in 1 .. (k - 1) /\ ld[p].node = n /\ Given(m, n, ld[p].weight)
          /\ p = Place(m, n, ld[p].weight)
          /\ Locate(Configs[m][n], Weights(m)[ld[p].weight].name, Weights(m)[ld[p].weight].index) # {}
      BY <3>1 DEF Placed
    <3>3. \A x \in 1 .. (k - 1) : x \in 1 .. k
      OBVIOUS
    <3> QED
      BY <3>1, <3>2, <3>3
  <2> QED
    BY <2>1, <2>2
<1>5. ASSUME NEW j \in 1 .. k, Given(m, n, j) PROVE Place(m, n, j) \in DOMAIN ld2
  <2>1. CASE j = k
    BY <1>2, <2>1
  <2>2. CASE j # k
    <3>1. j \in 1 .. (k - 1)
      BY <2>2
    <3> QED
      BY <1>2, <1>5, <3>1 DEF Placed
  <2> QED
    BY <2>1, <2>2
<1> QED
  BY <1>4, <1>5 DEF Placed
(* v2 is v after the worker has gone on to what the item x stands for       *)
AfterExpand(v, v2, x) ==
  /\ v2.want = Expansion(x.of, x.id, v.got) \o Tail(v.want)
  /\ v2.coming = v.coming /\ v2.ack = v.ack /\ v2.loaded = v.loaded /\ v2.got = v.got

(* A step that is expanded becomes the next step.                           *)
StageExpands(m, w, k, g, stage) ==
  /\ Expansion(StageItem(m, w, k, stage).of, StageItem(m, w, k, stage).id, g) \o StageRest(stage)
       = <<StageItem(m, w, k, stage + 1)>> \o StageRest(stage + 1)
  /\ StageLeft(stage + 1) = StageLeft(stage) /\ StageFields(stage + 1) = StageFields(stage)
  /\ stage + 1 \in 1 .. 8

(* The length of the name, and that of the data, have been read before      *)
(* (nn-network.cpp:599-605, 893-905).                                        *)
LEMMA StageExpanded ==
  ASSUME NEW m \in Models, NEW w, NEW k \in 1 .. LastWeight(m), NEW g, NEW stage \in {1, 2, 6},
         Holds(m, w, g, k, StageFields(stage))
  PROVE  StageExpands(m, w, k, g, stage)
<1>1. strlen(Weights(m)[k].name) \in Nat
  BY ModelFacts DEF LastWeight
<1>2. g[Locals].bytes = strlen(Weights(m)[k].name) + 1
  <2>1. "bytes" \in StageFields(stage)
    BY StageRests
  <2>2. g[Locals]["bytes"] = Local(m, w, k, "bytes")
    BY <2>1 DEF Holds
  <2>3. Local(m, w, k, "bytes") = strlen(Weights(m)[k].name) + 1
    BY DEF Local
  <2> QED
    BY <2>2, <2>3
<1>3. Local(m, w, k, "name") = Weights(m)[k].name
  BY DEF Local
<1>4. CASE stage = 1
  <2>1. g[Locals].bytes # 0
    BY <1>1, <1>2
  <2>2. Expansion("weight", Locals, g) = FromName(Expand("name", Locals))
    BY <2>1, WeightExpansions
  <2>3. Expansion("weight", Locals, g) \o <<>> = FromName(Expand("name", Locals))
    BY <2>2, WeightItemLists, SmallLists, CatEmpty
  <2>4. FromName(Expand("name", Locals)) = <<ExpandItem("name", Locals)>> \o FromIndex
    BY WeightItems DEF FromName
  <2>5. StageItem(m, w, k, 1).of = "weight" /\ StageItem(m, w, k, 1).id = Locals
    BY StageKinds
  <2>6. /\ StageRest(1) = <<>> /\ StageRest(2) = FromIndex
        /\ StageItem(m, w, k, 2) = ExpandItem("name", Locals)
        /\ StageLeft(2) = StageLeft(1) /\ StageFields(2) = StageFields(1)
    BY StageRests, StageTable
  <2> QED
    BY <1>4, <2>3, <2>4, <2>5, <2>6 DEF StageExpands
<1>5. CASE stage = 2
  <2> DEFINE n == strlen(Weights(m)[k].name) + 1
             item == ReadItem(<<"bytes", n>>, Locals, "name")
  <2>1. Expansion("name", Locals, g) = Read(<<"bytes", n>>, Locals, "name")
    BY <1>2, WeightExpansions
  <2>2. Expansion("name", Locals, g) = <<item>>
    BY <2>1, WeightItems
  <2>3. StageItem(m, w, k, 3) = item
    BY <1>3, StageTable
  <2> HIDE DEF n, item
  <2>5. StageItem(m, w, k, 2).of = "name" /\ StageItem(m, w, k, 2).id = Locals
    BY StageKinds
  <2>6. /\ StageRest(2) = FromIndex /\ StageRest(3) = FromIndex
        /\ StageLeft(3) = StageLeft(2) /\ StageFields(3) = StageFields(2)
    BY StageRests
  <2>7. Expansion(StageItem(m, w, k, 2).of, StageItem(m, w, k, 2).id, g) \o StageRest(2)
          = <<StageItem(m, w, k, 3)>> \o StageRest(3)
    BY <2>2, <2>3, <2>5, <2>6
  <2>8. stage = 2 /\ stage + 1 = 3
    BY <1>5
  <2>9. stage + 1 \in 1 .. 8
    BY <2>8
  <2> QED
    BY <2>6, <2>7, <2>8, <2>9 DEF StageExpands
<1>6. CASE stage = 6
  <2> DEFINE n == Local(m, w, k, "nBytes")
             item == ReadItem(<<"bytes", n>>, Locals, "data")
  <2>0. g[Locals].nBytes = n
    <3>1. "nBytes" \in StageFields(6)
      BY StageRests
    <3>2. g[Locals]["nBytes"] = Local(m, w, k, "nBytes")
      BY <1>6, <3>1 DEF Holds
    <3> QED
      BY <3>2
  <2>1. Expansion("data", Locals, g) = Read(<<"bytes", n>>, Locals, "data")
    BY <2>0, WeightExpansions
  <2>2. Expansion("data", Locals, g) = <<item>>
    BY <2>1, WeightItems
  <2>3. StageItem(m, w, k, 7) = item
    BY StageTable
  <2> HIDE DEF n, item
  <2>5. StageItem(m, w, k, 6).of = "data" /\ StageItem(m, w, k, 6).id = Locals
    BY StageKinds
  <2>6. /\ StageRest(6) = FromLoad /\ StageRest(7) = FromLoad
        /\ StageLeft(7) = StageLeft(6) /\ StageFields(7) = StageFields(6)
    BY StageRests
  <2>7. Expansion(StageItem(m, w, k, 6).of, StageItem(m, w, k, 6).id, g) \o StageRest(6)
          = <<StageItem(m, w, k, 7)>> \o StageRest(7)
    BY <2>2, <2>3, <2>5, <2>6
  <2>8. stage = 6 /\ stage + 1 = 7
    BY <1>6
  <2>9. stage + 1 \in 1 .. 8
    BY <2>8
  <2> QED
    BY <2>6, <2>7, <2>8, <2>9 DEF StageExpands
<1> QED
  BY <1>4, <1>5, <1>6

(* A worker goes on with the name or the data of a weight                   *)
(* (nn-network.cpp:893-905).                                                 *)
LEMMA InWeightExpand ==
  ASSUME NEW m \in Models, NEW w, NEW v, NEW v2, NEW k \in 1 .. LastWeight(m), InWeight(m, w, v, k),
         Head(v.want).do = "expand", AfterExpand(v, v2, Head(v.want))
  PROVE  InWeight(m, w, v2, k) /\ v2.want # <<>>
<1>1. PICK stage \in 1 .. 8 : AtStage(m, w, v, k, stage)
  BY Stages
<1> DEFINE x == StageItem(m, w, k, stage)
           R == StageRest(stage)
<1>2. /\ v.want = <<x>> \o R /\ v.ack = <<>>
      /\ v.coming = Write(w, LeftOf(m, w, k, StageLeft(stage))) \o After(m, w, k)
      /\ Holds(m, w, v.got, k, StageFields(stage))
      /\ Placed(m, w, v.loaded, k - 1)
  BY <1>1 DEF AtStage, ReadingWeight
<1>3. IsSeq(R)
  BY StageKinds
<1>4. Head(v.want) = x /\ Tail(v.want) = R
  <2> HIDE DEF x, R
  <2> QED
    BY <1>2, <1>3, NextItem DEF Next1
<1>5. stage \in {1, 2, 6}
  BY <1>4, StageKinds
<1>6. StageExpands(m, w, k, v.got, stage)
  BY <1>2, <1>5, StageExpanded
<1>7. v2.want = Expansion(x.of, x.id, v.got) \o R
  BY <1>4 DEF AfterExpand
<1> DEFINE y == StageItem(m, w, k, stage + 1)
           Q == StageRest(stage + 1)
<1>8. /\ v2.want = <<y>> \o Q /\ stage + 1 \in 1 .. 8
      /\ StageLeft(stage + 1) = StageLeft(stage) /\ StageFields(stage + 1) = StageFields(stage)
  BY <1>6, <1>7 DEF StageExpands
<1>9. v2.coming = v.coming /\ v2.ack = v.ack /\ v2.loaded = v.loaded /\ v2.got = v.got
  BY DEF AfterExpand
<1>10. AtStage(m, w, v2, k, stage + 1)
  BY <1>2, <1>8, <1>9 DEF AtStage, ReadingWeight
<1>11. InWeight(m, w, v2, k)
  BY <1>8, <1>10, Stages
<1>12. IsSeq(Q)
  BY <1>8, StageKinds
<1>13. v2.want # <<>>
  <2> HIDE DEF y, Q
  <2> QED
    BY <1>8, <1>12, NextItem
<1> QED
  BY <1>11, <1>13

(* v2 is v after the worker has loaded what it has read.                    *)
AfterLoad(v, v2) ==
  LET weight == v.got[Locals]
  IN  /\ Loadable(v.got, weight.name, weight.index, weight.nBytes)
      /\ v2.loaded = With(v.loaded, First(Locate(v.got, weight.name, weight.index)), weight.data)
      /\ v2.want = Tail(v.want) /\ v2.coming = v.coming /\ v2.ack = v.ack /\ v2.got = v.got

(* A worker has loaded a weight (nn-network.cpp:897-906,                     *)
(* nn-executor.cpp:133-147).                                                *)
LEMMA InWeightLoad ==
  ASSUME NEW m \in Models, NEW w \in Nodes(m), NEW v, NEW v2, NEW k \in 2 .. LastWeight(m),
         InWeight(m, w, v, k), HasConfig(m, w, v.got), Head(v.want).do = "load", AfterLoad(v, v2)
  PROVE  BetweenWeights(m, w, v2, k) /\ v2.want # <<>>
<1>0. LastWeight(m) \in Nat /\ k \in 1 .. LastWeight(m)
  BY ModelFacts, WeightsShape DEF LastWeight
<1>1. PICK stage \in 1 .. 8 : AtStage(m, w, v, k, stage)
  BY Stages
<1> DEFINE x == StageItem(m, w, k, stage)
           R == StageRest(stage)
<1>2. /\ v.want = <<x>> \o R /\ v.ack = <<>>
      /\ v.coming = Write(w, LeftOf(m, w, k, StageLeft(stage))) \o After(m, w, k)
      /\ Holds(m, w, v.got, k, StageFields(stage))
      /\ Placed(m, w, v.loaded, k - 1)
  BY <1>1 DEF AtStage, ReadingWeight
<1>3. IsSeq(R)
  BY StageKinds
<1>4. Head(v.want) = x /\ Tail(v.want) = R
  <2> HIDE DEF x, R
  <2> QED
    BY <1>2, <1>3, NextItem DEF Next1
<1>5. stage = 8
  BY <1>4, StageKinds
<1>6. R = ReadWeight /\ StageLeft(8) = 0 /\ StageFields(8) = {"bytes", "name", "index", "nBytes", "data"}
  BY <1>5, StageRests
<1>7. v.coming = After(m, w, k)
  <2>1. LeftOf(m, w, k, 0) = <<>>
    BY LeftStep DEF LeftIs
  <2>2. IsSeq(After(m, w, k))
    BY <1>0, ModelFacts, AfterStep DEF LastWeight
  <2>3. Write(w, <<>>) \o After(m, w, k) = After(m, w, k)
    BY <2>2, ComingAck
  <2> QED
    BY <1>2, <1>5, <1>6, <2>1, <2>3
<1>8. v2.want = ReadWeight /\ v2.ack = <<>>
  BY <1>2, <1>4, <1>6 DEF AfterLoad
<1>9. v2.coming = Acked(w, v2.ack) \o After(m, w, k)
  <2>1. IsSeq(After(m, w, k))
    BY <1>0, ModelFacts, AfterStep DEF LastWeight
  <2>2. Acked(w, <<>>) \o After(m, w, k) = After(m, w, k)
    BY <2>1, ComingAck
  <2>3. v2.coming = v.coming
    BY DEF AfterLoad
  <2> QED
    BY <1>7, <1>8, <2>2, <2>3
<1> DEFINE name  == Weights(m)[k].name
           index == Weights(m)[k].index
           mine  == v.got
<1>10. mine[Locals].name = name /\ mine[Locals].index = index /\ mine[Locals].data = WeightPart(k, w)
  <2>1. \A f \in {"bytes", "name", "index", "nBytes", "data"} : mine[Locals][f] = Local(m, w, k, f)
    BY <1>2, <1>5, <1>6 DEF Holds
  <2>2. /\ Local(m, w, k, "name") = name /\ Local(m, w, k, "index") = index
        /\ Local(m, w, k, "data") = WeightPart(k, w)
    BY DEF Local
  <2> QED
    BY <2>1, <2>2
<1>11. Locate(mine, name, index) = Locate(Configs[m][w], name, index)
  BY ReadAgrees, SamePlace
<1>12. /\ Locate(mine, name, index) # {}
       /\ v2.loaded = With(v.loaded, First(Locate(mine, name, index)), WeightPart(k, w))
  BY <1>10 DEF AfterLoad, Loadable
<1>13. First(Locate(mine, name, index)) = Place(m, w, k)
  BY <1>11 DEF Place
<1>14. Given(m, w, k)
  BY ModelFacts, WeightsShape DEF Given, LastWeight
<1>15. Placed(m, w, v2.loaded, k)
  <2>1. k \in Nat \ {0}
    BY <1>0
  <2>2. Locate(Configs[m][w], Weights(m)[k].name, Weights(m)[k].index) # {}
    BY <1>11, <1>12
  <2>3. v2.loaded = With(v.loaded, Place(m, w, k), WeightPart(k, w))
    BY <1>12, <1>13
  <2> QED
    BY <1>2, <1>14, <2>1, <2>2, <2>3, PlacedMore
<1>16. v2.want # <<>>
  <2>1. IsSeq(Expand("weight", Locals))
    BY SmallLists
  <2>2. v2.want = <<ReadItem(<<"uint">>, Locals, "bytes")>> \o Expand("weight", Locals)
    BY <1>8, WeightItems
  <2> QED
    BY <2>1, <2>2, NextItem
<1> QED
  BY <1>8, <1>9, <1>15, <1>16 DEF BetweenWeights
-----------------------------------------------------------------------------
(* Between two weights, and at the end                                      *)

(* A list of one.                                                           *)
LEMMA Single ==
  \A x : <<x>> # <<>> /\ Head(<<x>>) = x /\ Tail(<<x>>) = <<>> /\ Len(<<x>>) = 1
<1> SUFFICES ASSUME NEW x
             PROVE  <<x>> # <<>> /\ Head(<<x>>) = x /\ Tail(<<x>>) = <<>> /\ Len(<<x>>) = 1
  OBVIOUS
<1>1. <<x>> \o <<>> = <<x>>
  BY OneIsSeq, CatEmpty
<1>2. Head(<<x>> \o <<>>) = x /\ Tail(<<x>> \o <<>>) = <<>> /\ <<x>> \o <<>> # <<>>
  BY EmptyIsSeq, ConsHead
<1> QED
  BY <1>1, <1>2, OneIsSeq

(* The length of the name of the next weight has been read, or a zero       *)
(* (nn-network.cpp:787-792, 893-895).                                        *)
LEMMA BetweenRead ==
  ASSUME NEW m \in Models, NEW w, NEW v, NEW v2, NEW k \in 1 .. LastWeight(m),
         BetweenWeights(m, w, v, k), HasConfig(m, w, v.got), v.ack = <<>>, AfterRead(v, v2, Head(v.want))
  PROVE  /\ Asked(v) /\ HasConfig(m, w, v2.got) /\ v2.want # <<>>
         /\ k < LastWeight(m) => InWeight(m, w, v2, k + 1)
         /\ k = LastWeight(m) => Ending(m, w, v2)
<1> DEFINE item == ReadItem(<<"uint">>, Locals, "bytes")
           more == Expand("weight", Locals)
           last == LastWeight(m)
<1>1. /\ v.want = ReadWeight /\ v.coming = Acked(w, v.ack) \o After(m, w, k)
      /\ Placed(m, w, v.loaded, k)
  BY DEF BetweenWeights
<1>2. last \in Nat \ {0, 1} /\ m.nLayers \in Nat
  BY ModelFacts, WeightsShape DEF LastWeight
<1>3. IsSeq(After(m, w, k))
  BY <1>2, AfterStep DEF LastWeight
<1>4. v.coming = After(m, w, k)
  <2>1. Acked(w, <<>>) \o After(m, w, k) = After(m, w, k)
    BY <1>3, ComingAck
  <2> QED
    BY <1>1, <2>1
<1>5. v.want = <<item>> \o more /\ IsSeq(more)
  BY <1>1, WeightItems, SmallLists
<1>6. item.do = "read" /\ item.id = Locals /\ item.field = "bytes" /\ item.size = <<"uint">>
  BY DEF ReadItem
<1>7. more = <<ExpandItem("weight", Locals)>>
  BY WeightItems
<1>8. more # <<>>
  BY <1>7, Single
<1>9. Head(v.want) = item /\ Tail(v.want) = more
  <2> HIDE DEF item, more
  <2> QED
    BY <1>5, NextItem DEF Next1
<1>10. /\ v2.want = more /\ v2.coming = Tail(v.coming) /\ v2.ack = <<>> /\ v2.loaded = v.loaded
       /\ v2.got = Put(v.got, Locals, "bytes", Head(v.coming).field.value)
  BY <1>6, <1>9 DEF AfterRead
<1>11. HasPut(v.got, v2.got, Locals, "bytes", Head(v.coming).field.value)
  BY <1>10, PutKnown
<1>12. HasConfig(m, w, v2.got)
  BY <1>11, ConfigStays
<1>13. /\ Locals \in DOMAIN v2.got /\ "bytes" \in DOMAIN v2.got[Locals]
       /\ v2.got[Locals]["bytes"] = Head(v.coming).field.value
  BY <1>11 DEF HasPut
<1> HIDE DEF item, more
<1>14. CASE k < last
  <2> DEFINE field == WeightFields(m, w, k + 1)[1]
             left  == LeftOf(m, w, k + 1, 4)
             after == After(m, w, k + 1)
  <2>1. k \in 1 .. (last - 1) /\ k + 1 \in 1 .. last /\ (k + 1) - 1 = k
    BY <1>2, <1>14
  <2>2. After(m, w, k) = Write(w, WeightFields(m, w, k + 1)) \o after
    BY <1>2, <2>1, AfterStep DEF LastWeight
  <2>3. IsSeq(after)
    BY <1>2, <2>1, AfterStep DEF LastWeight
  <2>4. WeightFields(m, w, k + 1) = <<field>> \o left /\ IsSeq(left)
    <3>1. LeftIs(m, w, k + 1)
      BY LeftStep
    <3>2. LeftOf(m, w, k + 1, 5) = <<WeightFields(m, w, k + 1)[6 - 5]>> \o LeftOf(m, w, k + 1, 5 - 1)
      <4>1. 5 \in 1 .. 5
        OBVIOUS
      <4> QED
        BY <3>1, <4>1 DEF LeftIs
    <3>3. LeftOf(m, w, k + 1, 5) = WeightFields(m, w, k + 1) /\ IsSeq(LeftOf(m, w, k + 1, 4))
      <4>1. 4 \in 0 .. 5
        OBVIOUS
      <4> QED
        BY <3>1, <4>1 DEF LeftIs
    <3>4. 6 - 5 = 1 /\ 5 - 1 = 4
      OBVIOUS
    <3> QED
      BY <3>2, <3>3, <3>4
  <2>5. field = UInt(strlen(Weights(m)[k + 1].name) + 1)
    BY WeightFieldsAre
  <2>6. field.size = <<"uint">> /\ field.value = Local(m, w, k + 1, "bytes")
    BY <2>5 DEF UInt, Field, Local
  <2>a. ReadingWeight(m, w, v2, k + 1, Expand("weight", Locals), 4, {"bytes"}) => InWeight(m, w, v2, k + 1)
    BY DEF InWeight
  <2>b. ReadingWeight(m, w, v2, k + 1, Expand("weight", Locals), 4, {"bytes"}) <=>
          /\ v2.want = Expand("weight", Locals) /\ v2.ack = <<>>
          /\ v2.coming = Write(w, left) \o after
          /\ Holds(m, w, v2.got, k + 1, {"bytes"})
          /\ Placed(m, w, v2.loaded, (k + 1) - 1)
    BY DEF ReadingWeight
  <2> HIDE DEF field, left, after
  <2>7. v.coming = <<WriteOf(w, field)>> \o (Write(w, left) \o after)
    <3>1. WritesFirst(w, field, left, after)
      BY <2>3, <2>4, ComingWrite
    <3> QED
      BY <1>4, <2>2, <2>4, <3>1 DEF WritesFirst
  <2>8. IsSeq(Write(w, left) \o after)
    BY <2>3, <2>4, WriteCat, CatSeq
  <2>9. Head(v.coming) = WriteOf(w, field) /\ Tail(v.coming) = Write(w, left) \o after
    <3> DEFINE x    == WriteOf(w, field)
               rest == Write(w, left) \o after
    <3>1. v.coming = <<x>> \o rest /\ IsSeq(rest)
      BY <2>7, <2>8
    <3> HIDE DEF x, rest
    <3>2. Head(v.coming) = x /\ Tail(v.coming) = rest
      BY <3>1, ConsHead
    <3> QED
      BY <3>2 DEF x, rest
  <2>10. Head(v.coming).field = field
    BY <2>9 DEF WriteOf
  <2>11. Asked(v)
    BY <1>6, <1>9, <2>6, <2>10 DEF Asked
  <2>12. Holds(m, w, v2.got, k + 1, {"bytes"})
    BY <1>13, <2>6, <2>10 DEF Holds
  <2>13. ReadingWeight(m, w, v2, k + 1, Expand("weight", Locals), 4, {"bytes"})
    BY <1>1, <1>10, <2>1, <2>9, <2>12, <2>b DEF more
  <2> QED
    BY <1>8, <1>10, <1>12, <1>14, <2>11, <2>13, <2>a
<1>15. CASE k = last
  <2>1. After(m, w, k) = Write(w, <<UInt(0)>>) \o AwaitAck(w)
    BY <1>2, <1>15, AfterStep DEF LastWeight
  <2>2. Write(w, <<UInt(0)>>) = <<WriteOf(w, UInt(0))>>
    BY WriteCons, EmptyIsSeq DEF WriteOf
  <2>3. v.coming = <<WriteOf(w, UInt(0))>> \o AwaitAck(w)
    BY <1>4, <2>1, <2>2
  <2>4. Head(v.coming) = WriteOf(w, UInt(0)) /\ Tail(v.coming) = AwaitAck(w)
    <3> DEFINE x    == WriteOf(w, UInt(0))
               rest == AwaitAck(w)
    <3>1. v.coming = <<x>> \o rest /\ IsSeq(rest)
      BY <2>3, SmallLists
    <3> HIDE DEF x, rest
    <3>2. Head(v.coming) = x /\ Tail(v.coming) = rest
      BY <3>1, ConsHead
    <3> QED
      BY <3>2 DEF x, rest
  <2>5. Head(v.coming).field.size = <<"uint">> /\ Head(v.coming).field.value = 0
    BY <2>4 DEF WriteOf, UInt, Field
  <2>6. Asked(v)
    BY <1>6, <1>9, <2>5 DEF Asked
  <2>7. Ending(m, w, v2)
    BY <1>1, <1>10, <1>13, <1>15, <2>4, <2>5 DEF Ending, more
  <2> QED
    BY <1>8, <1>10, <1>12, <1>15, <2>6, <2>7
<1>16. k < last \/ k = last
  BY <1>2
<1> QED
  BY <1>14, <1>15, <1>16

(* v2 is v after the worker has sent an acknowledgement.                    *)
AfterGive(v, v2) ==
  /\ v2.want = Tail(v.want) /\ v2.ack = Append(v.ack, Ack)
  /\ v2.coming = v.coming /\ v2.loaded = v.loaded /\ v2.got = v.got

(* Giving the acknowledgement that the root waits for                       *)
LEMMA GaveAck ==
  ASSUME NEW v, NEW v2, v.ack = <<>>, AfterGive(v, v2)
  PROVE  v2.ack = <<Ack>>
<1>1. Append(<<>>, Ack) = <<Ack>>
  OBVIOUS
<1> QED
  BY <1>1 DEF AfterGive

(* The worker has read the zero, and acknowledges it                        *)
(* (nn-network.cpp:896-897).                                                 *)
LEMMA EndingSteps ==
  ASSUME NEW m \in Models, NEW w, NEW v, NEW v2, Ending(m, w, v)
  PROVE  /\ Head(v.want).do \in {"expand", "give"}
         /\ Head(v.want).do = "expand" /\ AfterExpand(v, v2, Head(v.want)) =>
              Ending(m, w, v2) /\ v2.want # <<>>
         /\ Head(v.want).do = "give" /\ AfterGive(v, v2) =>
              Finished(m, w, v2) /\ v2.want = <<>> /\ v2.ack = <<Ack>>
         /\ Head(v.want).do = "give" => Len(v.want) = 1
<1>1. v.ack = <<>> /\ v.coming = AwaitAck(w) /\ Placed(m, w, v.loaded, LastWeight(m))
  BY DEF Ending
<1> DEFINE x == ExpandItem("weight", Locals)
           y == GiveItem
<1>2. Expand("weight", Locals) = <<x>> /\ Give = <<y>>
  BY WeightItems
<1>3. x.do = "expand" /\ x.of = "weight" /\ x.id = Locals /\ y.do = "give"
  BY DEF ExpandItem, GiveItem
<1>4. CASE v.want = Expand("weight", Locals)
  <2>1. v.got[Locals]["bytes"] = 0
    <3>1. v.want # Give
      <4>1. x # y
        BY <1>3
      <4> HIDE DEF x, y
      <4> QED
        BY <1>2, <1>4, <4>1
    <3> QED
      BY <3>1 DEF Ending
  <2>2. Expansion("weight", Locals, v.got) = Give
    BY <2>1, WeightExpansions
  <2> HIDE DEF x, y
  <2>3. Head(v.want) = x /\ Tail(v.want) = <<>>
    BY <1>2, <1>4, Single
  <2>4. AfterExpand(v, v2, Head(v.want)) => v2.want = Give \o <<>>
    BY <1>3, <2>2, <2>3 DEF AfterExpand
  <2>5. Give \o <<>> = Give /\ Give # <<>>
    BY <1>2, SmallLists, CatEmpty
  <2>6. AfterExpand(v, v2, Head(v.want)) => Ending(m, w, v2) /\ v2.want # <<>>
    BY <1>1, <2>4, <2>5 DEF AfterExpand, Ending
  <2> QED
    BY <1>3, <2>3, <2>6
<1>5. CASE v.want = Give
  <2>1. Head(v.want) = y /\ Tail(v.want) = <<>> /\ Len(v.want) = 1
    <3> HIDE DEF y
    <3> QED
      BY <1>2, <1>5, Single
  <2>2. AfterGive(v, v2) => v2.ack = <<Ack>> /\ v2.want = <<>>
    BY <1>1, <2>1, GaveAck DEF AfterGive
  <2>3. Acked(w, <<Ack>>) = AwaitAck(w)
    <3>1. <<Ack>> # <<>>
      OBVIOUS
    <3> QED
      BY <3>1 DEF Acked
  <2>4. AfterGive(v, v2) => Finished(m, w, v2)
    BY <1>1, <2>2, <2>3 DEF AfterGive, Finished
  <2> QED
    BY <1>3, <2>1, <2>2, <2>4
<1> QED
  BY <1>4, <1>5 DEF Ending
-----------------------------------------------------------------------------
(* The steps of a worker, wherever it is                                    *)

(* An acknowledgement that is not read yet is the first that the root does. *)
LEMMA AckIsFirst ==
  ASSUME NEW w, NEW ack \in {<<>>, <<Ack>>}, NEW coming, NEW rest, IsSeq(rest), coming = Acked(w, ack) \o rest
  PROVE  /\ ack = <<>> => coming = rest
         /\ ack # <<>> => Head(coming) = AwaitOf(w) /\ Tail(coming) = rest /\ coming # <<>> /\ ack = <<Ack>>
         /\ Head(coming).do = "write" => ack = <<>>
<1>0. Acked(w, <<>>) \o rest = rest /\ Acked(w, <<Ack>>) \o rest = <<AwaitOf(w)>> \o rest
  BY ComingAck
<1>1. ack = <<>> => coming = rest
  BY <1>0
<1>2. ack # <<>> => coming = <<AwaitOf(w)>> \o rest
  BY <1>0
<1> DEFINE x == AwaitOf(w)
<1>3. x.do = "await"
  BY DEF AwaitOf
<1> HIDE DEF x
<1>4. ack # <<>> => Head(coming) = x /\ Tail(coming) = rest /\ coming # <<>>
  BY <1>2, ConsHead DEF x
<1> QED
  BY <1>1, <1>3, <1>4 DEF x

(* What a worker that reads a configuration does next.                      *)
LEMMA ReadingNext ==
  ASSUME NEW m, NEW w, Sound(m, w), NEW v, NEW X, NEW Y, NEW more, NEW pairs, IsSeq(Y), IsSeq(more),
         Reading(m, w, v, X, Y, more, pairs)
  PROVE  /\ IsSeq(v.want) /\ v.want # <<>>
         /\ X = <<>> => Head(v.want) = GiveItem /\ Tail(v.want) = Y /\ v.ack = <<>>
         /\ X # <<>> => /\ Head(v.want) = Head(X) /\ IsSeq(Tail(X)) /\ Head(X).do \in {"read", "expand"}
<1>1. CASE X = <<>>
  <2>1. v.want = Give \o Y /\ v.ack = <<>>
    BY <1>1, ReadingGive
  <2> DEFINE x == GiveItem
  <2>2. v.want = <<x>> \o Y
    BY <2>1, WeightItems
  <2> HIDE DEF x
  <2>3. Head(v.want) = x /\ Tail(v.want) = Y /\ v.want # <<>> /\ IsSeq(v.want)
    BY <2>2, NextItem DEF Next1
  <2> QED
    BY <1>1, <2>1, <2>3 DEF x
<1>2. CASE X # <<>>
  <2> DEFINE x    == Head(X)
             rest == Tail(X)
             R    == rest \o (Give \o Y)
  <2>1. FirstOf(m, w, v, X, Y, x, rest)
    BY <1>2, ReadingHead
  <2>2. IsSeq(rest) /\ v.want = <<x>> \o R /\ IsSeq(R) /\ ItemOK(m, w, x)
    BY <2>1 DEF FirstOf
  <2>3. x.do \in {"read", "expand"}
    BY <2>2 DEF ItemOK
  <2> HIDE DEF x, R
  <2>4. Head(v.want) = x /\ v.want # <<>> /\ IsSeq(v.want)
    BY <2>2, NextItem DEF Next1
  <2> QED
    BY <1>2, <2>2, <2>3, <2>4 DEF x
<1> QED
  BY <1>1, <1>2

(* A list that ends with others is not empty.                               *)
LEMMA GiveFollows ==
  ASSUME NEW X, NEW Y, IsSeq(X), IsSeq(Y)
  PROVE  X \o (Give \o Y) # <<>>
<1>1. Give # <<>> /\ IsSeq(Give)
  BY WeightItems, Single, SmallLists
<1>2. IsSeq(Give \o Y)
  BY <1>1, CatSeq
<1>3. Give \o Y # <<>>
  BY <1>1, CatIsEmpty
<1> QED
  BY <1>2, <1>3, CatIsEmpty

(* A field of a configuration is read, and asked for as it was written      *)
(* (nn-network.cpp:690-773).                                                 *)
LEMMA ReadingReads ==
  ASSUME NEW m, NEW w, Sound(m, w), NEW v, NEW v2, NEW X, NEW Y, NEW more, NEW pairs, IsSeq(Y), IsSeq(more),
         Reading(m, w, v, X, Y, more, pairs), v.ack \in {<<>>, <<Ack>>},
         Head(v.want).do = "read", Head(v.coming).do = "write", AfterRead(v, v2, Head(v.want))
  PROVE  /\ Reading(m, w, v2, Tail(X), Y, more, pairs)
         /\ Asked(v) /\ v2.want # <<>> /\ v.ack = <<>>
<1>1. X # <<>>
  <2>1. GiveItem.do # "read"
    BY DEF GiveItem
  <2> QED
    BY <2>1, ReadingNext
<1>2. Head(v.want) = Head(X) /\ IsSeq(Tail(X))
  BY <1>1, ReadingNext
<1> DEFINE x     == Head(X)
           field == Field(x.size, Told(m, w, x.id, x.field))
           left  == Write(w, Said(m, w, Tail(X))) \o (AwaitAck(w) \o more)
           it    == WriteOf(w, field)
<1>3. NextField(m, w, v, X, more, Head(X), Tail(X))
  BY <1>1, <1>2, ReadingField
<1>4. IsSeq(left) /\ v.coming = Acked(w, v.ack) \o (<<it>> \o left)
  BY <1>3 DEF NextField
<1>5. it.field.size = x.size
  BY DEF WriteOf, Field
<1>6. v.ack = <<>> /\ Head(v.coming) = it
  <2> HIDE DEF it, left
  <2>1. IsSeq(<<it>> \o left) /\ Head(<<it>> \o left) = it
    BY <1>4, ConsHead, OneIsSeq, CatSeq
  <2> DEFINE all == <<it>> \o left
  <2>2. IsSeq(all) /\ Head(all) = it /\ v.coming = Acked(w, v.ack) \o all
    BY <1>4, <2>1
  <2> HIDE DEF all
  <2>3. v.ack = <<>>
    BY <2>2, AckIsFirst
  <2>4. v.coming = all
    <3>1. Acked(w, <<>>) \o all = all
      BY <2>2, ComingAck
    <3> QED
      BY <2>2, <2>3, <3>1
  <2> QED
    BY <2>2, <2>3, <2>4
<1>7. Asked(v)
  BY <1>2, <1>5, <1>6 DEF Asked
<1>8. /\ v2.want = Tail(v.want) /\ v2.coming = Tail(v.coming) /\ v2.ack = v.ack /\ v2.loaded = v.loaded
      /\ v2.got = Put(v.got, Head(X).id, Head(X).field, Head(v.coming).field.value)
  BY <1>2 DEF AfterRead
<1>9. Reading(m, w, v2, Tail(X), Y, more, pairs)
  BY <1>1, <1>2, <1>6, <1>8, ReadingRead
<1>10. v2.want # <<>>
  BY <1>2, <1>9, GiveFollows DEF Reading
<1> QED
  BY <1>6, <1>7, <1>9, <1>10

(* A worker goes on with what the fields of its configuration call for      *)
(* (nn-network.cpp:599-605, 700-716, 735-773).                               *)
LEMMA ReadingExpands ==
  ASSUME NEW m, NEW w, Sound(m, w), NEW v, NEW v2, NEW X, NEW Y, NEW more, NEW pairs, IsSeq(Y), IsSeq(more),
         Reading(m, w, v, X, Y, more, pairs), Head(v.want).do = "expand", AfterExpand(v, v2, Head(v.want))
  PROVE  /\ Reading(m, w, v2, Expansion(Head(X).of, Head(X).id, v.got) \o Tail(X), Y, more, pairs)
         /\ v2.want # <<>>
<1>1. X # <<>>
  <2>1. GiveItem.do # "expand"
    BY DEF GiveItem
  <2> QED
    BY <2>1, ReadingNext
<1>2. Head(v.want) = Head(X)
  BY <1>1, ReadingNext
<1>3. /\ v2.want = Expansion(Head(X).of, Head(X).id, v.got) \o Tail(v.want)
      /\ v2.coming = v.coming /\ v2.ack = v.ack /\ v2.loaded = v.loaded /\ v2.got = v.got
  BY <1>2 DEF AfterExpand
<1> DEFINE Z == Expansion(Head(X).of, Head(X).id, v.got) \o Tail(X)
<1>4. Reading(m, w, v2, Z, Y, more, pairs)
  BY <1>1, <1>2, <1>3, ReadingExpand
<1>5. v2.want # <<>>
  BY <1>4, GiveFollows DEF Reading
<1> QED
  BY <1>4, <1>5

(* What follows the configurations is a list.                               *)
LEMMA RestLists ==
  ASSUME NEW m \in Models, NEW w
  PROVE  /\ IsSeq(NetRest) /\ IsSeq(ReadWeight) /\ IsSeq(NetMore(m, w)) /\ IsSeq(After(m, w, 1))
         /\ Sound(m, w) /\ 1 \in 1 .. LastWeight(m)
<1>1. Sound(m, w) /\ m.nLayers \in Nat
  BY ModelFacts
<1>2. 1 \in 1 .. LastWeight(m)
  BY <1>1, WeightsShape DEF LastWeight
<1>3. IsSeq(After(m, w, 1))
  BY <1>1, <1>2, AfterStep DEF LastWeight
<1>4. IsSeq(writeNode(NodeConfig(m, w)))
  BY <1>1, FieldsAreLists
<1>5. IsSeq(AwaitAck(w) \o After(m, w, 1))
  BY <1>3, SmallLists, CatSeq
<1>6. IsSeq(NetMore(m, w))
  BY <1>4, <1>5, SmallLists, CatSeq DEF NetMore
<1> QED
  BY <1>1, <1>2, <1>3, <1>6, WantAtFirst, SmallLists
-----------------------------------------------------------------------------
(* Every step keeps what a worker has and what it will be sent consistent   *)

GotSome(g) == \A id \in DOMAIN g : DOMAIN g[id] # {}

(* The phases, as far as the steps tell them apart                          *)
InPhase(m, w, v) ==
  \/ \E X : ReadingNet(m, w, v, X)
  \/ \E X : ReadingNode(m, w, v, X)
  \/ WeightPhase(m, w, v)

(* A worker that has not finished asks for the field that comes next, and   *)
(* stays consistent when it has read it (nn-network.cpp:593-909).            *)
LEMMA StepRead ==
  ASSUME NEW m \in Models, NEW w, NEW v, NEW v2, Consistent(m, w, v), v.want # <<>>,
         Head(v.want).do = "read", Head(v.coming).do = "write", AfterRead(v, v2, Head(v.want))
  PROVE  Consistent(m, w, v2) /\ Asked(v) /\ v2.want # <<>>
<1>1. v.ack \in {<<>>, <<Ack>>} /\ GotSome(v.got) /\ InPhase(m, w, v)
  BY DEF Consistent, GotSome, InPhase
<1>2. v2.ack = v.ack
  BY DEF AfterRead
<1>3. GotSome(v2.got)
  <2> DEFINE x == Head(v.want)
             value == Head(v.coming).field.value
  <2>1. v2.got = Put(v.got, x.id, x.field, value)
    BY DEF AfterRead
  <2>2. HasPut(v.got, v2.got, x.id, x.field, value)
    BY <2>1, PutKnown
  <2> QED
    BY <1>1, <2>2 DEF HasPut, GotSome
<1>4. SUFFICES InPhase(m, w, v2) /\ Asked(v) /\ v2.want # <<>>
  BY <1>1, <1>2, <1>3 DEF Consistent, GotSome, InPhase
<1>5. ASSUME NEW X, ReadingNet(m, w, v, X)
      PROVE  InPhase(m, w, v2) /\ Asked(v) /\ v2.want # <<>>
  <2>1. Reading(m, w, v, X, NetRest, NetMore(m, w), NetPairs(m, w))
    BY <1>5 DEF ReadingNet
  <2>2. /\ Reading(m, w, v2, Tail(X), NetRest, NetMore(m, w), NetPairs(m, w))
        /\ Asked(v) /\ v2.want # <<>>
    BY <1>1, <2>1, RestLists, ReadingReads
  <2> QED
    BY <2>2 DEF InPhase, ReadingNet
<1>6. ASSUME NEW X, ReadingNode(m, w, v, X)
      PROVE  InPhase(m, w, v2) /\ Asked(v) /\ v2.want # <<>>
  <2>1. Reading(m, w, v, X, ReadWeight, After(m, w, 1), Pairs(m, w))
    BY <1>6 DEF ReadingNode
  <2>2. /\ Reading(m, w, v2, Tail(X), ReadWeight, After(m, w, 1), Pairs(m, w))
        /\ Asked(v) /\ v2.want # <<>>
    BY <1>1, <2>1, RestLists, ReadingReads
  <2> QED
    BY <2>2 DEF InPhase, ReadingNode
<1>7. CASE WeightPhase(m, w, v)
  <2>1. HasConfig(m, w, v.got)
    BY <1>7 DEF WeightPhase
  <2>2. LastWeight(m) \in Nat \ {0, 1}
    BY ModelFacts, WeightsShape DEF LastWeight
  <2>3. ASSUME NEW k \in 1 .. LastWeight(m), BetweenWeights(m, w, v, k)
        PROVE  WeightPhase(m, w, v2) /\ Asked(v) /\ v2.want # <<>>
    <3>1. v.ack = <<>>
      <4>1. v.coming = Acked(w, v.ack) \o After(m, w, k)
        BY <2>3 DEF BetweenWeights
      <4>2. IsSeq(After(m, w, k))
        BY ModelFacts, AfterStep DEF LastWeight
      <4> QED
        BY <1>1, <4>1, <4>2, AckIsFirst
    <3>2. /\ Asked(v) /\ HasConfig(m, w, v2.got) /\ v2.want # <<>>
          /\ k < LastWeight(m) => InWeight(m, w, v2, k + 1)
          /\ k = LastWeight(m) => Ending(m, w, v2)
      BY <2>1, <2>3, <3>1, BetweenRead
    <3>3. k < LastWeight(m) => k + 1 \in 2 .. LastWeight(m)
      BY <2>2
    <3>4. k < LastWeight(m) \/ k = LastWeight(m)
      BY <2>2
    <3> QED
      BY <3>2, <3>3, <3>4 DEF WeightPhase
  <2>4. ASSUME NEW k \in 2 .. LastWeight(m), InWeight(m, w, v, k)
        PROVE  WeightPhase(m, w, v2) /\ Asked(v) /\ v2.want # <<>>
    <3>1. k \in 1 .. LastWeight(m)
      BY <2>2
    <3>2. InWeight(m, w, v2, k) /\ HasConfig(m, w, v2.got) /\ Asked(v) /\ v2.want # <<>>
      BY <2>1, <2>4, <3>1, InWeightRead
    <3> QED
      BY <3>2 DEF WeightPhase
  <2>5. ~Ending(m, w, v)
    BY EndingSteps
  <2>6. ~Finished(m, w, v)
    BY DEF Finished
  <2> QED
    BY <1>7, <2>3, <2>4, <2>5, <2>6 DEF WeightPhase, InPhase
<1> QED
  BY <1>1, <1>5, <1>6, <1>7 DEF InPhase

(* A worker goes on with what the fields it has read call for.              *)
LEMMA StepExpand ==
  ASSUME NEW m \in Models, NEW w, NEW v, NEW v2, Consistent(m, w, v), v.want # <<>>,
         Head(v.want).do = "expand", AfterExpand(v, v2, Head(v.want))
  PROVE  Consistent(m, w, v2) /\ v2.want # <<>>
<1>1. v.ack \in {<<>>, <<Ack>>} /\ GotSome(v.got) /\ InPhase(m, w, v)
  BY DEF Consistent, GotSome, InPhase
<1>2. v2.ack = v.ack /\ v2.got = v.got
  BY DEF AfterExpand
<1>4. SUFFICES InPhase(m, w, v2) /\ v2.want # <<>>
  BY <1>1, <1>2 DEF Consistent, GotSome, InPhase
<1>5. ASSUME NEW X, ReadingNet(m, w, v, X)
      PROVE  InPhase(m, w, v2) /\ v2.want # <<>>
  <2>1. Reading(m, w, v, X, NetRest, NetMore(m, w), NetPairs(m, w))
    BY <1>5 DEF ReadingNet
  <2> DEFINE Z == Expansion(Head(X).of, Head(X).id, v.got) \o Tail(X)
  <2>2. Reading(m, w, v2, Z, NetRest, NetMore(m, w), NetPairs(m, w)) /\ v2.want # <<>>
    BY <1>1, <2>1, RestLists, ReadingExpands
  <2> QED
    BY <2>2 DEF InPhase, ReadingNet
<1>6. ASSUME NEW X, ReadingNode(m, w, v, X)
      PROVE  InPhase(m, w, v2) /\ v2.want # <<>>
  <2>1. Reading(m, w, v, X, ReadWeight, After(m, w, 1), Pairs(m, w))
    BY <1>6 DEF ReadingNode
  <2> DEFINE Z == Expansion(Head(X).of, Head(X).id, v.got) \o Tail(X)
  <2>2. Reading(m, w, v2, Z, ReadWeight, After(m, w, 1), Pairs(m, w)) /\ v2.want # <<>>
    BY <1>1, <2>1, RestLists, ReadingExpands
  <2> QED
    BY <2>2 DEF InPhase, ReadingNode
<1>7. CASE WeightPhase(m, w, v)
  <2>1. HasConfig(m, w, v2.got)
    BY <1>2, <1>7 DEF WeightPhase
  <2>2. LastWeight(m) \in Nat \ {0, 1}
    BY ModelFacts, WeightsShape DEF LastWeight
  <2>3. ASSUME NEW k \in 1 .. LastWeight(m)
        PROVE  ~BetweenWeights(m, w, v, k)
    <3> DEFINE x == ReadItem(<<"uint">>, Locals, "bytes")
    <3>1. x.do = "read"
      BY DEF ReadItem
    <3>2. ReadWeight = <<x>> \o Expand("weight", Locals) /\ IsSeq(Expand("weight", Locals))
      BY WeightItems, SmallLists
    <3> HIDE DEF x
    <3>3. Head(ReadWeight) = x
      BY <3>2, ConsHead
    <3> QED
      BY <3>1, <3>3 DEF BetweenWeights
  <2>4. ASSUME NEW k \in 2 .. LastWeight(m), InWeight(m, w, v, k)
        PROVE  WeightPhase(m, w, v2) /\ v2.want # <<>>
    <3>1. k \in 1 .. LastWeight(m)
      BY <2>2
    <3>2. InWeight(m, w, v2, k) /\ v2.want # <<>>
      BY <2>4, <3>1, InWeightExpand
    <3> QED
      BY <2>1, <3>2 DEF WeightPhase
  <2>5. Ending(m, w, v) => WeightPhase(m, w, v2) /\ v2.want # <<>>
    BY <2>1, EndingSteps DEF WeightPhase
  <2>6. ~Finished(m, w, v)
    BY DEF Finished
  <2> QED
    BY <1>7, <2>3, <2>4, <2>5, <2>6 DEF WeightPhase, InPhase
<1> QED
  BY <1>1, <1>5, <1>6, <1>7 DEF InPhase
(* What a list of one more than Y is, when Y is left.                       *)
LEMMA LastOne ==
  ASSUME NEW s, IsSeq(s), s # <<>>
  PROVE  Len(s) = 1 <=> Tail(s) = <<>>
<1>1. IsSeq(Tail(s)) /\ Len(Tail(s)) = Len(s) - 1 /\ Len(s) \in Nat
  BY HeadFirst, SeqShape
<1>2. Len(Tail(s)) = 0 => Tail(s) = <<>>
  BY <1>1, SeqShape
<1>3. Tail(s) = <<>> => Len(Tail(s)) = 0
  BY EmptyIsSeq
<1> QED
  BY <1>1, <1>2, <1>3

(* A worker acknowledges the configuration of the network                   *)
(* (nn-network.cpp:714-716).                                                 *)
LEMMA NetGive ==
  ASSUME NEW m \in Models, NEW w, NEW v, NEW v2, ReadingNet(m, w, v, <<>>), AfterGive(v, v2)
  PROVE  ReadingNode(m, w, v2, NodeItems)
<1>0. Reading(m, w, v, <<>>, NetRest, NetMore(m, w), NetPairs(m, w))
  BY DEF ReadingNet
<1>1. /\ v.ack = <<>> /\ v.want = Give \o NetRest
      /\ v.coming = Acked(w, <<Ack>>) \o NetMore(m, w) /\ Known(v.got) = NetPairs(m, w)
  BY <1>0, RestLists, ReadingGive
<1>2. v2.ack = <<Ack>>
  BY <1>1, GaveAck
<1>3. v2.want = NetRest
  <2>1. Tail(v.want) = NetRest
    BY <1>0, RestLists, ReadingNext
  <2> QED
    BY <2>1 DEF AfterGive
<1>4. v2.want = NodeItems \o (Give \o ReadWeight)
  BY <1>3, WantAtFirst
<1>5. v2.coming = Acked(w, v2.ack) \o (Write(w, writeNode(NodeConfig(m, w))) \o (AwaitAck(w) \o After(m, w, 1)))
  BY <1>1, <1>2 DEF AfterGive, NetMore
<1>6. /\ v2.got = v.got /\ v2.loaded = <<>>
      /\ \A p \in Known(v2.got) : v2.got[p[1]][p[2]] = Told(m, w, p[1], p[2])
  BY <1>0 DEF Reading, AfterGive
<1>7. Built(m, w, NodeItems, writeNode(NodeConfig(m, w)), NodePairs(m, w), {})
  BY RestLists, BuiltNode
<1>8. Reading(m, w, v2, NodeItems, ReadWeight, After(m, w, 1), Known(v2.got) \cup NodePairs(m, w))
  <2> DEFINE fields == writeNode(NodeConfig(m, w))
             more   == After(m, w, 1)
             covers == NodePairs(m, w)
             Y      == ReadWeight
  <2>1. /\ Built(m, w, NodeItems, fields, covers, {})
        /\ v2.want = NodeItems \o (Give \o Y)
        /\ v2.coming = Acked(w, v2.ack) \o (Write(w, fields) \o (AwaitAck(w) \o more))
    BY <1>4, <1>5, <1>7
  <2> HIDE DEF fields, more, covers, Y
  <2>2. NodeItems # <<>> /\ Head(NodeItems).do = "read"
    BY FirstItems
  <2>3. Reading(m, w, v2, NodeItems, Y, more, Known(v2.got) \cup covers)
    BY <1>6, <2>1, <2>2, ReadingStarts
  <2> QED
    BY <2>3 DEF more, covers, Y
<1>9. Known(v2.got) \cup NodePairs(m, w) = Pairs(m, w)
  BY <1>1, <1>6, NodePairsAre
<1> QED
  BY <1>8, <1>9 DEF ReadingNode

(* A worker acknowledges the configuration of its node                      *)
(* (nn-network.cpp:771-773).  It has no weights, and the first, the         *)
(* embedding, is not for it (nn-network.cpp:828-832).                        *)
LEMMA NodeGive ==
  ASSUME NEW m \in Models, NEW w, w # 0, NEW v, NEW v2, ReadingNode(m, w, v, <<>>), AfterGive(v, v2)
  PROVE  BetweenWeights(m, w, v2, 1) /\ HasConfig(m, w, v2.got)
<1>0. Reading(m, w, v, <<>>, ReadWeight, After(m, w, 1), Pairs(m, w))
  BY DEF ReadingNode
<1>1. /\ v.ack = <<>> /\ v.want = Give \o ReadWeight
      /\ v.coming = Acked(w, <<Ack>>) \o After(m, w, 1) /\ Known(v.got) = Pairs(m, w)
  BY <1>0, RestLists, ReadingGive
<1>2. v2.ack = <<Ack>>
  BY <1>1, GaveAck
<1>3. v2.want = ReadWeight
  <2>1. Tail(v.want) = ReadWeight
    BY <1>0, RestLists, ReadingNext
  <2> QED
    BY <2>1 DEF AfterGive
<1>4. v2.coming = Acked(w, v2.ack) \o After(m, w, 1)
  BY <1>1, <1>2 DEF AfterGive
<1>5. v2.got = v.got /\ v2.loaded = <<>>
  BY <1>0 DEF Reading, AfterGive
<1>6. HasConfig(m, w, v2.got)
  BY <1>0, <1>1, <1>5 DEF HasConfig, Reading
<1>7. ~Given(m, w, 1)
  BY ModelFacts, WeightsShape DEF Given
<1>8. Placed(m, w, v2.loaded, 1)
  <2>1. DOMAIN v2.loaded = {}
    BY <1>5
  <2>2. \A j \in 1 .. 1 : j = 1
    OBVIOUS
  <2> QED
    BY <1>7, <2>1, <2>2 DEF Placed
<1> QED
  BY <1>3, <1>4, <1>6, <1>8 DEF BetweenWeights

(* A worker acknowledges, and nothing that it acknowledged before is left.  *)
LEMMA StepGive ==
  ASSUME NEW m \in Models, NEW w, w # 0, NEW v, NEW v2, Consistent(m, w, v), v.want # <<>>,
         Head(v.want).do = "give", AfterGive(v, v2)
  PROVE  /\ Consistent(m, w, v2) /\ v.ack = <<>> /\ v2.ack = <<Ack>>
         /\ Len(v.want) = 1 <=> v2.want = <<>>
<1>1. v.ack \in {<<>>, <<Ack>>} /\ GotSome(v.got) /\ InPhase(m, w, v)
  BY DEF Consistent, GotSome, InPhase
<1>2. v2.got = v.got /\ v2.want = Tail(v.want)
  BY DEF AfterGive
<1>4. SUFFICES InPhase(m, w, v2) /\ v.ack = <<>> /\ (Len(v.want) = 1 <=> Tail(v.want) = <<>>)
  <2>1. v.ack = <<>> => v2.ack = <<Ack>>
    BY GaveAck
  <2> QED
    BY <1>1, <1>2, <2>1 DEF Consistent, GotSome, InPhase
<1>5. ASSUME NEW X, ReadingNet(m, w, v, X)
      PROVE  InPhase(m, w, v2) /\ v.ack = <<>> /\ (Len(v.want) = 1 <=> Tail(v.want) = <<>>)
  <2>1. Reading(m, w, v, X, NetRest, NetMore(m, w), NetPairs(m, w))
    BY <1>5 DEF ReadingNet
  <2>2. X = <<>> /\ v.ack = <<>> /\ IsSeq(v.want) /\ v.want # <<>>
    BY <1>1, <2>1, RestLists, ReadingNext
  <2>3. Len(v.want) = 1 <=> Tail(v.want) = <<>>
    BY <2>2, LastOne
  <2>4. ReadingNode(m, w, v2, NodeItems)
    BY <1>5, <2>2, NetGive
  <2> QED
    BY <2>2, <2>3, <2>4 DEF InPhase
<1>6. ASSUME NEW X, ReadingNode(m, w, v, X)
      PROVE  InPhase(m, w, v2) /\ v.ack = <<>> /\ (Len(v.want) = 1 <=> Tail(v.want) = <<>>)
  <2>1. Reading(m, w, v, X, ReadWeight, After(m, w, 1), Pairs(m, w))
    BY <1>6 DEF ReadingNode
  <2>2. X = <<>> /\ v.ack = <<>> /\ IsSeq(v.want) /\ v.want # <<>>
    BY <1>1, <2>1, RestLists, ReadingNext
  <2>3. Len(v.want) = 1 <=> Tail(v.want) = <<>>
    BY <2>2, LastOne
  <2>4. BetweenWeights(m, w, v2, 1) /\ HasConfig(m, w, v2.got)
    BY <1>6, <2>2, NodeGive
  <2>5. 1 \in 1 .. LastWeight(m)
    BY RestLists
  <2> QED
    BY <2>2, <2>3, <2>4, <2>5 DEF InPhase, WeightPhase
<1>7. CASE WeightPhase(m, w, v)
  <2>1. HasConfig(m, w, v2.got)
    BY <1>2, <1>7 DEF WeightPhase
  <2>3. ASSUME NEW k \in 1 .. LastWeight(m)
        PROVE  ~BetweenWeights(m, w, v, k)
    <3> DEFINE x == ReadItem(<<"uint">>, Locals, "bytes")
    <3>1. x.do = "read"
      BY DEF ReadItem
    <3>2. ReadWeight = <<x>> \o Expand("weight", Locals) /\ IsSeq(Expand("weight", Locals))
      BY WeightItems, SmallLists
    <3> HIDE DEF x
    <3>3. Head(ReadWeight) = x
      BY <3>2, ConsHead
    <3> QED
      BY <3>1, <3>3 DEF BetweenWeights
  <2>4. ASSUME NEW k \in 2 .. LastWeight(m)
        PROVE  ~InWeight(m, w, v, k)
    <3>1. SUFFICES ASSUME NEW stage \in 1 .. 8, AtStage(m, w, v, k, stage)
                   PROVE  FALSE
      BY Stages
    <3> DEFINE x == StageItem(m, w, k, stage)
               R == StageRest(stage)
    <3>2. v.want = <<x>> \o R /\ IsSeq(R)
      BY <3>1, StageKinds DEF AtStage, ReadingWeight
    <3>3. x.do # "give"
      BY StageKinds
    <3> HIDE DEF x, R
    <3>4. Head(v.want) = x
      BY <3>2, ConsHead
    <3> QED
      BY <3>3, <3>4
  <2>5. Ending(m, w, v) => WeightPhase(m, w, v2) /\ v.ack = <<>> /\ (Len(v.want) = 1 <=> Tail(v.want) = <<>>)
    <3>1. SUFFICES ASSUME Ending(m, w, v)
                   PROVE  WeightPhase(m, w, v2) /\ v.ack = <<>> /\ (Len(v.want) = 1 <=> Tail(v.want) = <<>>)
      OBVIOUS
    <3>2. Finished(m, w, v2) /\ v2.want = <<>> /\ Len(v.want) = 1
      BY <3>1, EndingSteps
    <3> QED
      BY <1>2, <2>1, <3>1, <3>2 DEF WeightPhase, Ending
  <2>6. ~Finished(m, w, v)
    BY DEF Finished
  <2> QED
    BY <1>7, <2>3, <2>4, <2>5, <2>6 DEF WeightPhase, InPhase
<1> QED
  BY <1>1, <1>5, <1>6, <1>7 DEF InPhase
(* Only a worker that has read a whole weight loads one.                    *)
LEMMA LoadsWeight ==
  ASSUME NEW m \in Models, NEW w, NEW v, Consistent(m, w, v), v.want # <<>>, Head(v.want).do = "load"
  PROVE  HasConfig(m, w, v.got) /\ \E k \in 2 .. LastWeight(m) : InWeight(m, w, v, k)
<1>1. v.ack \in {<<>>, <<Ack>>} /\ InPhase(m, w, v)
  BY DEF Consistent, InPhase
<1>0. GiveItem.do # "load"
  BY DEF GiveItem
<1>5. ASSUME NEW X
      PROVE  ~ReadingNet(m, w, v, X) /\ ~ReadingNode(m, w, v, X)
  <2>1. ~Reading(m, w, v, X, NetRest, NetMore(m, w), NetPairs(m, w))
    BY <1>0, RestLists, ReadingNext
  <2>2. ~Reading(m, w, v, X, ReadWeight, After(m, w, 1), Pairs(m, w))
    BY <1>0, RestLists, ReadingNext
  <2> QED
    BY <2>1, <2>2 DEF ReadingNet, ReadingNode
<1>6. ASSUME NEW k \in 1 .. LastWeight(m)
      PROVE  ~BetweenWeights(m, w, v, k)
  <2> DEFINE x == ReadItem(<<"uint">>, Locals, "bytes")
  <2>1. x.do = "read"
    BY DEF ReadItem
  <2>2. ReadWeight = <<x>> \o Expand("weight", Locals) /\ IsSeq(Expand("weight", Locals))
    BY WeightItems, SmallLists
  <2> HIDE DEF x
  <2>3. Head(ReadWeight) = x
    BY <2>2, ConsHead
  <2> QED
    BY <2>1, <2>3 DEF BetweenWeights
<1>7. ~Ending(m, w, v)
  BY EndingSteps
<1>8. ~Finished(m, w, v)
  BY DEF Finished
<1> QED
  BY <1>1, <1>5, <1>6, <1>7, <1>8 DEF InPhase, WeightPhase

(* A worker has loaded a weight.                                            *)
LEMMA StepLoad ==
  ASSUME NEW m \in Models, NEW w \in Nodes(m), NEW v, NEW v2, Consistent(m, w, v), v.want # <<>>,
         Head(v.want).do = "load", AfterLoad(v, v2)
  PROVE  Consistent(m, w, v2) /\ v2.want # <<>>
<1>1. v.ack \in {<<>>, <<Ack>>} /\ GotSome(v.got)
  BY DEF Consistent, GotSome
<1>2. v2.ack = v.ack /\ v2.got = v.got
  BY DEF AfterLoad
<1>3. PICK k \in 2 .. LastWeight(m) : InWeight(m, w, v, k)
  BY LoadsWeight
<1>4. HasConfig(m, w, v.got)
  BY LoadsWeight
<1>5. BetweenWeights(m, w, v2, k) /\ v2.want # <<>>
  BY <1>3, <1>4, InWeightLoad
<1>6. k \in 1 .. LastWeight(m)
  BY ModelFacts, WeightsShape DEF LastWeight
<1> QED
  BY <1>1, <1>2, <1>4, <1>5, <1>6 DEF Consistent, GotSome, WeightPhase

(* v2 is v after the root has read the acknowledgement.                     *)
AfterAck(v, v2) ==
  /\ v2.ack = <<>> /\ v2.coming = Tail(v.coming)
  /\ v2.want = v.want /\ v2.loaded = v.loaded /\ v2.got = v.got

(* The acknowledgement is followed by what follows it.                      *)
LEMMA AckTaken ==
  ASSUME NEW w, NEW v, NEW v2, NEW rest, IsSeq(rest), v.ack = <<Ack>>, v.coming = Acked(w, v.ack) \o rest,
         AfterAck(v, v2)
  PROVE  v2.coming = Acked(w, v2.ack) \o rest
<1>0. Acked(w, <<Ack>>) \o rest = <<AwaitOf(w)>> \o rest
  BY ComingAck
<1>1. v.coming = <<AwaitOf(w)>> \o rest
  BY <1>0
<1> DEFINE x == AwaitOf(w)
<1> HIDE DEF x
<1>2. Tail(<<x>> \o rest) = rest
  BY ConsHead
<1>3. Acked(w, <<>>) \o rest = rest
  BY ComingAck
<1> QED
  BY <1>1, <1>2, <1>3 DEF AfterAck, x

(* The root reads the acknowledgement that a worker has sent, and then does *)
(* next what the worker expects (nn-network.cpp:628-629, 679-680, 790-791).  *)
LEMMA StepAck ==
  ASSUME NEW m \in Models, NEW w, NEW v, NEW v2, Consistent(m, w, v), v.ack # <<>>, AfterAck(v, v2)
  PROVE  Consistent(m, w, v2)
<1>1. v.ack = <<Ack>> /\ GotSome(v.got) /\ InPhase(m, w, v)
  BY DEF Consistent, GotSome, InPhase
<1>2. v2.ack = <<>> /\ v2.got = v.got /\ v2.want = v.want /\ v2.loaded = v.loaded
  BY DEF AfterAck
<1>4. SUFFICES InPhase(m, w, v2)
  BY <1>1, <1>2 DEF Consistent, GotSome, InPhase
<1>3. ASSUME NEW X, NEW Y, NEW more, NEW pairs, IsSeq(more), Reading(m, w, v, X, Y, more, pairs)
      PROVE  Reading(m, w, v2, X, Y, more, pairs)
  <2> DEFINE rest == Write(w, Said(m, w, X)) \o (AwaitAck(w) \o more)
  <2>1. X # <<>> /\ Head(X).do = "read" /\ IsSeq(X)
    BY <1>1, <1>3 DEF Reading
  <2>2. v.coming = Acked(w, v.ack) \o rest
    BY <1>3 DEF Reading
  <2>3. IsSeq(rest)
    <3>1. \A x \in Elems(X) \cup Elems(X) : IsSeq(Says(m, w, x))
      BY <1>3, RestLists DEF Sound, Reading
    <3>2. IsSeq(Said(m, w, X))
      BY <2>1, <3>1, SaidCat
    <3> QED
      BY <1>3, <3>2, SmallLists, CatSeq
  <2> HIDE DEF rest
  <2>4. v2.coming = Acked(w, v2.ack) \o rest
    BY <1>1, <2>2, <2>3, AckTaken
  <2> QED
    BY <1>2, <1>3, <2>4 DEF Reading, rest
<1>5. ASSUME NEW X, ReadingNet(m, w, v, X)
      PROVE  InPhase(m, w, v2)
  BY <1>3, <1>5, RestLists DEF InPhase, ReadingNet
<1>6. ASSUME NEW X, ReadingNode(m, w, v, X)
      PROVE  InPhase(m, w, v2)
  BY <1>3, <1>6, RestLists DEF InPhase, ReadingNode
<1>7. CASE WeightPhase(m, w, v)
  <2>1. HasConfig(m, w, v2.got)
    BY <1>2, <1>7 DEF WeightPhase
  <2>3. ASSUME NEW k \in 1 .. LastWeight(m), BetweenWeights(m, w, v, k)
        PROVE  BetweenWeights(m, w, v2, k)
    <3>1. v.coming = Acked(w, v.ack) \o After(m, w, k)
      BY <2>3 DEF BetweenWeights
    <3>2. IsSeq(After(m, w, k))
      BY ModelFacts, AfterStep DEF LastWeight
    <3>3. v2.coming = Acked(w, v2.ack) \o After(m, w, k)
      BY <1>1, <3>1, <3>2, AckTaken
    <3> QED
      BY <1>2, <2>3, <3>3 DEF BetweenWeights
  <2>4. ASSUME NEW k
        PROVE  ~InWeight(m, w, v, k)
    BY <1>1 DEF InWeight, ReadingWeight
  <2>5. ~Ending(m, w, v)
    BY DEF Ending
  <2>6. Finished(m, w, v) => Finished(m, w, v2)
    <3>1. SUFFICES ASSUME Finished(m, w, v)
                   PROVE  Finished(m, w, v2)
      OBVIOUS
    <3>2. v.coming = Acked(w, v.ack)
      BY <3>1 DEF Finished
    <3>3. v.coming = Acked(w, v.ack) \o <<>>
      BY <3>2, SmallLists, CatEmpty
    <3>4. v2.coming = Acked(w, v2.ack) \o <<>>
      BY <1>1, <3>3, EmptyIsSeq, AckTaken
    <3>5. v2.coming = Acked(w, v2.ack)
      BY <3>4, SmallLists, CatEmpty
    <3> QED
      BY <1>2, <3>1, <3>5 DEF Finished
  <2> QED
    BY <1>7, <2>1, <2>3, <2>4, <2>5, <2>6 DEF WeightPhase, InPhase
<1> QED
  BY <1>1, <1>5, <1>6, <1>7 DEF InPhase

(* Before the first step                                                    *)
LEMMA InitConsistent ==
  ASSUME NEW m \in Models, NEW w \in 1 .. (m.nNodes - 1), NEW v,
         v.want = ReadNet \o ReadNode \o ReadWeight, v.got = <<>>, v.loaded = <<>>, v.ack = <<>>,
         v.coming = PartOf(w, Program(m))
  PROVE  Consistent(m, w, v) /\ v.want # <<>>
<1>1. v.want = NetItems \o (Give \o NetRest) /\ IsSeq(NetItems) /\ IsSeq(NetRest)
  BY WantAtFirst
<1> DEFINE fields == writeNet(NetConfig(m))
           covers == NetPairs(m, w)
           more   == NetMore(m, w)
           rest   == Write(w, fields) \o (AwaitAck(w) \o more)
<1>2. /\ \A n : Sound(m, n)
      /\ m.nNodes \in Nat \ {0} /\ m.nLayers \in Nat
  BY ModelFacts
<1>3. v.coming = rest
  BY <1>2, ProgramParts
<1>4. IsSeq(rest)
  <2>1. IsSeq(fields)
    BY <1>2, FieldsAreLists
  <2> QED
    BY <2>1, RestLists, SmallLists, CatSeq
<1>5. v.coming = Acked(w, v.ack) \o rest
  <2> HIDE DEF rest
  <2>1. Acked(w, <<>>) \o rest = rest
    BY <1>4, ComingAck
  <2> QED
    BY <1>3, <2>1
<1>6. Built(m, w, NetItems, fields, covers, {})
  BY <1>2, BuiltNet
<1>7. Known(v.got) = {}
  BY KnownNothing
<1>8. Reading(m, w, v, NetItems, NetRest, more, Known(v.got) \cup covers)
  <2>1. v.coming = Acked(w, v.ack) \o (Write(w, fields) \o (AwaitAck(w) \o more))
    BY <1>5
  <2> HIDE DEF fields, covers, more, rest
  <2>2. NetItems # <<>> /\ Head(NetItems).do = "read"
    BY FirstItems
  <2>3. \A p \in Known(v.got) : v.got[p[1]][p[2]] = Told(m, w, p[1], p[2])
    BY <1>7
  <2> QED
    BY <1>1, <1>6, <2>1, <2>2, <2>3, ReadingStarts
<1>9. ReadingNet(m, w, v, NetItems)
  BY <1>7, <1>8 DEF ReadingNet
<1>10. v.want # <<>>
  BY <1>1, GiveFollows
<1> QED
  BY <1>9, <1>10 DEF Consistent
-----------------------------------------------------------------------------
(* The instructions of the root                                             *)

(* The root loads for itself, and writes to and reads from the n workers.   *)
Instr(n, x) ==
  \/ x.node = 0 /\ x.do = "load"
  \/ x.node \in 1 .. n /\ ((\E field : x = WriteOf(x.node, field)) \/ x = AwaitOf(x.node))

Instrs(n, s) == IsSeq(s) /\ \A x \in Elems(s) : Instr(n, x)

(* Lists of instructions (nn-network.cpp:611-688, 787-863).                  *)
LEMMA InstrLists ==
  ASSUME NEW n \in Nat
  PROVE  /\ \A v \in 1 .. n : \A fields : IsSeq(fields) => Instrs(n, Write(v, fields))
         /\ \A v \in 1 .. n : Instrs(n, AwaitAck(v))
         /\ \A k : Instrs(n, LoadOwn(k))
         /\ Instrs(n, <<>>)
         /\ \A a, b : Instrs(n, a) /\ Instrs(n, b) => Instrs(n, a \o b)
<1>1. ASSUME NEW v \in 1 .. n, NEW fields, IsSeq(fields) PROVE Instrs(n, Write(v, fields))
  <2>1. IsSeq(Write(v, fields)) /\ Len(Write(v, fields)) = Len(fields) /\ DOMAIN fields = 1 .. Len(fields)
    BY <1>1, WriteCat, EmptyIsSeq, SeqShape
  <2>2. \A i \in 1 .. Len(fields) : Write(v, fields)[i] = WriteOf(v, fields[i])
    BY <2>1 DEF Write, WriteOf
  <2>3. \A field : WriteOf(v, field).node = v
    BY DEF WriteOf
  <2>4. \A field : Instr(n, WriteOf(v, field))
    BY <2>3 DEF Instr
  <2> QED
    BY <2>1, <2>2, <2>4 DEF Instrs, Elems
<1>2. ASSUME NEW v \in 1 .. n PROVE Instrs(n, AwaitAck(v))
  <2>1. AwaitAck(v) = <<AwaitOf(v)>> /\ AwaitOf(v).node = v
    BY DEF AwaitAck, AwaitOf
  <2> QED
    BY <2>1, OneIsSeq, ElemsOfOne DEF Instrs, Instr
<1>3. ASSUME NEW k PROVE Instrs(n, LoadOwn(k))
  <2> DEFINE x == [do |-> "load", node |-> 0, weight |-> k]
  <2>1. LoadOwn(k) = <<x>> /\ x.node = 0 /\ x.do = "load"
    BY DEF LoadOwn
  <2> HIDE DEF x
  <2> QED
    BY <2>1, OneIsSeq, ElemsOfOne DEF Instrs, Instr
<1>4. Instrs(n, <<>>)
  BY EmptyIsSeq, ElemsOfNone DEF Instrs
<1>5. \A a, b : Instrs(n, a) /\ Instrs(n, b) => Instrs(n, a \o b)
  BY Cat, CatElems DEF Instrs
<1> QED
  BY <1>1, <1>2, <1>3, <1>4, <1>5

(* Tables of lists of instructions.                                         *)
LEMMA InstrTables ==
  ASSUME NEW n \in Nat, NEW l \in Nat, NEW f, f = [i \in 1 .. l |-> f[i]], \A i \in 1 .. l : Instrs(n, f[i])
  PROVE  Instrs(n, FlattenSeq(f))
<1>1. AreSeqs(f) /\ Len(f) = l
  BY TableIsSeq DEF Instrs
<1>2. IsSeq(FlattenSeq(f)) /\ Elems(FlattenSeq(f)) = UNION {Elems(f[k]) : k \in 1 .. l}
  BY <1>1, FlatElems, FlatIsSeq
<1> QED
  BY <1>2 DEF Instrs

(* The program of the root is a list of instructions, and not empty.        *)
LEMMA ProgramInstrs ==
  ASSUME NEW m \in Models
  PROVE  /\ Instrs(m.nNodes - 1, Program(m)) /\ Len(Program(m)) \in Nat \ {0}
         /\ Programs[m] = Program(m)
<1> DEFINE n    == m.nNodes - 1
           L    == Len(Weights(m))
           conf == [w \in 1 .. n |-> Write(w, writeNet(NetConfig(m))) \o AwaitAck(w)
                                     \o Write(w, writeNode(NodeConfig(m, w))) \o AwaitAck(w)]
           out  == [k \in 1 .. L |-> HandOut(m, k)]
           fin  == [w \in 1 .. n |-> Write(w, << UInt(0) >>) \o AwaitAck(w)]
<1>1. /\ n \in Nat /\ (\A w : Sound(m, w)) /\ m.nLayers \in Nat /\ m.nNodes \in Nat \ {0}
  BY ModelFacts
<1>2. L \in Nat \ {0, 1} /\ DOMAIN Weights(m) = 1 .. L
  BY <1>1, WeightsShape, SeqShape
<1>3. Program(m) = (FlattenSeq(conf) \o FlattenSeq(out)) \o FlattenSeq(fin)
  BY <1>2 DEF Program, writeToWorkers, finish
<1>4. Instrs(n, FlattenSeq(conf))
  <2>1. ASSUME NEW w \in 1 .. n
        PROVE  Instrs(n, Write(w, writeNet(NetConfig(m))) \o AwaitAck(w)
                         \o Write(w, writeNode(NodeConfig(m, w))) \o AwaitAck(w))
    <3> DEFINE a == Write(w, writeNet(NetConfig(m)))
               b == Write(w, writeNode(NodeConfig(m, w)))
               c == AwaitAck(w)
    <3>1. Instrs(n, a) /\ Instrs(n, b) /\ Instrs(n, c)
      BY <1>1, FieldsAreLists, InstrLists
    <3> HIDE DEF a, b, c
    <3>2. Instrs(n, a \o c)
      BY <1>1, <3>1, InstrLists
    <3>3. Instrs(n, (a \o c) \o b)
      BY <1>1, <3>1, <3>2, InstrLists
    <3>4. Instrs(n, ((a \o c) \o b) \o c)
      BY <1>1, <3>1, <3>3, InstrLists
    <3> QED
      BY <3>4 DEF a, b, c
  <2>2. conf = [w \in 1 .. n |-> conf[w]] /\ \A w \in 1 .. n : Instrs(n, conf[w])
    BY <2>1
  <2> HIDE DEF conf
  <2> QED
    BY <1>1, <2>2, InstrTables
<1>5. Instrs(n, FlattenSeq(fin))
  <2>1. ASSUME NEW w \in 1 .. n
        PROVE  Instrs(n, Write(w, << UInt(0) >>) \o AwaitAck(w))
    <3>1. Instrs(n, Write(w, << UInt(0) >>)) /\ Instrs(n, AwaitAck(w))
      BY <1>1, OneIsSeq, InstrLists
    <3> QED
      BY <1>1, <3>1, InstrLists
  <2>2. fin = [w \in 1 .. n |-> fin[w]] /\ \A w \in 1 .. n : Instrs(n, fin[w])
    BY <2>1
  <2> HIDE DEF fin
  <2> QED
    BY <1>1, <2>2, InstrTables
<1>6. \A k \in 1 .. L : Instrs(n, HandOut(m, k))
  <2>1. TAKE k \in 1 .. L
  <2> DEFINE send == [w \in 1 .. n |-> writeWeight(m, k, w)]
             rest == IF Weights(m)[k].slice.how = "root" THEN <<>> ELSE FlattenSeq(send)
  <2>2. HandOut(m, k) = LoadOwn(k) \o rest
    BY DEF HandOut
  <2>3. \A w \in 1 .. n : Instrs(n, writeWeight(m, k, w))
    <3>1. \A w : IsSeq(WeightFields(m, w, k)) /\ writeWeight(m, k, w) = Write(w, WeightFields(m, w, k))
      BY FieldsAreLists
    <3> QED
      BY <1>1, <3>1, InstrLists
  <2>4. send = [w \in 1 .. n |-> send[w]] /\ \A w \in 1 .. n : Instrs(n, send[w])
    BY <2>3
  <2> HIDE DEF send
  <2>5. Instrs(n, FlattenSeq(send))
    BY <1>1, <2>4, InstrTables
  <2>6. Instrs(n, rest) /\ Instrs(n, LoadOwn(k))
    BY <1>1, <2>5, InstrLists
  <2> HIDE DEF rest
  <2> QED
    BY <1>1, <2>2, <2>6, InstrLists
<1>7. Instrs(n, FlattenSeq(out))
  <2>2. out = [k \in 1 .. L |-> out[k]] /\ \A k \in 1 .. L : Instrs(n, out[k])
    BY <1>6
  <2> HIDE DEF out
  <2> QED
    BY <1>1, <1>2, <2>2, InstrTables
<1> DEFINE a == FlattenSeq(conf)
           b == FlattenSeq(out)
           c == FlattenSeq(fin)
<1>8. Instrs(n, a) /\ Instrs(n, b) /\ Instrs(n, c) /\ Program(m) = (a \o b) \o c
  BY <1>3, <1>4, <1>5, <1>7
<1> HIDE DEF a, b, c, conf, out, fin
<1>9. Instrs(n, a \o b)
  BY <1>1, <1>8, InstrLists
<1>10. Instrs(n, Program(m))
  BY <1>1, <1>8, <1>9, InstrLists
<1>11. Len(Program(m)) \in Nat \ {0}
  <2>1. PartOf(0, Program(m)) = OwnAfter(m, 0)
    BY <1>1, ProgramParts
  <2>2. OwnAfter(m, 0) = LoadOwn(0 + 1) \o OwnAfter(m, 0 + 1) /\ IsSeq(OwnAfter(m, 0 + 1))
    <3>1. 0 \in 0 .. (L - 1) /\ 0 + 1 \in 0 .. L
      BY <1>2
    <3> QED
      BY <1>1, <3>1, OwnStep
  <2>3. OwnAfter(m, 0) # <<>>
    <3>1. LoadOwn(0 + 1) # <<>> /\ IsSeq(LoadOwn(0 + 1))
      BY Single, OneIsSeq DEF LoadOwn
    <3> QED
      BY <2>2, <3>1, CatIsEmpty
  <2>4. Program(m) # <<>>
    <3>1. PartOf(0, <<>>) = <<>>
      BY PartCat, EmptyIsSeq
    <3> QED
      BY <2>1, <2>3, <3>1
  <2> QED
    BY <1>10, <2>4, SeqShape DEF Instrs
<1> QED
  BY <1>10, <1>11 DEF Programs
-----------------------------------------------------------------------------
(* The invariant                                                            *)

(* The processes of a model are among those that there may be.              *)
LEMMA NodeFacts ==
  ASSUME NEW m \in Models
  PROVE  /\ 0 \in AllNodes /\ m.nNodes - 1 \in Nat
         /\ \A w \in 1 .. (m.nNodes - 1) : w \in AllNodes /\ w # 0 /\ w \in Nodes(m)
         /\ \A w \in 0 .. (m.nNodes - 1) : w \in AllNodes /\ w \in Nodes(m)
         /\ 0 \in Nodes(m)
<1>1. m.nNodes \in Nat \ {0}
  BY ModelFacts
<1>2. MaxNodes \in Nat /\ m.nNodes <= MaxNodes
  BY TransferAssumption
<1> HIDE DEF MaxNodes
<1> QED
  BY <1>1, <1>2 DEF AllNodes, Nodes

Rest == RestOf(Programs[model], rootPc)

(* The first of what is left of the program                                 *)
LEMMA RestFirst ==
  ASSUME model \in Models, rootPc \in 0 .. Len(Programs[model]), rootPc # Len(Programs[model])
  PROVE  LET rest == RestOf(Programs[model], rootPc + 1)
         IN  /\ rootPc + 1 \in 0 .. Len(Programs[model]) /\ Instr(model.nNodes - 1, Instruction)
             /\ IsSeq(rest)
             /\ \A n : PartOf(n, Rest) =
                  IF Instruction.node = n THEN <<Instruction>> \o PartOf(n, rest) ELSE PartOf(n, rest)
<1> DEFINE p    == Programs[model]
           rest == RestOf(p, rootPc + 1)
           x    == Instruction
<1>1. Instrs(model.nNodes - 1, p) /\ Len(p) \in Nat \ {0}
  BY ProgramInstrs
<1>2. rootPc \in 0 .. (Len(p) - 1) /\ rootPc + 1 \in 0 .. Len(p) /\ rootPc + 1 \in 1 .. Len(p)
  BY <1>1
<1>3. IsSeq(p) /\ x \in Elems(p)
  BY <1>1, <1>2 DEF Instrs, Elems, Instruction
<1>4. Instr(model.nNodes - 1, x)
  BY <1>1, <1>3 DEF Instrs
<1>5. x = p[rootPc + 1] /\ Rest = RestOf(p, rootPc)
  BY DEF Instruction, Rest
<1> HIDE DEF p, x
<1>6. IsSeq(rest) /\ Rest = <<x>> \o rest
  BY <1>2, <1>3, <1>5, RestStep
<1> HIDE DEF rest
<1>7. ASSUME NEW n PROVE PartOf(n, Rest) = IF x.node = n THEN <<x>> \o PartOf(n, rest) ELSE PartOf(n, rest)
  <2>1. IsSeq(<<x>>) /\ IsSeq(PartOf(n, rest))
    BY <1>6, OneIsSeq, PartCat
  <2>2. PartOf(n, <<x>> \o rest) = PartOf(n, <<x>>) \o PartOf(n, rest)
    BY <1>6, <2>1, PartCat
  <2>3. PartOf(n, <<x>>) = IF x.node = n THEN <<x>> ELSE <<>>
    BY PartOne
  <2> QED
    BY <1>6, <2>1, <2>2, <2>3, CatEmpty
<1> QED
  BY <1>2, <1>4, <1>6, <1>7 DEF p, rest, x

(* A process that does not move keeps what is said of it.                   *)
LEMMA Unmoved ==
  ASSUME NEW u, WorkerInv(u), model' = model,
         want'[u] = want[u], got'[u] = got[u], toRoot'[u] = toRoot[u], loaded'[u] = loaded[u],
         IsSeq(toWorker'[u]), Coming(u)' = Coming(u),
         (status'[u] = "ready") <=> (status[u] = "ready")
  PROVE  WorkerInv(u)'
<1>1. View(u)' = View(u)
  BY DEF View
<1>2. Consistent(model, u, View(u))
  BY DEF WorkerInv
<1>3. Consistent(model', u, View(u)')
  BY <1>1, <1>2
<1> QED
  BY <1>3 DEF WorkerInv

(* What is coming to a process does not change when nothing is written to   *)
(* it, or read, and the root's program is as far as before.                 *)
LEMMA SameComing ==
  ASSUME NEW u, model' = model, rootPc' = rootPc, toWorker'[u] = toWorker[u]
  PROVE  Coming(u)' = Coming(u)
  BY DEF Coming

(* In the beginning                                                         *)
LEMMA InvInit == TransferInit => TransferInv
<1> SUFFICES ASSUME TransferInit
             PROVE  TransferInv
  OBVIOUS
<1>1. model \in Models
  BY DEF TransferInit
<1>2. /\ 0 \in AllNodes
      /\ \A w \in Workers : w \in AllNodes /\ w # 0 /\ w < model.nNodes
      /\ model.nNodes \in Nat \ {0} /\ Workers = 1 .. (model.nNodes - 1)
  BY <1>1, NodeFacts, ModelFacts DEF Workers
<1>3. Capacity \in Nat \ {0}
  BY TransferAssumption
<1>4. Len(Programs[model]) \in Nat \ {0} /\ Programs[model] = Program(model) /\ IsSeq(Program(model))
  BY <1>1, ProgramInstrs DEF Instrs
<1>5. Shapes
  <2>1. status \in [AllNodes -> {"running", "ready", "killed", "exited", "absent"}]
    BY DEF TransferInit
  <2>2. Len(<<>>) = 0
    BY EmptyIsSeq
  <2>3. /\ DOMAIN toWorker = AllNodes /\ DOMAIN toRoot = AllNodes /\ DOMAIN want = AllNodes
        /\ DOMAIN got = AllNodes /\ DOMAIN loaded = AllNodes
        /\ \A w \in AllNodes : toWorker[w] = <<>> /\ toRoot[w] = <<>>
    BY DEF TransferInit
  <2>4. \A w \in AllNodes : Len(toWorker[w]) <= Capacity /\ Len(toRoot[w]) <= 1
    BY <1>3, <2>2, <2>3
  <2> QED
    BY <1>1, <2>1, <2>3, <2>4 DEF Shapes
<1>6. rootPc = 0 /\ RestOf(Programs[model], rootPc) = Program(model)
  BY <1>4, RestStep DEF TransferInit
<1>a. \A w : Sound(model, w) /\ model.nLayers \in Nat
  BY <1>1, ModelFacts
<1>7. RootInv
  <2>1. rootPc \in 0 .. Len(Programs[model])
    BY <1>4, <1>6
  <2>2. status[0] # "ready"
    BY <1>2 DEF TransferInit
  <2>3. PartOf(0, Program(model)) = OwnAfter(model, 0)
    BY <1>2, <1>a, ProgramParts
  <2>4. Placed(model, 0, loaded[0], 0)
    <3>1. loaded[0] = <<>> /\ DOMAIN loaded[0] = {}
      BY <1>2 DEF TransferInit
    <3>2. \A j \in 1 .. 0 : FALSE
      OBVIOUS
    <3> QED
      BY <3>1, <3>2 DEF Placed
  <2>5. 0 \in 0 .. LastWeight(model)
    BY <1>a, WeightsShape DEF LastWeight
  <2> QED
    BY <1>4, <1>6, <2>1, <2>2, <2>3, <2>4, <2>5 DEF RootInv
<1>8. ASSUME NEW w \in Workers PROVE WorkerInv(w)
  <2>0. w \in AllNodes /\ w \in 1 .. (model.nNodes - 1) /\ w < model.nNodes
    BY <1>2
  <2>1. /\ want[w] = ReadNet \o ReadNode \o ReadWeight /\ got[w] = <<>> /\ loaded[w] = <<>>
        /\ toRoot[w] = <<>> /\ toWorker[w] = <<>> /\ status[w] = "running"
    BY <2>0 DEF TransferInit
  <2>2. Coming(w) = PartOf(w, Program(model))
    <3>1. IsSeq(PartOf(w, Program(model)))
      BY <1>4, PartCat
    <3>2. Write(w, <<>>) \o PartOf(w, Program(model)) = PartOf(w, Program(model))
      BY <3>1, ComingAck
    <3> QED
      BY <1>6, <2>1, <3>2 DEF Coming
  <2> DEFINE v == View(w)
  <2>3. /\ v.want = ReadNet \o ReadNode \o ReadWeight /\ v.got = <<>> /\ v.loaded = <<>> /\ v.ack = <<>>
        /\ v.coming = PartOf(w, Program(model))
    BY <2>1, <2>2 DEF View
  <2>4. Consistent(model, w, v) /\ v.want # <<>>
    <3> HIDE DEF v
    <3> QED
      BY <1>1, <2>0, <2>3, InitConsistent
  <2>5. want[w] # <<>>
    BY <2>4 DEF View
  <2> QED
    BY <2>1, <2>4, <2>5, EmptyIsSeq DEF WorkerInv
<1> QED
  BY <1>5, <1>7, <1>8 DEF TransferInv
(* Whenever an acknowledgement is on its way, the root waits for it before  *)
(* it writes anything more to this worker (nn-network.cpp:628-629, 679-680). *)
LEMMA AckFirst ==
  ASSUME NEW m \in Models, NEW w, NEW v, Consistent(m, w, v), v.ack # <<>>
  PROVE  v.ack = <<Ack>> /\ Head(v.coming) = AwaitOf(w) /\ v.coming # <<>>
<1>1. v.ack = <<Ack>> /\ InPhase(m, w, v)
  BY DEF Consistent, InPhase
<1>2. ASSUME NEW rest, IsSeq(rest), v.coming = Acked(w, v.ack) \o rest
      PROVE  Head(v.coming) = AwaitOf(w) /\ v.coming # <<>>
  <2> DEFINE ack == v.ack
             coming == v.coming
  <2>1. ack \in {<<>>, <<Ack>>} /\ ack # <<>> /\ coming = Acked(w, ack) \o rest
    BY <1>1, <1>2
  <2> HIDE DEF ack, coming
  <2>2. Head(coming) = AwaitOf(w) /\ coming # <<>>
    BY <1>2, <2>1, AckIsFirst
  <2> QED
    BY <2>2 DEF coming
<1>3. ASSUME NEW X, NEW Y, NEW more, NEW pairs, IsSeq(more), Reading(m, w, v, X, Y, more, pairs)
      PROVE  Head(v.coming) = AwaitOf(w) /\ v.coming # <<>>
  <2> DEFINE rest == Write(w, Said(m, w, X)) \o (AwaitAck(w) \o more)
  <2>1. IsSeq(X) /\ v.coming = Acked(w, v.ack) \o rest
    BY <1>3 DEF Reading
  <2>2. \A x \in Elems(X) \cup Elems(X) : IsSeq(Says(m, w, x))
    BY <1>3, RestLists DEF Sound, Reading
  <2>3. IsSeq(Said(m, w, X))
    BY <2>1, <2>2, SaidCat
  <2>4. IsSeq(rest)
    BY <1>3, <2>3, SmallLists, CatSeq
  <2> QED
    BY <1>2, <2>1, <2>4
<1>4. ASSUME NEW X, ReadingNet(m, w, v, X)
      PROVE  Head(v.coming) = AwaitOf(w) /\ v.coming # <<>>
  BY <1>3, <1>4, RestLists DEF ReadingNet
<1>5. ASSUME NEW X, ReadingNode(m, w, v, X)
      PROVE  Head(v.coming) = AwaitOf(w) /\ v.coming # <<>>
  BY <1>3, <1>5, RestLists DEF ReadingNode
<1>6. ASSUME NEW k \in 1 .. LastWeight(m), BetweenWeights(m, w, v, k)
      PROVE  Head(v.coming) = AwaitOf(w) /\ v.coming # <<>>
  <2>1. v.coming = Acked(w, v.ack) \o After(m, w, k)
    BY <1>6 DEF BetweenWeights
  <2>2. IsSeq(After(m, w, k))
    BY ModelFacts, AfterStep DEF LastWeight
  <2> QED
    BY <1>2, <2>1, <2>2
<1>7. ASSUME NEW k
      PROVE  ~InWeight(m, w, v, k) /\ ~Ending(m, w, v)
  BY <1>1 DEF InWeight, ReadingWeight, Ending
<1>8. ASSUME Finished(m, w, v)
      PROVE  Head(v.coming) = AwaitOf(w) /\ v.coming # <<>>
  <2>1. v.coming = Acked(w, v.ack) \o <<>>
    BY <1>8, SmallLists, CatEmpty DEF Finished
  <2> QED
    BY <1>2, <2>1, EmptyIsSeq
<1> QED
  BY <1>1, <1>4, <1>5, <1>6, <1>7, <1>8 DEF InPhase, WeightPhase

(* What is written or read at the end of what has been written              *)
LEMMA WriteMore ==
  ASSUME NEW w, NEW s, NEW field, NEW rest, IsSeq(s), IsSeq(rest)
  PROVE  /\ Write(w, Append(s, field)) \o rest = Write(w, s) \o (<<WriteOf(w, field)>> \o rest)
         /\ IsSeq(Append(s, field)) /\ Len(Append(s, field)) = Len(s) + 1
<1> DEFINE x == WriteOf(w, field)
           one == <<x>>
           a == Write(w, s)
           last == <<field>>
<1>1. Append(s, field) = s \o last /\ IsSeq(last) /\ Len(last) = 1
  BY AppendIsCat, OneIsSeq
<1>2. Write(w, last) = one
  BY WriteCons, EmptyIsSeq DEF WriteOf
<1>3. IsSeq(one) /\ IsSeq(a)
  BY OneIsSeq, WriteCat
<1> HIDE DEF one, last
<1>4. Write(w, s \o last) = a \o one /\ IsSeq(s \o last) /\ Len(s \o last) = Len(s) + 1
  BY <1>1, <1>2, WriteCat, Cat
<1> HIDE DEF a
<1>5. Associates(a, one, rest)
  BY <1>3, CatAssociates
<1> QED
  BY <1>1, <1>4, <1>5 DEF Associates, a, one

(* The first of what has been written                                       *)
LEMMA WrittenFirst ==
  ASSUME NEW w, NEW s, NEW rest, IsSeq(s), s # <<>>, IsSeq(rest)
  PROVE  LET all == Write(w, s) \o rest
         IN  /\ Head(all) = WriteOf(w, Head(s)) /\ Tail(all) = Write(w, Tail(s)) \o rest
             /\ IsSeq(Tail(s)) /\ Len(Tail(s)) = Len(s) - 1 /\ Len(s) \in Nat
<1>1. /\ s = <<Head(s)>> \o Tail(s) /\ IsSeq(Tail(s)) /\ Len(Tail(s)) = Len(s) - 1
      /\ Len(s) \in Nat
  BY HeadFirst, SeqShape
<1>2. WritesFirst(w, Head(s), Tail(s), rest)
  BY <1>1, ComingWrite
<1> DEFINE x    == WriteOf(w, Head(s))
           left == Write(w, Tail(s)) \o rest
<1>3. Write(w, s) \o rest = <<x>> \o left
  BY <1>1, <1>2 DEF WritesFirst
<1>4. IsSeq(left)
  BY <1>1, WriteCat, CatSeq
<1> HIDE DEF x, left
<1>5. Head(<<x>> \o left) = x /\ Tail(<<x>> \o left) = left
  BY <1>4, ConsHead
<1> QED
  BY <1>1, <1>3, <1>5 DEF x, left

(* The root goes on, as far as itself and the shapes are concerned.         *)
LEMMA GoesOn ==
  ASSUME Shapes, RootInv, Running(0), RootGoesOn, model' = model
  PROVE  /\ rootPc # Len(Programs[model]) /\ rootPc' = rootPc + 1
         /\ rootPc' \in 0 .. Len(Programs[model']) /\ (status'[0] = "ready" <=> rootPc' = Len(Programs[model']))
         /\ status' \in [AllNodes -> {"running", "ready", "killed", "exited", "absent"}]
         /\ \A w \in AllNodes : w # 0 => status'[w] = status[w]
<1>1. model \in Models /\ status[0] = "running"
  BY DEF Shapes, Running
<1>2. rootPc \in 0 .. Len(Programs[model]) /\ rootPc # Len(Programs[model])
  BY <1>1 DEF RootInv
<1>3. rootPc + 1 \in 0 .. Len(Programs[model])
  BY <1>1, <1>2, RestFirst
<1>4. 0 \in AllNodes
  BY <1>1, NodeFacts
<1>5. status' = IF rootPc + 1 = Len(Programs[model]) THEN [status EXCEPT ![0] = "ready"] ELSE status
  BY DEF RootGoesOn
<1>6. status \in [AllNodes -> {"running", "ready", "killed", "exited", "absent"}]
  BY DEF Shapes
<1> QED
  BY <1>1, <1>2, <1>3, <1>4, <1>5, <1>6 DEF RootGoesOn
(* The workers of a model do not change.                                    *)
LEMMA SameWorkers == model' = model => Workers' = Workers
  BY DEF Workers

(* The root writes a field (nn-network.cpp:593-688, 820-826).                *)
LEMMA WriteKeeps ==
  ASSUME TransferInv, RootWrites
  PROVE  TransferInv'
<1> DEFINE x    == Instruction
           w    == x.node
           rest == RestOf(Programs[model], rootPc + 1)
           n    == model.nNodes - 1
<1>1. Shapes /\ RootInv /\ \A u \in Workers : WorkerInv(u)
  BY DEF TransferInv
<1>2. model \in Models /\ rootPc \in 0 .. Len(Programs[model])
  BY <1>1 DEF Shapes, RootInv
<1>3. /\ Running(0) /\ x.do = "write" /\ Len(toWorker[w]) < Capacity
      /\ toWorker' = [toWorker EXCEPT ![w] = Append(@, x.field)] /\ RootGoesOn
      /\ model' = model /\ toRoot' = toRoot /\ want' = want /\ got' = got /\ loaded' = loaded
  BY DEF RootWrites, workerVars
<1>4. /\ rootPc # Len(Programs[model]) /\ rootPc' = rootPc + 1
      /\ rootPc' \in 0 .. Len(Programs[model']) /\ (status'[0] = "ready" <=> rootPc' = Len(Programs[model']))
      /\ status' \in [AllNodes -> {"running", "ready", "killed", "exited", "absent"}]
      /\ \A u \in AllNodes : u # 0 => status'[u] = status[u]
  BY <1>1, <1>3, GoesOn
<1>5. /\ Instr(n, x) /\ IsSeq(rest)
      /\ \A u : PartOf(u, Rest) = IF x.node = u THEN <<x>> \o PartOf(u, rest) ELSE PartOf(u, rest)
  BY <1>2, <1>4, RestFirst
<1>6. w \in 1 .. n /\ x = WriteOf(w, x.field)
  <2>1. AwaitOf(w).do = "await"
    BY DEF AwaitOf
  <2>2. w \in 1 .. n /\ \E field : x = WriteOf(w, field)
    BY <1>3, <1>5, <2>1 DEF Instr
  <2> QED
    BY <2>2 DEF WriteOf
<1>7. Workers = 1 .. n /\ w \in AllNodes /\ w # 0 /\ \A u \in Workers : u \in AllNodes /\ u # 0
  BY <1>2, <1>6, NodeFacts DEF Workers
<1>8. DOMAIN toWorker = AllNodes /\ Len(toWorker[w]) \in Nat /\ IsSeq(toWorker[w])
  BY <1>1, <1>6, <1>7, SeqShape DEF Shapes, WorkerInv
<1>9. Capacity \in Nat \ {0}
  BY TransferAssumption
<1>r. RestOf(Programs[model'], rootPc') = rest /\ Rest = RestOf(Programs[model], rootPc)
  BY <1>3, <1>4 DEF Rest
<1> HIDE DEF x, rest, n
<1>p. \A u : IsSeq(PartOf(u, rest))
  BY <1>5, PartCat
<1>10. /\ Write(w, Append(toWorker[w], x.field)) \o PartOf(w, rest)
            = Write(w, toWorker[w]) \o (<<x>> \o PartOf(w, rest))
       /\ IsSeq(Append(toWorker[w], x.field)) /\ Len(Append(toWorker[w], x.field)) = Len(toWorker[w]) + 1
  BY <1>6, <1>8, <1>p, WriteMore
<1>11. Shapes'
  <2>1. DOMAIN toWorker' = AllNodes
    BY <1>3, <1>8
  <2>2. \A u \in AllNodes : Len(toWorker'[u]) <= Capacity
    BY <1>1, <1>3, <1>7, <1>8, <1>9, <1>10 DEF Shapes
  <2>3. /\ DOMAIN toRoot = AllNodes /\ DOMAIN want = AllNodes /\ DOMAIN got = AllNodes /\ DOMAIN loaded = AllNodes
        /\ \A u \in AllNodes : Len(toRoot[u]) <= 1
    BY <1>1 DEF Shapes
  <2> QED
    BY <1>2, <1>3, <1>4, <2>1, <2>2, <2>3 DEF Shapes
<1>12. RootInv'
  <2>1. PartOf(0, rest) = PartOf(0, Rest)
    BY <1>5, <1>7
  <2>2. PICK k \in 0 .. LastWeight(model) :
          PartOf(0, RestOf(Programs[model], rootPc)) = OwnAfter(model, k) /\ Placed(model, 0, loaded[0], k)
    BY <1>1 DEF RootInv
  <2>3. k \in 0 .. LastWeight(model') /\ PartOf(0, RestOf(Programs[model'], rootPc')) = OwnAfter(model', k)
        /\ Placed(model', 0, loaded'[0], k)
    BY <1>3, <1>r, <2>1, <2>2
  <2> QED
    BY <1>4, <2>3 DEF RootInv
<1>13. ASSUME NEW u \in Workers PROVE WorkerInv(u)'
  <2>1. Coming(u) = Write(u, toWorker[u]) \o PartOf(u, Rest)
    BY <1>r DEF Coming
  <2>2. Coming(u)' = Write(u, toWorker'[u]) \o PartOf(u, rest)
    BY <1>r DEF Coming
  <2>3. IsSeq(toWorker[u])
    BY <1>1 DEF WorkerInv
  <2>4. Coming(u)' = Coming(u) /\ IsSeq(toWorker'[u])
    <3>1. CASE u = w
      <4>1. toWorker'[u] = Append(toWorker[w], x.field)
        BY <1>3, <1>7, <1>8, <3>1
      <4>2. PartOf(u, Rest) = <<x>> \o PartOf(w, rest)
        BY <1>5, <3>1
      <4> QED
        BY <1>10, <2>1, <2>2, <3>1, <4>1, <4>2
    <3>2. CASE u # w
      <4>1. toWorker'[u] = toWorker[u]
        BY <1>3, <3>2
      <4>2. PartOf(u, Rest) = PartOf(u, rest)
        BY <1>5, <3>2
      <4> QED
        BY <2>1, <2>2, <2>3, <4>1, <4>2
    <3> QED
      BY <3>1, <3>2
  <2>5. status'[u] = status[u]
    BY <1>4, <1>7
  <2> QED
    BY <1>1, <1>3, <2>4, <2>5, Unmoved
<1>14. Workers' = Workers
  BY <1>3, SameWorkers
<1> QED
  BY <1>11, <1>12, <1>13, <1>14 DEF TransferInv

(* The root reads an acknowledgement (nn-network.cpp:628-629, 679-680,       *)
(* 790-791).                                                                 *)
LEMMA AwaitKeeps ==
  ASSUME TransferInv, RootReadsAck
  PROVE  TransferInv'
<1>0. PICK w : w = Instruction.node
  OBVIOUS
<1> DEFINE x    == Instruction
           rest == RestOf(Programs[model], rootPc + 1)
           n    == model.nNodes - 1
<1>1. Shapes /\ RootInv /\ \A u \in Workers : WorkerInv(u)
  BY DEF TransferInv
<1>2. model \in Models /\ rootPc \in 0 .. Len(Programs[model])
  BY <1>1 DEF Shapes, RootInv
<1>3. /\ Running(0) /\ x.do = "await" /\ x.node = w /\ toRoot[w] # <<>>
      /\ toRoot' = [toRoot EXCEPT ![w] = Tail(@)] /\ RootGoesOn
      /\ model' = model /\ toWorker' = toWorker /\ want' = want /\ got' = got /\ loaded' = loaded
  BY <1>0 DEF RootReadsAck, workerVars
<1>4. /\ rootPc # Len(Programs[model]) /\ rootPc' = rootPc + 1
      /\ rootPc' \in 0 .. Len(Programs[model']) /\ (status'[0] = "ready" <=> rootPc' = Len(Programs[model']))
      /\ status' \in [AllNodes -> {"running", "ready", "killed", "exited", "absent"}]
      /\ \A u \in AllNodes : u # 0 => status'[u] = status[u]
  BY <1>1, <1>3, GoesOn
<1>5. /\ Instr(n, x) /\ x.node = w /\ IsSeq(rest)
      /\ \A u : PartOf(u, Rest) = IF w = u THEN <<x>> \o PartOf(u, rest) ELSE PartOf(u, rest)
  BY <1>0, <1>2, <1>4, RestFirst
<1>6. w \in 1 .. n
  BY <1>3, <1>5 DEF Instr
<1>7. Workers = 1 .. n /\ w \in AllNodes /\ w # 0 /\ w \in Workers /\ \A u \in Workers : u \in AllNodes /\ u # 0
  BY <1>2, <1>6, NodeFacts DEF Workers
<1>8. DOMAIN toRoot = AllNodes /\ IsSeq(toWorker[w])
  BY <1>1, <1>7 DEF Shapes, WorkerInv
<1>r. RestOf(Programs[model'], rootPc') = rest /\ Rest = RestOf(Programs[model], rootPc)
  BY <1>3, <1>4 DEF Rest
<1> HIDE DEF x, rest, n
<1>p. \A u : IsSeq(PartOf(u, rest))
  BY <1>5, PartCat
<1> DEFINE v == View(w)
<1>9. v.ack = toRoot[w] /\ v.coming = Coming(w) /\ Consistent(model, w, v)
  BY <1>1, <1>7 DEF View, WorkerInv
<1>10. v.ack = <<Ack>> /\ Head(v.coming) = AwaitOf(w)
  <2> HIDE DEF v
  <2> QED
    BY <1>2, <1>3, <1>9, AckFirst
<1>11. Coming(w) = Write(w, toWorker[w]) \o (<<x>> \o PartOf(w, rest))
  BY <1>5, <1>r DEF Coming
<1>12. toWorker[w] = <<>>
  <2> SUFFICES ASSUME toWorker[w] # <<>>
               PROVE  FALSE
    OBVIOUS
  <2> DEFINE s == toWorker[w]
             more == <<x>> \o PartOf(w, rest)
             h == Head(s)
  <2>1. IsSeq(more)
    BY <1>p, OneIsSeq, CatSeq
  <2>2. IsSeq(s) /\ s # <<>> /\ v.coming = Write(w, s) \o more
    BY <1>8, <1>9, <1>11
  <2> HIDE DEF s, more, v
  <2>3. Head(v.coming) = WriteOf(w, h)
    <3>1. Head(Write(w, s) \o more) = WriteOf(w, Head(s))
      BY <2>1, <2>2, WrittenFirst
    <3> QED
      BY <2>2, <3>1
  <2>4. WriteOf(w, h) # AwaitOf(w)
    <3>1. WriteOf(w, h).do = "write" /\ AwaitOf(w).do = "await"
      BY DEF WriteOf, AwaitOf
    <3> QED
      BY <3>1
  <2> QED
    BY <1>10, <2>3, <2>4
<1>13. Coming(w) = <<x>> \o PartOf(w, rest)
  <2>1. IsSeq(<<x>> \o PartOf(w, rest))
    BY <1>p, OneIsSeq, CatSeq
  <2>2. Write(w, <<>>) \o (<<x>> \o PartOf(w, rest)) = <<x>> \o PartOf(w, rest)
    BY <2>1, ComingAck
  <2> QED
    BY <1>11, <1>12, <2>2
<1>14. Coming(w)' = PartOf(w, rest)
  <2>1. Coming(w)' = Write(w, toWorker'[w]) \o PartOf(w, rest)
    BY <1>r DEF Coming
  <2>2. Write(w, <<>>) \o PartOf(w, rest) = PartOf(w, rest)
    BY <1>p, ComingAck
  <2> QED
    BY <1>3, <1>12, <2>1, <2>2
<1>15. toRoot'[w] = <<>>
  <2>1. toRoot[w] = <<Ack>> /\ Tail(<<Ack>>) = <<>>
    BY <1>9, <1>10, Single
  <2> QED
    BY <1>3, <1>7, <1>8, <2>1
<1>16. AfterAck(v, View(w)')
  <2>1. Tail(<<x>> \o PartOf(w, rest)) = PartOf(w, rest)
    BY <1>p, ConsHead
  <2>2. /\ v.want = want[w] /\ v.got = got[w] /\ v.coming = Coming(w) /\ v.loaded = loaded[w]
        /\ View(w)'.want = want'[w] /\ View(w)'.got = got'[w] /\ View(w)'.coming = Coming(w)'
        /\ View(w)'.loaded = loaded'[w] /\ View(w)'.ack = toRoot'[w]
    BY DEF View
  <2> HIDE DEF v
  <2> QED
    BY <1>3, <1>13, <1>14, <1>15, <2>1, <2>2 DEF AfterAck
<1>17. Shapes'
  <2>1. DOMAIN toRoot' = AllNodes
    BY <1>3, <1>8
  <2>2. \A u \in AllNodes : Len(toRoot'[u]) <= 1
    <3>1. \A u \in AllNodes : Len(toRoot[u]) <= 1
      BY <1>1 DEF Shapes
    <3>2. Len(toRoot'[w]) = 0
      BY <1>15, EmptyIsSeq
    <3> QED
      BY <1>3, <1>7, <1>8, <3>1, <3>2
  <2>3. /\ DOMAIN toWorker = AllNodes /\ DOMAIN want = AllNodes /\ DOMAIN got = AllNodes /\ DOMAIN loaded = AllNodes
        /\ \A u \in AllNodes : Len(toWorker[u]) <= Capacity
    BY <1>1 DEF Shapes
  <2> QED
    BY <1>2, <1>3, <1>4, <2>1, <2>2, <2>3 DEF Shapes
<1>18. RootInv'
  <2>1. PartOf(0, rest) = PartOf(0, Rest)
    BY <1>5, <1>7
  <2>2. PICK k \in 0 .. LastWeight(model) :
          PartOf(0, RestOf(Programs[model], rootPc)) = OwnAfter(model, k) /\ Placed(model, 0, loaded[0], k)
    BY <1>1 DEF RootInv
  <2>3. k \in 0 .. LastWeight(model') /\ PartOf(0, RestOf(Programs[model'], rootPc')) = OwnAfter(model', k)
        /\ Placed(model', 0, loaded'[0], k)
    BY <1>3, <1>r, <2>1, <2>2
  <2> QED
    BY <1>4, <2>3 DEF RootInv
<1>19. ASSUME NEW u \in Workers PROVE WorkerInv(u)'
  <2>5. status'[u] = status[u]
    BY <1>4, <1>7
  <2>1. CASE u = w
    <3> DEFINE v2 == View(w)'
    <3>1. Consistent(model, w, v2)
      <4>1. AfterAck(v, v2) /\ Consistent(model, w, v) /\ v.ack # <<>>
        <5>1. v.ack # <<>>
          BY <1>3, <1>9
        <5> QED
          BY <1>9, <1>16, <5>1
      <4> HIDE DEF v, v2
      <4> QED
        BY <1>2, <4>1, StepAck
    <3>2. Consistent(model', w, View(w)')
      BY <1>3, <3>1
    <3>3. IsSeq(toWorker'[w]) /\ (status'[w] = "ready" <=> want'[w] = <<>>)
      BY <1>1, <1>3, <1>7, <2>1, <2>5 DEF WorkerInv
    <3> QED
      BY <2>1, <3>2, <3>3 DEF WorkerInv
  <2>2. CASE u # w
    <3>1. Coming(u) = Write(u, toWorker[u]) \o PartOf(u, Rest)
      BY <1>r DEF Coming
    <3>2. Coming(u)' = Write(u, toWorker'[u]) \o PartOf(u, rest)
      BY <1>r DEF Coming
    <3>3. PartOf(u, Rest) = PartOf(u, rest) /\ toRoot'[u] = toRoot[u]
      BY <1>3, <1>5, <2>2
    <3>4. IsSeq(toWorker'[u])
      BY <1>1, <1>3 DEF WorkerInv
    <3>5. Coming(u)' = Coming(u)
      BY <1>3, <3>1, <3>2, <3>3
    <3> QED
      BY <1>1, <1>3, <2>5, <3>3, <3>4, <3>5, Unmoved
  <2> QED
    BY <2>1, <2>2
<1>20. Workers' = Workers
  BY <1>3, SameWorkers
<1> QED
  BY <1>17, <1>18, <1>19, <1>20 DEF TransferInv
(* The root loads its part of a weight, the next in order                   *)
(* (nn-network.cpp:828-863, nn-executor.cpp:133-147).                        *)
LEMMA LoadKeeps ==
  ASSUME TransferInv, RootLoads
  PROVE  TransferInv'
<1> DEFINE x    == Instruction
           rest == RestOf(Programs[model], rootPc + 1)
           n    == model.nNodes - 1
           L    == LastWeight(model)
<1>1. Shapes /\ RootInv /\ \A u \in Workers : WorkerInv(u)
  BY DEF TransferInv
<1>2. model \in Models /\ rootPc \in 0 .. Len(Programs[model])
  BY <1>1 DEF Shapes, RootInv
<1>3. /\ Running(0) /\ x.do = "load" /\ RootGoesOn
      /\ model' = model /\ toWorker' = toWorker /\ toRoot' = toRoot /\ want' = want /\ got' = got
  BY DEF RootLoads, workerVars
<1>4. /\ rootPc # Len(Programs[model]) /\ rootPc' = rootPc + 1
      /\ rootPc' \in 0 .. Len(Programs[model']) /\ (status'[0] = "ready" <=> rootPc' = Len(Programs[model']))
      /\ status' \in [AllNodes -> {"running", "ready", "killed", "exited", "absent"}]
      /\ \A u \in AllNodes : u # 0 => status'[u] = status[u]
  BY <1>1, <1>3, GoesOn
<1>5. /\ Instr(n, x) /\ IsSeq(rest)
      /\ \A u : PartOf(u, Rest) = IF x.node = u THEN <<x>> \o PartOf(u, rest) ELSE PartOf(u, rest)
  BY <1>2, <1>4, RestFirst
<1>6. x.node = 0
  <2>1. AwaitOf(x.node).do = "await" /\ \A field : WriteOf(x.node, field).do = "write"
    BY DEF AwaitOf, WriteOf
  <2> QED
    BY <1>3, <1>5, <2>1 DEF Instr
<1>7. Workers = 1 .. n /\ 0 \in AllNodes /\ \A u \in Workers : u \in AllNodes /\ u # 0
  BY <1>2, NodeFacts DEF Workers
<1>r. RestOf(Programs[model'], rootPc') = rest /\ Rest = RestOf(Programs[model], rootPc)
  BY <1>3, <1>4 DEF Rest
<1>8. PICK k \in 0 .. L : PartOf(0, Rest) = OwnAfter(model, k) /\ Placed(model, 0, loaded[0], k)
  BY <1>1, <1>r DEF RootInv
<1>9. PartOf(0, Rest) = <<x>> \o PartOf(0, rest) /\ IsSeq(PartOf(0, rest))
  BY <1>5, <1>6, PartCat
<1>10. model.nLayers \in Nat /\ L \in Nat \ {0, 1}
  BY <1>2, ModelFacts, WeightsShape DEF LastWeight
<1>w. WeightTable[model] = Weights(model)
  BY <1>2 DEF WeightTable
<1>d. /\ Locate(Configs[model][0], Weights(model)[x.weight].name, Weights(model)[x.weight].index) # {}
      /\ loaded' = [loaded EXCEPT ![0] =
           With(@, First(Locate(Configs[model][0], Weights(model)[x.weight].name, Weights(model)[x.weight].index)),
                WeightPart(x.weight, 0))]
  BY <1>w DEF RootLoads, LoadInto, Loadable
<1> HIDE DEF x, rest, n
<1>11. k < L
  <2>1. <<x>> \o PartOf(0, rest) # <<>>
    BY <1>9, ConsHead
  <2>2. k # L
    BY <1>8, <1>9, <1>10, <2>1, OwnStep DEF LastWeight
  <2> QED
    BY <1>10, <2>2
<1>12. x = [do |-> "load", node |-> 0, weight |-> k + 1] /\ PartOf(0, rest) = OwnAfter(model, k + 1)
  <2> DEFINE y == [do |-> "load", node |-> 0, weight |-> k + 1]
  <2>1. k \in 0 .. (L - 1) /\ k + 1 \in 0 .. L
    BY <1>10, <1>11
  <2>2. OwnAfter(model, k) = LoadOwn(k + 1) \o OwnAfter(model, k + 1) /\ IsSeq(OwnAfter(model, k + 1))
    BY <1>10, <2>1, OwnStep DEF LastWeight
  <2>3. LoadOwn(k + 1) = <<y>>
    BY DEF LoadOwn
  <2> HIDE DEF y
  <2>4. <<x>> \o PartOf(0, rest) = <<y>> \o OwnAfter(model, k + 1)
    BY <1>8, <1>9, <2>2, <2>3
  <2>5. x = y /\ PartOf(0, rest) = OwnAfter(model, k + 1)
    <3> DEFINE s == PartOf(0, rest)
               t == OwnAfter(model, k + 1)
    <3>1. IsSeq(s) /\ IsSeq(t) /\ <<x>> \o s = <<y>> \o t
      BY <1>9, <2>2, <2>4
    <3> HIDE DEF s, t
    <3>2. x = y /\ s = t
      <4>1. PICK a, b : a = x /\ b = y
        OBVIOUS
      <4>2. <<a>> \o s = <<b>> \o t
        BY <3>1, <4>1
      <4>3. a = b /\ s = t
        BY <3>1, <4>2, ConsSame
      <4> QED
        BY <4>1, <4>3
    <3> QED
      BY <3>2 DEF s, t
  <2> QED
    BY <2>5 DEF y
<1>13. x.weight = k + 1
  BY <1>12
<1>14. Placed(model, 0, loaded'[0], k + 1)
  <2>1. DOMAIN loaded = AllNodes
    BY <1>1 DEF Shapes
  <2>2. loaded'[0] = With(loaded[0], Place(model, 0, k + 1), WeightPart(k + 1, 0))
    BY <1>7, <1>d, <1>13, <2>1 DEF Place
  <2>3. k + 1 \in Nat \ {0} /\ (k + 1) - 1 = k
    BY <1>10
  <2>4. Given(model, 0, k + 1)
    BY DEF Given
  <2>5. Placed(model, 0, loaded[0], (k + 1) - 1)
    BY <1>8, <2>3
  <2>6. Locate(Configs[model][0], Weights(model)[k + 1].name, Weights(model)[k + 1].index) # {}
    BY <1>d, <1>13
  <2> QED
    BY <2>2, <2>3, <2>4, <2>5, <2>6, PlacedMore
<1>15. Shapes'
  <2>1. DOMAIN loaded' = AllNodes
    BY <1>1, <1>d DEF Shapes
  <2>3. /\ DOMAIN toWorker = AllNodes /\ DOMAIN want = AllNodes /\ DOMAIN got = AllNodes /\ DOMAIN toRoot = AllNodes
        /\ \A u \in AllNodes : Len(toWorker[u]) <= Capacity /\ Len(toRoot[u]) <= 1
    BY <1>1 DEF Shapes
  <2> QED
    BY <1>2, <1>3, <1>4, <2>1, <2>3 DEF Shapes
<1>16. RootInv'
  <2>1. PartOf(0, RestOf(Programs[model'], rootPc')) = OwnAfter(model', k + 1)
    BY <1>3, <1>12, <1>r
  <2>2. k + 1 \in 0 .. LastWeight(model') /\ Placed(model', 0, loaded'[0], k + 1)
    BY <1>3, <1>10, <1>11, <1>14
  <2> QED
    BY <1>4, <2>1, <2>2 DEF RootInv
<1>17. ASSUME NEW u \in Workers PROVE WorkerInv(u)'
  <2>1. Coming(u) = Write(u, toWorker[u]) \o PartOf(u, Rest)
    BY <1>r DEF Coming
  <2>2. Coming(u)' = Write(u, toWorker'[u]) \o PartOf(u, rest)
    BY <1>r DEF Coming
  <2>3. PartOf(u, Rest) = PartOf(u, rest) /\ loaded'[u] = loaded[u]
    BY <1>5, <1>6, <1>7, <1>d
  <2>4. IsSeq(toWorker'[u])
    BY <1>1, <1>3 DEF WorkerInv
  <2>5. Coming(u)' = Coming(u)
    BY <1>3, <2>1, <2>2, <2>3
  <2>6. status'[u] = status[u]
    BY <1>4, <1>7
  <2> QED
    BY <1>1, <1>3, <2>3, <2>4, <2>5, <2>6, Unmoved
<1>18. Workers' = Workers
  BY <1>3, SameWorkers
<1> QED
  BY <1>15, <1>16, <1>17, <1>18 DEF TransferInv

(* A process ends that was running, and is not ready (app.cpp:326-351).      *)
LEMMA EndKeeps ==
  ASSUME TransferInv, NEW n \in AllNodes, Running(n), NEW how \in {"killed", "exited"},
         status' = [status EXCEPT ![n] = how],
         UNCHANGED <<model, rootPc, toWorker, toRoot, workerVars, loaded>>
  PROVE  TransferInv'
<1>1. Shapes /\ RootInv /\ \A u \in Workers : WorkerInv(u)
  BY DEF TransferInv
<1>2. /\ model' = model /\ rootPc' = rootPc /\ toWorker' = toWorker /\ toRoot' = toRoot
      /\ want' = want /\ got' = got /\ loaded' = loaded
  BY DEF workerVars
<1>3. status \in [AllNodes -> {"running", "ready", "killed", "exited", "absent"}] /\ model \in Models
  BY <1>1 DEF Shapes
<1>4. \A u \in AllNodes : status'[u] = "ready" <=> status[u] = "ready"
  BY <1>3 DEF Running
<1>5. status' \in [AllNodes -> {"running", "ready", "killed", "exited", "absent"}]
  BY <1>3
<1>6. Shapes'
  BY <1>1, <1>2, <1>5 DEF Shapes
<1>7. 0 \in AllNodes /\ \A u \in Workers : u \in AllNodes
  BY <1>3, NodeFacts DEF Workers
<1>8. RootInv'
  BY <1>1, <1>2, <1>4, <1>7 DEF RootInv
<1>9. ASSUME NEW u \in Workers PROVE WorkerInv(u)'
  <2>1. Coming(u)' = Coming(u)
    BY <1>2, SameComing
  <2>2. IsSeq(toWorker'[u])
    BY <1>1, <1>2 DEF WorkerInv
  <2>3. status'[u] = "ready" <=> status[u] = "ready"
    BY <1>4, <1>7
  <2> QED
    BY <1>1, <1>2, <2>1, <2>2, <2>3, Unmoved
<1>10. Workers' = Workers
  BY <1>2, SameWorkers
<1> QED
  BY <1>6, <1>8, <1>9, <1>10 DEF TransferInv

(* Processes that end                                                       *)
LEMMA EndsKeep ==
  ASSUME TransferInv
  PROVE  /\ RootLosesWorker => TransferInv'
         /\ \A w \in Workers : WorkerLosesRoot(w) => TransferInv'
         /\ \A n \in 0 .. (model.nNodes - 1) : Killed(n) => TransferInv'
<1>1. model \in Models
  BY DEF TransferInv, Shapes
<1>2. /\ 0 \in AllNodes /\ \A u \in Workers : u \in AllNodes
      /\ \A n \in 0 .. (model.nNodes - 1) : n \in AllNodes
  BY <1>1, NodeFacts DEF Workers
<1>3. RootLosesWorker => TransferInv'
  <2> SUFFICES ASSUME RootLosesWorker PROVE TransferInv'
    OBVIOUS
  <2>1. /\ Running(0) /\ status' = [status EXCEPT ![0] = "exited"]
        /\ UNCHANGED <<model, rootPc, toWorker, toRoot, workerVars, loaded>>
    BY DEF RootLosesWorker
  <2> QED
    BY <1>2, <2>1, EndKeeps
<1>4. ASSUME NEW w \in Workers, WorkerLosesRoot(w) PROVE TransferInv'
  <2>1. /\ Running(w) /\ status' = [status EXCEPT ![w] = "exited"]
        /\ UNCHANGED <<model, rootPc, toWorker, toRoot, workerVars, loaded>>
    BY <1>4 DEF WorkerLosesRoot
  <2> QED
    BY <1>2, <2>1, EndKeeps
<1>5. ASSUME NEW n \in 0 .. (model.nNodes - 1), Killed(n) PROVE TransferInv'
  <2>1. /\ Running(n) /\ status' = [status EXCEPT ![n] = "killed"]
        /\ UNCHANGED <<model, rootPc, toWorker, toRoot, workerVars, loaded>>
    BY <1>5 DEF Killed
  <2> QED
    BY <1>2, <2>1, EndKeeps
<1> QED
  BY <1>3, <1>4, <1>5
(* A worker moves, and nothing changes for the others.                      *)
LEMMA Moved ==
  ASSUME TransferInv, NEW w \in Workers, model' = model, rootPc' = rootPc, Shapes',
         \A u \in AllNodes \ {w} :
           /\ want'[u] = want[u] /\ got'[u] = got[u] /\ toRoot'[u] = toRoot[u] /\ loaded'[u] = loaded[u]
           /\ toWorker'[u] = toWorker[u] /\ status'[u] = status[u],
         Consistent(model, w, View(w)'), IsSeq(toWorker'[w]), status'[w] = "ready" <=> want'[w] = <<>>
  PROVE  TransferInv'
<1>1. RootInv /\ (\A u \in Workers : WorkerInv(u)) /\ model \in Models
  BY DEF TransferInv, Shapes
<1>2. 0 \in AllNodes /\ w # 0 /\ \A u \in Workers : u \in AllNodes
  BY <1>1, NodeFacts DEF Workers
<1>3. RootInv'
  BY <1>1, <1>2 DEF RootInv
<1>4. ASSUME NEW u \in Workers PROVE WorkerInv(u)'
  <2>1. CASE u = w
    <3>1. Consistent(model', w, View(w)')
      OBVIOUS
    <3> QED
      BY <2>1, <3>1 DEF WorkerInv
  <2>2. CASE u # w
    <3>1. /\ want'[u] = want[u] /\ got'[u] = got[u] /\ toRoot'[u] = toRoot[u] /\ loaded'[u] = loaded[u]
          /\ toWorker'[u] = toWorker[u] /\ status'[u] = status[u]
      BY <1>2, <2>2
    <3>2. Coming(u)' = Coming(u)
      BY <3>1, SameComing
    <3>3. IsSeq(toWorker'[u])
      BY <1>1, <3>1 DEF WorkerInv
    <3>4. status'[u] = "ready" <=> status[u] = "ready"
      BY <3>1
    <3> QED
      BY <1>1, <3>1, <3>2, <3>3, <3>4, Unmoved
  <2> QED
    BY <2>1, <2>2
<1>5. Workers' = Workers
  BY SameWorkers
<1> QED
  BY <1>3, <1>4, <1>5 DEF TransferInv

(* Where a running worker is                                                *)
LEMMA AtWork ==
  ASSUME TransferInv, NEW w \in Workers, Running(w)
  PROVE  /\ model \in Models /\ w \in Nodes(model) /\ w # 0 /\ w \in AllNodes
         /\ Consistent(model, w, View(w)) /\ IsSeq(toWorker[w]) /\ want[w] # <<>> /\ status[w] = "running"
         /\ IsSeq(PartOf(w, Rest)) /\ Coming(w) = Write(w, toWorker[w]) \o PartOf(w, Rest)
         /\ View(w).want = want[w] /\ View(w).got = got[w] /\ View(w).coming = Coming(w)
         /\ View(w).ack = toRoot[w] /\ View(w).loaded = loaded[w]
<1>1. Shapes /\ WorkerInv(w) /\ model \in Models /\ RootInv
  BY DEF TransferInv, Shapes
<1>2. w \in Nodes(model) /\ w # 0 /\ w \in AllNodes
  BY <1>1, NodeFacts DEF Workers
<1>3. status[w] = "running" /\ want[w] # <<>>
  BY <1>1 DEF Running, WorkerInv
<1>4. IsSeq(Rest)
  <2>1. Instrs(model.nNodes - 1, Programs[model]) /\ rootPc \in 0 .. Len(Programs[model])
    BY <1>1, ProgramInstrs DEF RootInv
  <2> QED
    BY <2>1, RestStep DEF Instrs, Rest
<1>5. IsSeq(PartOf(w, Rest))
  BY <1>4, PartCat
<1> QED
  BY <1>1, <1>2, <1>3, <1>5 DEF WorkerInv, Coming, Rest, View

(* What a worker is, after a step                                           *)
LEMMA ViewNext ==
  ASSUME NEW w
  PROVE  /\ View(w)'.want = want'[w] /\ View(w)'.got = got'[w] /\ View(w)'.coming = Coming(w)'
         /\ View(w)'.ack = toRoot'[w] /\ View(w)'.loaded = loaded'[w]
         /\ (model' = model /\ rootPc' = rootPc => Coming(w)' = Write(w, toWorker'[w]) \o PartOf(w, Rest))
  BY DEF View, Coming, Rest

(* A worker reads a field, of the size it asks for                          *)
(* (nn-network.cpp:690-773, 884-909).                                        *)
LEMMA ReadKeeps ==
  ASSUME TransferInv, NEW w \in Workers, Running(w), Item(w).do = "read", toWorker[w] # <<>>
  PROVE  /\ Item(w).size = Head(toWorker[w]).size
         /\ WorkerReads(w) => TransferInv'
<1> DEFINE v == View(w)
           s == toWorker[w]
           rest == PartOf(w, Rest)
<1>1. /\ model \in Models /\ w \in AllNodes /\ w # 0 /\ Consistent(model, w, v) /\ IsSeq(s) /\ want[w] # <<>>
      /\ status[w] = "running" /\ IsSeq(rest)
      /\ v.want = want[w] /\ v.got = got[w] /\ v.coming = Write(w, s) \o rest
      /\ v.ack = toRoot[w] /\ v.loaded = loaded[w]
  BY AtWork
<1>2. /\ Head(Write(w, s) \o rest) = WriteOf(w, Head(s)) /\ Tail(Write(w, s) \o rest) = Write(w, Tail(s)) \o rest
      /\ IsSeq(Tail(s)) /\ Len(Tail(s)) = Len(s) - 1 /\ Len(s) \in Nat
  <2>1. IsSeq(s) /\ s # <<>> /\ IsSeq(rest)
    BY <1>1
  <2> HIDE DEF s, rest
  <2> QED
    BY <2>1, WrittenFirst
<1>3. Head(v.coming).field = Head(s) /\ Head(v.coming).do = "write"
  <2>1. Head(v.coming) = WriteOf(w, Head(s))
    BY <1>1, <1>2
  <2> HIDE DEF v, s
  <2> QED
    BY <2>1 DEF WriteOf
<1>4. Head(v.want) = Item(w)
  BY <1>1 DEF Item
(* the worker as it would be after the step *)
<1> DEFINE x  == Item(w)
           v2 == [want |-> Tail(v.want), got |-> Put(v.got, x.id, x.field, Head(v.coming).field.value),
                  coming |-> Tail(v.coming), ack |-> v.ack, loaded |-> v.loaded]
<1>5. AfterRead(v, v2, Head(v.want))
  BY <1>4 DEF AfterRead
<1>6. Consistent(model, w, v2) /\ Asked(v) /\ v2.want # <<>>
  <2>1. v.want # <<>> /\ Head(v.want).do = "read"
    BY <1>1, <1>4
  <2> HIDE DEF v, v2
  <2> QED
    BY <1>1, <1>3, <1>5, <2>1, StepRead
<1>7. Item(w).size = Head(toWorker[w]).size
  BY <1>3, <1>4, <1>6 DEF Asked
<1>8. ASSUME WorkerReads(w) PROVE TransferInv'
  <2>1. /\ got' = [got EXCEPT ![w] = Put(@, x.id, x.field, Head(s).value)]
        /\ want' = [want EXCEPT ![w] = Tail(@)]
        /\ toWorker' = [toWorker EXCEPT ![w] = Tail(@)]
        /\ model' = model /\ status' = status /\ rootPc' = rootPc /\ toRoot' = toRoot /\ loaded' = loaded
    BY <1>8 DEF WorkerReads
  <2>2. Shapes
    BY DEF TransferInv
  <2>3. /\ DOMAIN got = AllNodes /\ DOMAIN want = AllNodes /\ DOMAIN toWorker = AllNodes
        /\ \A u \in AllNodes : Len(toWorker[u]) <= Capacity /\ Len(toRoot[u]) <= 1
    BY <2>2 DEF Shapes
  <2>4. /\ got'[w] = Put(v.got, x.id, x.field, Head(s).value)
        /\ want'[w] = Tail(v.want) /\ toWorker'[w] = Tail(s)
    <3> HIDE DEF x
    <3> QED
      BY <1>1, <2>1, <2>3
  <2>5. Coming(w)' = Tail(v.coming)
    BY <1>1, <1>2, <2>1, <2>4, ViewNext
  <2>6. View(w)' = v2
    <3>1. View(w)' = [want |-> want'[w], got |-> got'[w], coming |-> Coming(w)', ack |-> toRoot'[w], loaded |-> loaded'[w]]
      BY DEF View
    <3> HIDE DEF v, s, x
    <3> QED
      BY <1>1, <1>3, <2>1, <2>4, <2>5, <3>1
  <2>7. Capacity \in Nat
    BY TransferAssumption
  <2>8. Shapes'
    <3>1. \A u \in AllNodes : Len(toWorker'[u]) <= Capacity
      BY <1>1, <1>2, <2>1, <2>3, <2>4, <2>7
    <3>2. DOMAIN got' = AllNodes /\ DOMAIN want' = AllNodes /\ DOMAIN toWorker' = AllNodes
      BY <2>1, <2>3
    <3> QED
      BY <2>1, <2>2, <3>1, <3>2 DEF Shapes
  <2>9. Consistent(model, w, View(w)')
    BY <1>6, <2>6
  <2>10. status'[w] # "ready" /\ want'[w] # <<>>
    BY <1>1, <1>6, <2>1, <2>4
  <2>11. IsSeq(toWorker'[w])
    BY <1>2, <2>4
  <2>12. \A u \in AllNodes \ {w} :
           /\ want'[u] = want[u] /\ got'[u] = got[u] /\ toRoot'[u] = toRoot[u] /\ loaded'[u] = loaded[u]
           /\ toWorker'[u] = toWorker[u] /\ status'[u] = status[u]
    <3> HIDE DEF x, s
    <3> QED
      BY <2>1
  <2> QED
    BY <2>1, <2>8, <2>9, <2>10, <2>11, <2>12, Moved
<1> QED
  BY <1>7, <1>8
(* A worker goes on with what the fields it has read call for.              *)
LEMMA ExpandKeeps ==
  ASSUME TransferInv, NEW w \in Workers, WorkerExpands(w)
  PROVE  TransferInv'
<1> DEFINE v == View(w)
           x == Item(w)
           s == toWorker[w]
           v2 == [want |-> Expansion(x.of, x.id, v.got) \o Tail(v.want), got |-> v.got,
                  coming |-> v.coming, ack |-> v.ack, loaded |-> v.loaded]
<1>0. /\ Running(w) /\ x.do = "expand"
      /\ want' = [want EXCEPT ![w] = Expansion(x.of, x.id, got[w]) \o Tail(@)]
      /\ model' = model /\ status' = status /\ rootPc' = rootPc /\ toWorker' = toWorker
      /\ toRoot' = toRoot /\ got' = got /\ loaded' = loaded
  BY DEF WorkerExpands
<1>1. /\ model \in Models /\ w \in AllNodes /\ w # 0 /\ Consistent(model, w, v) /\ IsSeq(s) /\ want[w] # <<>>
      /\ status[w] = "running"
      /\ v.want = want[w] /\ v.got = got[w] /\ v.coming = Write(w, s) \o PartOf(w, Rest)
      /\ v.ack = toRoot[w] /\ v.loaded = loaded[w]
  BY <1>0, AtWork
<1>2. Head(v.want) = x
  BY <1>1 DEF Item
<1>3. AfterExpand(v, v2, Head(v.want))
  BY <1>2 DEF AfterExpand
<1>4. Consistent(model, w, v2) /\ v2.want # <<>>
  <2>1. v.want # <<>> /\ Head(v.want).do = "expand"
    BY <1>0, <1>1, <1>2
  <2> HIDE DEF v, v2
  <2> QED
    BY <1>1, <1>3, <2>1, StepExpand
<1>5. Shapes
  BY DEF TransferInv
<1>6. DOMAIN want = AllNodes
  BY <1>5 DEF Shapes
<1>7. want'[w] = Expansion(x.of, x.id, v.got) \o Tail(v.want)
  <2> HIDE DEF x
  <2> QED
    BY <1>0, <1>1, <1>6
<1>8. Coming(w)' = v.coming
  BY <1>0, <1>1, ViewNext
<1>9. View(w)' = v2
  <2>1. View(w)' = [want |-> want'[w], got |-> got'[w], coming |-> Coming(w)', ack |-> toRoot'[w], loaded |-> loaded'[w]]
    BY DEF View
  <2> HIDE DEF v, s, x
  <2> QED
    BY <1>0, <1>1, <1>7, <1>8, <2>1
<1>10. Shapes'
  <2>1. DOMAIN want' = AllNodes
    BY <1>0, <1>6
  <2> QED
    BY <1>0, <1>5, <2>1 DEF Shapes
<1>11. Consistent(model, w, View(w)') /\ IsSeq(toWorker'[w]) /\ status'[w] # "ready" /\ want'[w] # <<>>
  BY <1>0, <1>1, <1>4, <1>7, <1>9
<1>12. \A u \in AllNodes \ {w} :
         /\ want'[u] = want[u] /\ got'[u] = got[u] /\ toRoot'[u] = toRoot[u] /\ loaded'[u] = loaded[u]
         /\ toWorker'[u] = toWorker[u] /\ status'[u] = status[u]
  <2> HIDE DEF x
  <2> QED
    BY <1>0
<1> QED
  BY <1>0, <1>10, <1>11, <1>12, Moved

(* A worker sends an acknowledgement (nn-network.cpp:714-716, 771-773,       *)
(* 896-897); with the last it is ready (app.cpp:343-347).                    *)
LEMMA GiveKeeps ==
  ASSUME TransferInv, NEW w \in Workers, WorkerGivesAck(w)
  PROVE  TransferInv'
<1> DEFINE v == View(w)
           s == toWorker[w]
           v2 == [want |-> Tail(v.want), got |-> v.got, coming |-> v.coming, ack |-> Append(v.ack, Ack),
                  loaded |-> v.loaded]
<1>0. /\ Running(w) /\ Item(w).do = "give"
      /\ toRoot' = [toRoot EXCEPT ![w] = Append(@, Ack)]
      /\ want' = [want EXCEPT ![w] = Tail(@)]
      /\ status' = IF Len(want[w]) = 1 THEN [status EXCEPT ![w] = "ready"] ELSE status
      /\ model' = model /\ rootPc' = rootPc /\ toWorker' = toWorker
      /\ got' = got /\ loaded' = loaded
  BY DEF WorkerGivesAck
<1>1. /\ model \in Models /\ w \in AllNodes /\ w # 0 /\ Consistent(model, w, v) /\ IsSeq(s) /\ want[w] # <<>>
      /\ status[w] = "running"
      /\ v.want = want[w] /\ v.got = got[w] /\ v.coming = Write(w, s) \o PartOf(w, Rest)
      /\ v.ack = toRoot[w] /\ v.loaded = loaded[w]
  BY <1>0, AtWork
<1>2. Head(v.want) = Item(w)
  BY <1>1 DEF Item
<1>3. AfterGive(v, v2)
  BY DEF AfterGive
<1>4. /\ Consistent(model, w, v2) /\ v.ack = <<>> /\ v2.ack = <<Ack>>
      /\ Len(v.want) = 1 <=> v2.want = <<>>
  <2>1. v.want # <<>> /\ Head(v.want).do = "give"
    BY <1>0, <1>1, <1>2
  <2> HIDE DEF v, v2
  <2> QED
    BY <1>1, <1>3, <2>1, StepGive
<1>5. Shapes
  BY DEF TransferInv
<1>6. /\ DOMAIN want = AllNodes /\ DOMAIN toRoot = AllNodes
      /\ status \in [AllNodes -> {"running", "ready", "killed", "exited", "absent"}]
      /\ \A u \in AllNodes : Len(toWorker[u]) <= Capacity /\ Len(toRoot[u]) <= 1
  BY <1>5 DEF Shapes
<1>7. want'[w] = Tail(v.want) /\ toRoot'[w] = Append(v.ack, Ack) /\ toRoot'[w] = <<Ack>>
  BY <1>0, <1>1, <1>4, <1>6
<1>8. Coming(w)' = v.coming
  BY <1>0, <1>1, ViewNext
<1>9. View(w)' = v2
  <2>1. View(w)' = [want |-> want'[w], got |-> got'[w], coming |-> Coming(w)', ack |-> toRoot'[w], loaded |-> loaded'[w]]
    BY DEF View
  <2> HIDE DEF v, s
  <2> QED
    BY <1>0, <1>1, <1>7, <1>8, <2>1
<1>10. Shapes'
  <2>1. DOMAIN want' = AllNodes /\ DOMAIN toRoot' = AllNodes
    BY <1>0, <1>6
  <2>2. Len(toRoot'[w]) = 1
    BY <1>7, Single
  <2>3. \A u \in AllNodes : Len(toRoot'[u]) <= 1
    BY <1>0, <1>6, <2>2
  <2>4. status' \in [AllNodes -> {"running", "ready", "killed", "exited", "absent"}]
    BY <1>0, <1>6
  <2> QED
    BY <1>0, <1>5, <2>1, <2>3, <2>4 DEF Shapes
<1>11. Consistent(model, w, View(w)') /\ IsSeq(toWorker'[w])
  BY <1>0, <1>1, <1>4, <1>9
<1>12. status'[w] = "ready" <=> want'[w] = <<>>
  <2>1. status'[w] = "ready" <=> Len(want[w]) = 1
    BY <1>0, <1>1, <1>6
  <2> QED
    BY <1>1, <1>4, <1>7, <2>1
<1>13. \A u \in AllNodes \ {w} :
         /\ want'[u] = want[u] /\ got'[u] = got[u] /\ toRoot'[u] = toRoot[u] /\ loaded'[u] = loaded[u]
         /\ toWorker'[u] = toWorker[u] /\ status'[u] = status[u]
  BY <1>0, <1>6
<1> QED
  BY <1>0, <1>10, <1>11, <1>12, <1>13, Moved

(* A worker loads a weight (nn-network.cpp:897-906).                         *)
LEMMA WorkerLoadKeeps ==
  ASSUME TransferInv, NEW w \in Workers, WorkerLoads(w)
  PROVE  TransferInv'
<1> DEFINE v == View(w)
           s == toWorker[w]
           weight == v.got[Locals]
           place == First(Locate(v.got, weight.name, weight.index))
           v2 == [want |-> Tail(v.want), got |-> v.got, coming |-> v.coming, ack |-> v.ack,
                  loaded |-> With(v.loaded, place, weight.data)]
<1>0. /\ Running(w) /\ Item(w).do = "load"
      /\ want' = [want EXCEPT ![w] = Tail(@)]
      /\ model' = model /\ status' = status /\ rootPc' = rootPc /\ toWorker' = toWorker
      /\ toRoot' = toRoot /\ got' = got
  BY DEF WorkerLoads
<1>1. /\ model \in Models /\ w \in AllNodes /\ w # 0 /\ w \in Nodes(model) /\ Consistent(model, w, v) /\ IsSeq(s)
      /\ want[w] # <<>> /\ status[w] = "running"
      /\ v.want = want[w] /\ v.got = got[w] /\ v.coming = Write(w, s) \o PartOf(w, Rest)
      /\ v.ack = toRoot[w] /\ v.loaded = loaded[w]
  BY <1>0, AtWork
<1>a. /\ Loadable(v.got, weight.name, weight.index, weight.nBytes)
      /\ loaded' = [loaded EXCEPT ![w] = With(@, place, weight.data)]
  BY <1>1 DEF WorkerLoads, LoadInto
<1>2. Head(v.want) = Item(w)
  BY <1>1 DEF Item
<1>3. AfterLoad(v, v2)
  BY <1>a DEF AfterLoad
<1>4. Consistent(model, w, v2) /\ v2.want # <<>>
  <2>1. v.want # <<>> /\ Head(v.want).do = "load"
    BY <1>0, <1>1, <1>2
  <2> HIDE DEF v, v2, place, weight
  <2> QED
    BY <1>1, <1>3, <2>1, StepLoad
<1>5. Shapes
  BY DEF TransferInv
<1>6. DOMAIN want = AllNodes /\ DOMAIN loaded = AllNodes
  BY <1>5 DEF Shapes
<1>7. want'[w] = Tail(v.want) /\ loaded'[w] = With(v.loaded, place, weight.data)
  <2> HIDE DEF place, weight
  <2> QED
    BY <1>0, <1>1, <1>6, <1>a
<1>8. Coming(w)' = v.coming
  BY <1>0, <1>1, ViewNext
<1>9. View(w)' = v2
  <2>1. View(w)' = [want |-> want'[w], got |-> got'[w], coming |-> Coming(w)', ack |-> toRoot'[w], loaded |-> loaded'[w]]
    BY DEF View
  <2> HIDE DEF v, s, place, weight
  <2> QED
    BY <1>0, <1>1, <1>7, <1>8, <2>1
<1>10. Shapes'
  <2>1. DOMAIN want' = AllNodes /\ DOMAIN loaded' = AllNodes
    <3> HIDE DEF place, weight
    <3> QED
      BY <1>0, <1>6, <1>a
  <2> QED
    BY <1>0, <1>5, <2>1 DEF Shapes
<1>11. Consistent(model, w, View(w)') /\ IsSeq(toWorker'[w]) /\ status'[w] # "ready" /\ want'[w] # <<>>
  <2> HIDE DEF place, weight
  <2> QED
    BY <1>0, <1>1, <1>4, <1>7, <1>9
<1>12. \A u \in AllNodes \ {w} :
         /\ want'[u] = want[u] /\ got'[u] = got[u] /\ toRoot'[u] = toRoot[u] /\ loaded'[u] = loaded[u]
         /\ toWorker'[u] = toWorker[u] /\ status'[u] = status[u]
  <2> HIDE DEF place, weight
  <2> QED
    BY <1>0, <1>a
<1> QED
  BY <1>0, <1>10, <1>11, <1>12, Moved

(* Every step keeps the invariant.                                          *)
LEMMA InvNext == TransferInv /\ [TransferNext]_transferVars => TransferInv'
<1> SUFFICES ASSUME TransferInv, [TransferNext]_transferVars
             PROVE  TransferInv'
  OBVIOUS
<1>1. CASE RootWrites
  BY <1>1, WriteKeeps
<1>2. CASE RootReadsAck
  BY <1>2, AwaitKeeps
<1>3. CASE RootLoads
  BY <1>3, LoadKeeps
<1>4. CASE RootLosesWorker
  BY <1>4, EndsKeep
<1>5. ASSUME NEW w \in Workers, WorkerStep(w) PROVE TransferInv'
  <2>1. CASE WorkerReads(w)
    <3>1. Running(w) /\ Item(w).do = "read" /\ toWorker[w] # <<>>
      BY <2>1 DEF WorkerReads
    <3> QED
      BY <2>1, <3>1, ReadKeeps
  <2>2. CASE WorkerExpands(w)
    BY <2>2, ExpandKeeps
  <2>3. CASE WorkerGivesAck(w)
    BY <2>3, GiveKeeps
  <2>4. CASE WorkerLoads(w)
    BY <2>4, WorkerLoadKeeps
  <2>5. CASE WorkerLosesRoot(w)
    BY <2>5, EndsKeep
  <2> QED
    BY <1>5, <2>1, <2>2, <2>3, <2>4, <2>5 DEF WorkerStep
<1>6. ASSUME NEW n \in 0 .. (model.nNodes - 1), Killed(n) PROVE TransferInv'
  BY <1>6, EndsKeep
<1>7. CASE UNCHANGED transferVars
  <2>1. Shapes /\ RootInv /\ \A u \in Workers : WorkerInv(u)
    BY DEF TransferInv
  <2>2. /\ model' = model /\ rootPc' = rootPc /\ toWorker' = toWorker /\ toRoot' = toRoot
        /\ want' = want /\ got' = got /\ loaded' = loaded /\ status' = status
    BY <1>7 DEF transferVars, workerVars
  <2>3. Shapes' /\ RootInv' /\ Workers' = Workers
    BY <2>1, <2>2, SameWorkers DEF Shapes, RootInv
  <2>4. ASSUME NEW u \in Workers PROVE WorkerInv(u)'
    <3>1. Coming(u)' = Coming(u)
      BY <2>2, SameComing
    <3>2. IsSeq(toWorker'[u])
      BY <2>1, <2>2 DEF WorkerInv
    <3> QED
      BY <2>1, <2>2, <3>1, <3>2, Unmoved
  <2> QED
    BY <2>3, <2>4 DEF TransferInv
<1> QED
  BY <1>1, <1>2, <1>3, <1>4, <1>5, <1>6, <1>7 DEF TransferNext, RootStep

(* What workers have read, what they are going to read, what is on its way  *)
(* and what the root is still going to write fit together in every state.   *)
THEOREM TransferInductive == TransferSpec => []TransferInv
<1>1. TransferInit => TransferInv
  BY InvInit
<1>2. TransferInv /\ [TransferNext]_transferVars => TransferInv'
  BY InvNext
<1> QED
  BY <1>1, <1>2, PTL DEF TransferSpec

-----------------------------------------------------------------------------
(* What holds in every state                                                *)

(* Each process is in one of its states, a connection holds no more than    *)
(* it can, and no acknowledgement is sent before the one before was read    *)
(* (nn-network.cpp:364-388, 593-863).                                        *)
THEOREM TransferTypesHold == TransferSpec => []TransferTypeOK
<1>1. TransferInv => TransferTypeOK
  BY DEF TransferInv, Shapes, RootInv, TransferTypeOK
<1> QED
  BY <1>1, TransferInductive, PTL

(* A worker that wants nothing more has all that there was to come.         *)
LEMMA WantsNothing ==
  ASSUME NEW m \in Models, NEW w, NEW v, Consistent(m, w, v), v.want = <<>>
  PROVE  HasConfig(m, w, v.got) /\ GotSome(v.got) /\ Finished(m, w, v)
<1>1. GotSome(v.got) /\ InPhase(m, w, v)
  BY DEF Consistent, GotSome, InPhase
<1>2. ASSUME NEW X, ReadingNet(m, w, v, X) PROVE FALSE
  <2>1. Reading(m, w, v, X, NetRest, NetMore(m, w), NetPairs(m, w))
    BY <1>2 DEF ReadingNet
  <2> QED
    BY <2>1, RestLists, ReadingNext
<1>3. ASSUME NEW X, ReadingNode(m, w, v, X) PROVE FALSE
  <2>1. Reading(m, w, v, X, ReadWeight, After(m, w, 1), Pairs(m, w))
    BY <1>3 DEF ReadingNode
  <2> QED
    BY <2>1, RestLists, ReadingNext
<1>4. WeightPhase(m, w, v)
  BY <1>1, <1>2, <1>3 DEF InPhase
<1>5. \A x, s : IsSeq(s) => <<x>> \o s # <<>>
  BY ConsHead
<1>6. ReadWeight # <<>> /\ Expand("weight", Locals) # <<>> /\ Give # <<>>
  <2>1. ReadWeight = <<ReadItem(<<"uint">>, Locals, "bytes")>> \o Expand("weight", Locals)
    BY WeightItems
  <2>2. Expand("weight", Locals) = <<ExpandItem("weight", Locals)>> /\ Give = <<GiveItem>>
    BY WeightItems
  <2>3. IsSeq(Expand("weight", Locals))
    BY SmallLists
  <2> QED
    BY <1>5, <2>1, <2>2, <2>3, Single
<1>7. ASSUME NEW k, InWeight(m, w, v, k) PROVE FALSE
  <2>1. PICK stage \in 1 .. 8 : AtStage(m, w, v, k, stage)
    BY <1>7, Stages
  <2>2. v.want = <<StageItem(m, w, k, stage)>> \o StageRest(stage)
    BY <2>1 DEF AtStage, ReadingWeight
  <2>3. IsSeq(StageRest(stage))
    BY StageKinds
  <2> QED
    BY <1>5, <2>2, <2>3
<1>8. Finished(m, w, v)
  BY <1>4, <1>6, <1>7 DEF WeightPhase, BetweenWeights, Ending
<1> QED
  BY <1>1, <1>4, <1>8 DEF WeightPhase

(* The structures of a configuration have fields, and none for the length   *)
(* of a name.                                                               *)
LEMMA StructureFields ==
  ASSUME NEW m, NEW w, NEW id \in ConfigIds(m, w)
  PROVE  /\ id # Locals /\ "bytes" \notin StructFields[id[1]] /\ StructFields[id[1]] # {}
         /\ FieldsIn(id) \ {"bytes"} = StructFields[id[1]]
<1> DEFINE kinds == {"net", "node", "pipes", "preSyncs", "buffers", "segments", "syncs", "ops", "cacheSyncs"}
<1>1. id[1] \in kinds
  BY IdForms DEF Net, Node
<1>2. \A a \in kinds : "bytes" \notin StructFields[a] /\ StructFields[a] # {}
  BY DEF StructFields
<1>3. "bytes" \notin StructFields[id[1]] /\ StructFields[id[1]] # {}
  BY <1>1, <1>2
<1>4. FieldsIn(id) = StructFields[id[1]] \cup IF id[1] \in Named THEN {"bytes"} ELSE {}
  BY DEF FieldsIn
<1>5. FieldsIn(id) \ {"bytes"} = StructFields[id[1]]
  BY <1>3, <1>4
<1>6. id # Locals
  BY <1>1 DEF Locals
<1> QED
  BY <1>3, <1>5, <1>6

(* what g has of the configurations *)
ConfigIn(g) ==
  [id \in DOMAIN g \ {Locals} |-> [f \in DOMAIN g[id] \ {"bytes"} |-> g[id][f]]]

(* What a worker has read of the configurations is, field for field, what   *)
(* the root made for this node (nn-network.cpp:611-773).                     *)
LEMMA ConfigReceived ==
  ASSUME NEW m \in Models, NEW w \in Nodes(m), NEW g, HasConfig(m, w, g), GotSome(g)
  PROVE  ConfigIn(g) = Configs[m][w]
<1> DEFINE c == Configs[m][w]
           ids == DOMAIN g \ {Locals}
           known == Known(g)
           pairs == Pairs(m, w)
           part(id) == [f \in DOMAIN g[id] \ {"bytes"} |-> g[id][f]]
<1>1. \A id, f : <<id, f>> \in known <=> id \in DOMAIN g /\ f \in DOMAIN g[id]
  <2> SUFFICES ASSUME NEW id, NEW f
               PROVE  <<id, f>> \in known <=> id \in DOMAIN g /\ f \in DOMAIN g[id]
    OBVIOUS
  <2>1. <<id, f>> \in known <=> \E j \in DOMAIN g : <<id, f>> \in {<<j, h>> : h \in DOMAIN g[j]}
    BY DEF Known
  <2> QED
    BY <2>1
<1>2. \A id, f : id # Locals => (<<id, f>> \in pairs <=> id \in ConfigIds(m, w) /\ f \in FieldsIn(id))
  <2> SUFFICES ASSUME NEW id, NEW f, id # Locals
               PROVE  <<id, f>> \in pairs <=> id \in ConfigIds(m, w) /\ f \in FieldsIn(id)
    OBVIOUS
  <2>1. <<id, f>> \in pairs <=> \E j \in ConfigIds(m, w) : <<id, f>> \in {<<j, h>> : h \in FieldsIn(j)}
    BY DEF Pairs
  <2> QED
    BY <2>1
<1>3. \A id, f : id # Locals => (<<id, f>> \in known <=> <<id, f>> \in pairs)
  <2>1. {p \in known : p[1] # Locals} = {p \in pairs : p[1] # Locals}
    BY DEF HasConfig
  <2> HIDE DEF known, pairs
  <2> SUFFICES ASSUME NEW id, NEW f, id # Locals
               PROVE  <<id, f>> \in known <=> <<id, f>> \in pairs
    OBVIOUS
  <2>2. <<id, f>>[1] # Locals
    OBVIOUS
  <2> QED
    BY <2>1, <2>2
<1>4. \A id, f : id # Locals /\ <<id, f>> \in known => g[id][f] = Told(m, w, id, f)
  <2> SUFFICES ASSUME NEW id, NEW f, id # Locals, <<id, f>> \in known
               PROVE  g[id][f] = Told(m, w, id, f)
    OBVIOUS
  <2>1. <<id, f>>[1] = id /\ <<id, f>>[2] = f
    OBVIOUS
  <2> QED
    BY <2>1 DEF HasConfig
<1> HIDE DEF known, pairs
<1>5. \A id : id # Locals => \A f : id \in DOMAIN g /\ f \in DOMAIN g[id] <=> id \in ConfigIds(m, w) /\ f \in FieldsIn(id)
  BY <1>1, <1>2, <1>3
<1>6. ids = ConfigIds(m, w)
  <2>1. ASSUME NEW id \in ids PROVE id \in ConfigIds(m, w)
    <3>1. PICK f : f \in DOMAIN g[id]
      BY DEF GotSome
    <3> QED
      BY <1>5, <3>1
  <2>2. ASSUME NEW id \in ConfigIds(m, w) PROVE id \in ids
    <3>1. id # Locals /\ \E f : f \in StructFields[id[1]]
      BY StructureFields
    <3>2. PICK f : f \in FieldsIn(id)
      BY <3>1 DEF FieldsIn
    <3> QED
      BY <1>5, <3>1, <3>2
  <2> QED
    BY <2>1, <2>2
<1>7. ASSUME NEW id \in ids
      PROVE  [f \in DOMAIN g[id] \ {"bytes"} |-> g[id][f]] = c[id]
  <2>1. id \in ConfigIds(m, w) /\ id # Locals /\ id \in DOMAIN g
    BY <1>6
  <2>2. FieldsIn(id) \ {"bytes"} = StructFields[id[1]]
    BY <2>1, StructureFields
  <2>3. DOMAIN g[id] \ {"bytes"} = StructFields[id[1]]
    BY <1>5, <2>1, <2>2
  <2>4. ASSUME NEW f \in StructFields[id[1]] PROVE g[id][f] = Structure(m, w, id)[f]
    <3>1. f # "bytes" /\ f \in DOMAIN g[id]
      BY <2>3
    <3>2. g[id][f] = Told(m, w, id, f)
      BY <1>1, <1>4, <2>1, <3>1
    <3> QED
      BY <2>1, <3>1, <3>2 DEF Told
  <2>5. c[id] = [f \in StructFields[id[1]] |-> Structure(m, w, id)[f]]
    BY <2>1, MadeAgrees
  <2> HIDE DEF c
  <2> QED
    BY <2>3, <2>4, <2>5
<1>8. c = [id \in ConfigIds(m, w) |-> c[id]]
  <2>1. c = Structs(NetConfig(m), NodeConfig(m, w))
    BY DEF Configs
  <2>2. c = [id \in ConfigIds(m, w) |-> [f \in StructFields[id[1]] |-> Structure(m, w, id)[f]]]
    BY <2>1 DEF Structs, ConfigIds, Structure
  <2> HIDE DEF c
  <2> QED
    BY <2>2
<1>9. ConfigIn(g) = [id \in ids |-> part(id)]
  BY DEF ConfigIn
<1>10. \A id \in ids : part(id) = c[id]
  BY <1>7
<1>11. c = Configs[m][w]
  OBVIOUS
<1> HIDE DEF c, ids, part
<1> QED
  BY <1>6, <1>8, <1>9, <1>10, <1>11

(* A worker that is ready has the configuration the root made for this node *)
(* (nn-network.cpp:611-773, app.cpp:326-351): no field is lost, mixed up or  *)
(* read twice.                                                              *)
THEOREM ConfigurationArrives == TransferSpec => []ConfigArrives
<1>1. ASSUME TransferInv, NEW w \in Workers, status[w] = "ready"
      PROVE  Received(w) = Configs[model][w]
  <2>1. model \in Models /\ WorkerInv(w)
    BY <1>1 DEF TransferInv, Shapes
  <2>2. want[w] = <<>> /\ Consistent(model, w, View(w))
    BY <1>1, <2>1 DEF WorkerInv
  <2>3. View(w).want = want[w] /\ View(w).got = got[w]
    BY DEF View
  <2>4. HasConfig(model, w, got[w]) /\ GotSome(got[w])
    BY <2>1, <2>2, <2>3, WantsNothing
  <2>5. w \in Nodes(model)
    BY <2>1, NodeFacts DEF Workers
  <2>6. Received(w) = ConfigIn(got[w])
    BY DEF Received, ConfigIn
  <2> QED
    BY <2>1, <2>4, <2>5, <2>6, ConfigReceived
<1>2. TransferInv => ConfigArrives
  BY <1>1 DEF ConfigArrives
<1> QED
  BY <1>2, TransferInductive, PTL

-----------------------------------------------------------------------------
(* The end of the root's program                                            *)

(* Until a worker is ready, the root is still going to wait for it.         *)
LEMMA RootStillWaits ==
  ASSUME NEW m \in Models, NEW w, NEW v, Consistent(m, w, v), v.want # <<>>
  PROVE  AwaitOf(w) \in Elems(v.coming)
<1> DEFINE it == AwaitOf(w)
<1>1. InPhase(m, w, v) /\ AwaitAck(w) = <<it>>
  BY DEF Consistent, InPhase, AwaitAck, AwaitOf
<1>2. it \in Elems(AwaitAck(w)) /\ IsSeq(AwaitAck(w))
  BY <1>1, ElemsOfOne, SmallLists
<1>0. SUFFICES it \in Elems(v.coming)
  OBVIOUS
<1> HIDE DEF it
<1>3. \A a, b : IsSeq(a) /\ IsSeq(b) /\ (it \in Elems(a) \/ it \in Elems(b)) => it \in Elems(a \o b) /\ IsSeq(a \o b)
  BY CatElems, CatSeq
<1>4. ASSUME NEW k \in 1 .. LastWeight(m)
      PROVE  IsSeq(After(m, w, k)) /\ it \in Elems(After(m, w, k))
  <2> DEFINE f == [j \in 1 .. (Len(Weights(m)) - k) |-> Write(w, WeightFields(m, w, k + j))]
             z == Write(w, << UInt(0) >>)
  <2>1. IsSeq(z) /\ IsSeq(FlattenSeq(f))
    <3>1. \A j \in 1 .. (Len(Weights(m)) - k) : IsSeq(Write(w, WeightFields(m, w, k + j)))
      BY FieldsAreLists, SmallLists
    <3>2. Len(Weights(m)) - k \in Nat
      BY ModelFacts, WeightsShape DEF LastWeight
    <3>3. AreSeqs(f)
      BY <3>1, <3>2, TableIsSeq
    <3> QED
      BY <3>3, FlatIsSeq, OneIsSeq, SmallLists
  <2>2. After(m, w, k) = FlattenSeq(f) \o (z \o AwaitAck(w))
    BY DEF After
  <2> HIDE DEF f, z
  <2>3. IsSeq(z \o AwaitAck(w)) /\ it \in Elems(z \o AwaitAck(w))
    BY <1>2, <1>3, <2>1
  <2> QED
    BY <1>3, <2>1, <2>2, <2>3
<1>5. ASSUME NEW X, NEW Y, NEW more, NEW pairs, IsSeq(more), Reading(m, w, v, X, Y, more, pairs)
      PROVE  it \in Elems(v.coming)
  <2>1. \A x \in Elems(X) \cup Elems(X) : IsSeq(Says(m, w, x))
    BY <1>5, RestLists DEF Sound, Reading
  <2>2. IsSeq(Said(m, w, X))
    BY <1>5, <2>1, SaidCat DEF Reading
  <2>3. v.coming = Acked(w, v.ack) \o (Write(w, Said(m, w, X)) \o (AwaitAck(w) \o more))
    BY <1>5 DEF Reading
  <2>4. IsSeq(Acked(w, v.ack)) /\ IsSeq(Write(w, Said(m, w, X)))
    BY <2>2, SmallLists
  <2>5. IsSeq(AwaitAck(w) \o more) /\ it \in Elems(AwaitAck(w) \o more)
    BY <1>2, <1>3, <1>5
  <2> DEFINE rest == AwaitAck(w) \o more
             said == Write(w, Said(m, w, X))
  <2> HIDE DEF rest, said
  <2>6. IsSeq(said \o rest) /\ it \in Elems(said \o rest)
    BY <1>3, <2>4, <2>5 DEF rest, said
  <2> QED
    BY <1>3, <2>3, <2>4, <2>6 DEF rest, said
<1>6. ASSUME NEW X, ReadingNet(m, w, v, X) PROVE it \in Elems(v.coming)
  BY <1>5, <1>6, RestLists DEF ReadingNet
<1>7. ASSUME NEW X, ReadingNode(m, w, v, X) PROVE it \in Elems(v.coming)
  BY <1>5, <1>7, RestLists DEF ReadingNode
<1>8. ASSUME NEW k \in 1 .. LastWeight(m), BetweenWeights(m, w, v, k) PROVE it \in Elems(v.coming)
  BY <1>3, <1>4, <1>8, SmallLists DEF BetweenWeights
<1>9. ASSUME NEW k \in 2 .. LastWeight(m), InWeight(m, w, v, k) PROVE it \in Elems(v.coming)
  <2>1. PICK stage \in 1 .. 8 : AtStage(m, w, v, k, stage)
    BY <1>9, Stages
  <2>2. v.coming = Write(w, LeftOf(m, w, k, StageLeft(stage))) \o After(m, w, k)
    BY <2>1 DEF AtStage, ReadingWeight
  <2>3. StageLeft(stage) \in 0 .. 5
    BY StageRests
  <2>4. IsSeq(Write(w, LeftOf(m, w, k, StageLeft(stage))))
    BY <2>3, LeftStep, SmallLists DEF LeftIs
  <2>5. k \in 1 .. LastWeight(m)
    BY ModelFacts, WeightsShape DEF LastWeight
  <2> QED
    BY <1>3, <1>4, <2>2, <2>4, <2>5
<1>10. CASE Ending(m, w, v)
  BY <1>2, <1>10 DEF Ending
<1>11. CASE WeightPhase(m, w, v)
  BY <1>8, <1>9, <1>10, <1>11 DEF WeightPhase, Finished
<1> QED
  BY <1>1, <1>6, <1>7, <1>11 DEF InPhase

(* When the root is through with its program, every worker is ready: it has *)
(* read the last acknowledgement of each (nn-network.cpp:787-792).           *)
LEMMA WorkersAreReady ==
  ASSUME TransferInv, status[0] = "ready", NEW w \in Workers
  PROVE  status[w] = "ready"
<1>1. /\ model \in Models /\ WorkerInv(w) /\ rootPc = Len(Programs[model])
  BY DEF TransferInv, Shapes, RootInv
<1>2. /\ IsSeq(toWorker[w]) /\ Consistent(model, w, View(w))
      /\ status[w] = "ready" <=> want[w] = <<>>
  BY <1>1 DEF WorkerInv
<1>3. View(w).want = want[w] /\ View(w).coming = Coming(w)
  BY DEF View
<1>4. Coming(w) = Write(w, toWorker[w])
  <2>1. IsSeq(Programs[model])
    BY <1>1, ProgramInstrs DEF Instrs
  <2>2. RestOf(Programs[model], rootPc) = <<>>
    BY <1>1, <2>1, RestStep
  <2>3. PartOf(w, <<>>) = <<>>
    BY EmptyIsSeq, PartCat
  <2>4. IsSeq(Write(w, toWorker[w]))
    BY <1>2, SmallLists
  <2> QED
    BY <2>2, <2>3, <2>4, CatEmpty DEF Coming
<1>5. \A x \in Elems(Write(w, toWorker[w])) : x.do = "write"
  <2>1. Len(Write(w, toWorker[w])) = Len(toWorker[w]) /\ DOMAIN toWorker[w] = 1 .. Len(toWorker[w])
    BY <1>2, WriteCat, SeqShape
  <2>2. \A i \in 1 .. Len(toWorker[w]) : Write(w, toWorker[w])[i].do = "write"
    BY <2>1 DEF Write
  <2> QED
    BY <2>1, <2>2 DEF Elems
<1>6. AwaitOf(w) \notin Elems(Coming(w))
  <2>1. AwaitOf(w).do # "write"
    BY DEF AwaitOf
  <2> QED
    BY <1>4, <1>5, <2>1
<1>7. want[w] = <<>>
  BY <1>1, <1>2, <1>3, <1>6, RootStillWaits
<1> QED
  BY <1>2, <1>7

-----------------------------------------------------------------------------
(* The synchronisations of a node                                           *)

SyncsIn(steps) == Each(steps, SyncOf)

(* The synchronisations in two lists of steps, one after the other.         *)
LEMMA SyncsCat ==
  ASSUME NEW a, NEW b, IsSeq(a), IsSeq(b)
  PROVE  /\ IsSeq(SyncsIn(a)) /\ SyncsIn(<<>>) = <<>>
         /\ SyncsIn(a \o b) = SyncsIn(a) \o SyncsIn(b)
<1> DEFINE h(x) == IF x.type = "STEP_SYNC_NODES" THEN <<x>> ELSE <<>>
           f(s) == [i \in 1 .. Len(s) |-> h(s[i])]
<1>1. Len(a) \in Nat /\ Len(b) \in Nat /\ DOMAIN a = 1 .. Len(a) /\ DOMAIN b = 1 .. Len(b)
  BY SeqShape
<1>0. \A x : IsSeq(h(x))
  BY EmptyIsSeq, OneIsSeq
<1>2. ASSUME NEW s, IsSeq(s)
      PROVE  AreSeqs(f(s)) /\ Len(f(s)) = Len(s) /\ \A i \in 1 .. Len(s) : f(s)[i] = h(s[i])
  <2>1. Len(s) \in Nat
    BY <1>2, SeqShape
  <2>2. f(s) = [i \in 1 .. Len(s) |-> f(s)[i]] /\ \A i \in 1 .. Len(s) : f(s)[i] = h(s[i])
    OBVIOUS
  <2>3. \A i \in 1 .. Len(s) : IsSeq(f(s)[i])
    BY <1>0
  <2> HIDE DEF f, h
  <2>4. IsSeq(f(s)) /\ Len(f(s)) = Len(s)
    BY <2>1, <2>2, SeqOfFcn
  <2> QED
    BY <2>2, <2>3, <2>4 DEF AreSeqs
<1>3. IsSeq(a \o b) /\ Len(a \o b) = Len(a) + Len(b)
  BY Cat
<1>4. DOMAIN (a \o b) = 1 .. Len(a \o b)
  BY <1>3, SeqShape
<1>5. AreSeqs(f(a)) /\ AreSeqs(f(b)) /\ AreSeqs(f(a \o b))
  <2> HIDE DEF f
  <2> QED
    BY <1>2, <1>3
<1>6. f(a \o b) = f(a) \o f(b)
  <2> DEFINE fa == f(a)
             fb == f(b)
             fc == f(a \o b)
  <2> HIDE DEF h
  <2>1. IsSeq(fa) /\ Len(fa) = Len(a) /\ \A i \in 1 .. Len(a) : fa[i] = h(a[i])
    BY <1>2 DEF AreSeqs
  <2>2. IsSeq(fb) /\ Len(fb) = Len(b) /\ \A i \in 1 .. Len(b) : fb[i] = h(b[i])
    BY <1>2 DEF AreSeqs
  <2>3. /\ IsSeq(fc) /\ Len(fc) = Len(a) + Len(b)
        /\ \A i \in 1 .. (Len(a) + Len(b)) : fc[i] = h((a \o b)[i])
    BY <1>2, <1>3 DEF AreSeqs
  <2> HIDE DEF fa, fb, fc
  <2>4. /\ IsSeq(fa \o fb) /\ Len(fa \o fb) = Len(a) + Len(b)
        /\ \A i \in 1 .. (Len(a) + Len(b)) :
              (fa \o fb)[i] = IF i <= Len(a) THEN fa[i] ELSE fb[i - Len(a)]
    BY <2>1, <2>2, Cat
  <2>5. \A i \in 1 .. (Len(a) + Len(b)) : (a \o b)[i] = IF i <= Len(a) THEN a[i] ELSE b[i - Len(a)]
    BY Cat
  <2>6. ASSUME NEW i \in 1 .. (Len(a) + Len(b)) PROVE fc[i] = (fa \o fb)[i]
    <3>1. CASE i <= Len(a)
      <4>1. i \in 1 .. Len(a)
        BY <3>1, <1>1
      <4> QED
        BY <4>1, <3>1, <2>1, <2>3, <2>4, <2>5
    <3>2. CASE ~(i <= Len(a))
      <4>1. i - Len(a) \in 1 .. Len(b)
        BY <3>2, <1>1
      <4> QED
        BY <4>1, <3>2, <2>2, <2>3, <2>4, <2>5
    <3> QED
      BY <3>1, <3>2
  <2>7. fc = fa \o fb
    BY <2>3, <2>4, <2>6, SameSeq
  <2> QED
    BY <2>7 DEF fa, fb, fc
<1>7. FlattenSeq(f(a) \o f(b)) = FlattenSeq(f(a)) \o FlattenSeq(f(b)) /\ IsSeq(FlattenSeq(f(a)))
  <2> HIDE DEF f
  <2> QED
    BY <1>5, FlatCat, FlatIsSeq
<1>8. /\ SyncsIn(a) = FlattenSeq(f(a)) /\ SyncsIn(b) = FlattenSeq(f(b))
      /\ SyncsIn(a \o b) = FlattenSeq(f(a \o b))
  BY <1>1, <1>4 DEF SyncsIn, Each, SyncOf
<1>9. SyncsIn(<<>>) = <<>>
  <2>1. [i \in DOMAIN <<>> |-> h(<<>>[i])] = <<>>
    OBVIOUS
  <2> QED
    BY <2>1, FlatEmpty DEF SyncsIn, Each, SyncOf
<1> QED
  <2> HIDE DEF f
  <2> QED
    BY <1>6, <1>7, <1>8, <1>9

(* The synchronisations in several lists of steps.                          *)
LEMMA SyncsFlat ==
  ASSUME NEW s, AreSeqs(s)
  PROVE  /\ SyncsIn(FlattenSeq(s)) = FlattenSeq([i \in 1 .. Len(s) |-> SyncsIn(s[i])])
         /\ AreSeqs([i \in 1 .. Len(s) |-> SyncsIn(s[i])])
<1> DEFINE U == Elems(FlattenSeq(s))
           M == [a \in Seq(U) |-> SyncsIn(a)]
<1>1. ASSUME NEW a, IsSeq(a), Elems(a) \subseteq U PROVE a \in Seq(U)
  <2>1. Len(a) \in Nat /\ a = [i \in 1 .. Len(a) |-> a[i]] /\ \A i \in 1 .. Len(a) : a[i] \in U
    BY <1>1, SeqShape DEF Elems
  <2> QED
    BY <2>1
<1>2. \A a, b : IsSeq(a) /\ Elems(a) \subseteq U /\ IsSeq(b) /\ Elems(b) \subseteq U
                => IsSeq(M[a]) /\ M[a \o b] = M[a] \o M[b]
  <2> SUFFICES ASSUME NEW a, NEW b, IsSeq(a), Elems(a) \subseteq U, IsSeq(b), Elems(b) \subseteq U
               PROVE  IsSeq(M[a]) /\ M[a \o b] = M[a] \o M[b]
    OBVIOUS
  <2>1. IsSeq(a \o b) /\ Elems(a \o b) \subseteq U
    BY Cat, CatElems
  <2>2. a \in Seq(U) /\ b \in Seq(U) /\ (a \o b) \in Seq(U)
    BY <1>1, <2>1
  <2>3. IsSeq(SyncsIn(a)) /\ SyncsIn(a \o b) = SyncsIn(a) \o SyncsIn(b)
    BY SyncsCat
  <2> QED
    BY <2>2, <2>3
<1>3. M[<<>>] = <<>>
  <2>1. <<>> \in Seq(U)
    OBVIOUS
  <2>2. SyncsIn(<<>>) = <<>>
    BY EmptyIsSeq, SyncsCat
  <2> QED
    BY <2>1, <2>2
<1>4. /\ M[FlattenSeq(s)] = FlattenSeq([i \in 1 .. Len(s) |-> M[s[i]]])
      /\ AreSeqs([i \in 1 .. Len(s) |-> M[s[i]]])
  <2> HIDE DEF M
  <2> QED
    BY <1>2, <1>3, MapsFlat
<1>5. IsSeq(FlattenSeq(s)) /\ M[FlattenSeq(s)] = SyncsIn(FlattenSeq(s))
  BY <1>1, FlatIsSeq
<1>6. \A i \in 1 .. Len(s) : M[s[i]] = SyncsIn(s[i])
  <2> SUFFICES ASSUME NEW i \in 1 .. Len(s) PROVE M[s[i]] = SyncsIn(s[i])
    OBVIOUS
  <2>1. IsSeq(s[i])
    BY DEF AreSeqs
  <2>2. Elems(s[i]) \subseteq U
    BY FlatElems
  <2> QED
    BY <1>1, <2>1, <2>2
<1>7. [i \in 1 .. Len(s) |-> M[s[i]]] = [i \in 1 .. Len(s) |-> SyncsIn(s[i])]
  BY <1>6
<1> QED
  <2> HIDE DEF M, U
  <2> QED
    BY <1>4, <1>5, <1>7


(* Of a step that is no synchronisation, and of one that is.                *)
LEMMA SyncsOne ==
  ASSUME NEW x
  PROVE  SyncsIn(<<x>>) = IF x.type = "STEP_SYNC_NODES" THEN <<x>> ELSE <<>>
<1> DEFINE h == IF x.type = "STEP_SYNC_NODES" THEN <<x>> ELSE <<>>
<1>1. [i \in DOMAIN <<x>> |-> IF <<x>>[i].type = "STEP_SYNC_NODES" THEN << <<x>>[i] >> ELSE <<>>] = <<h>>
  OBVIOUS
<1>2. IsSeq(h)
  BY EmptyIsSeq, OneIsSeq
<1>3. SyncsIn(<<x>>) = FlattenSeq(<<h>>)
  BY <1>1 DEF SyncsIn, Each, SyncOf
<1> QED
  BY <1>2, <1>3, FlatOne

(* Steps that are all no synchronisations.                                  *)
LEMMA SyncsNone ==
  ASSUME NEW n \in Nat, NEW t, t = [i \in 1 .. n |-> t[i]], \A i \in 1 .. n : t[i].type # "STEP_SYNC_NODES"
  PROVE  SyncsIn(t) = <<>>
<1> DEFINE f == [i \in 1 .. n |-> <<>>]
<1>1. DOMAIN t = 1 .. n
  OBVIOUS
<1>2. SyncsIn(t) = FlattenSeq(f)
  <2>1. [i \in DOMAIN t |-> SyncOf(t[i])] = f
    BY <1>1 DEF SyncOf
  <2> QED
    BY <2>1 DEF SyncsIn, Each
<1>3. f = [i \in 1 .. n |-> f[i]] /\ \A i \in 1 .. n : f[i] = <<>>
  OBVIOUS
<1> HIDE DEF f
<1>4. AreSeqs(f) /\ Len(f) = n
  BY <1>3, EmptyIsSeq, TableIsSeq
<1>5. CASE n = 0
  <2>1. f = <<>>
    BY <1>4, <1>5, SeqShape DEF AreSeqs
  <2> QED
    BY <1>2, <2>1, FlatEmpty
<1>6. CASE n # 0
  <2>1. 1 \in 1 .. Len(f)
    BY <1>4, <1>6
  <2>2. FlattenSeq(f) = f[1]
    BY <1>3, <1>4, <2>1, FlatOnly
  <2> QED
    BY <1>2, <1>3, <1>4, <2>1, <2>2
<1> QED
  BY <1>5, <1>6

(* The executor synchronises the nodes after the operations of a segment,   *)
(* whatever these are (nn-executor.cpp:58-90).                               *)
LEMMA SegmentSyncs ==
  ASSUME NEW m, NEW s, s.nOps \in Nat
  PROVE  IsSeq(StepsOf(m, s)) /\ SyncsIn(StepsOf(m, s)) = SegmentSync(m, s.syncs, s.nSyncs)
<1> DEFINE a == IF s.nCacheSyncs > 0 THEN << [type |-> "STEP_SYNC_CACHE_LOAD"] >> ELSE <<>>
           b == [o \in 1 .. s.nOps |-> [type |-> "STEP_EXECUTE_OP", op |-> s.ops[o].name]]
           c == IF s.nCacheSyncs > 0 THEN << [type |-> "STEP_SYNC_CACHE_SAVE"] >> ELSE <<>>
           d == SegmentSync(m, s.syncs, s.nSyncs)
<1>1. StepsOf(m, s) = ((a \o b) \o c) \o d
  BY DEF StepsOf, SegmentSync
<1>2. IsSeq(a) /\ SyncsIn(a) = <<>>
  <2>1. [type |-> "STEP_SYNC_CACHE_LOAD"].type # "STEP_SYNC_NODES"
    OBVIOUS
  <2>2. SyncsIn(<< [type |-> "STEP_SYNC_CACHE_LOAD"] >>) = <<>>
    BY <2>1, SyncsOne
  <2>3. IsSeq(<< [type |-> "STEP_SYNC_CACHE_LOAD"] >>) /\ IsSeq(<<>>)
    BY OneIsSeq, EmptyIsSeq
  <2> QED
    BY <2>2, <2>3, SyncsCat
<1>3. IsSeq(c) /\ SyncsIn(c) = <<>>
  <2>1. [type |-> "STEP_SYNC_CACHE_SAVE"].type # "STEP_SYNC_NODES"
    OBVIOUS
  <2>2. SyncsIn(<< [type |-> "STEP_SYNC_CACHE_SAVE"] >>) = <<>>
    BY <2>1, SyncsOne
  <2>3. IsSeq(<< [type |-> "STEP_SYNC_CACHE_SAVE"] >>) /\ IsSeq(<<>>)
    BY OneIsSeq, EmptyIsSeq
  <2> QED
    BY <2>2, <2>3, SyncsCat
<1>4. IsSeq(d) /\ SyncsIn(d) = d
  <2> DEFINE x == [type |-> "STEP_SYNC_NODES", syncs |-> s.syncs]
  <2>1. SyncsIn(<<x>>) = <<x>>
    <3>1. x.type = "STEP_SYNC_NODES"
      OBVIOUS
    <3> HIDE DEF x
    <3> QED
      BY <3>1, SyncsOne
  <2>2. IsSeq(<<x>>) /\ IsSeq(<<>>)
    BY OneIsSeq, EmptyIsSeq
  <2>3. d = <<x>> \/ d = <<>>
    BY DEF SegmentSync
  <2> HIDE DEF d, x
  <2> QED
    BY <2>1, <2>2, <2>3, SyncsCat
<1>5. IsSeq(b) /\ SyncsIn(b) = <<>>
  <2> DEFINE n == s.nOps
  <2>1. n \in Nat /\ b = [i \in 1 .. n |-> b[i]] /\ \A i \in 1 .. n : b[i].type # "STEP_SYNC_NODES"
    OBVIOUS
  <2> HIDE DEF b, n
  <2> QED
    BY <2>1, SyncsNone, SeqOfFcn
<1> HIDE DEF a, b, c, d
<1>6. IsSeq(a \o b) /\ SyncsIn(a \o b) = <<>>
  <2>1. SyncsIn(a \o b) = SyncsIn(a) \o SyncsIn(b) /\ IsSeq(a \o b)
    BY <1>2, <1>5, SyncsCat, CatSeq
  <2> QED
    BY <1>2, <1>5, <2>1, EmptyIsSeq, CatEmpty
<1>7. IsSeq((a \o b) \o c) /\ SyncsIn((a \o b) \o c) = <<>>
  <2> DEFINE ab == a \o b
  <2>0. IsSeq(ab) /\ SyncsIn(ab) = <<>>
    BY <1>6
  <2> HIDE DEF ab
  <2>1. SyncsIn(ab \o c) = SyncsIn(ab) \o SyncsIn(c) /\ IsSeq(ab \o c)
    BY <1>3, <2>0, SyncsCat, CatSeq
  <2>2. IsSeq(ab \o c) /\ SyncsIn(ab \o c) = <<>>
    BY <1>3, <2>0, <2>1, EmptyIsSeq, CatEmpty
  <2> QED
    BY <2>2 DEF ab
<1>8. IsSeq(((a \o b) \o c) \o d) /\ SyncsIn(((a \o b) \o c) \o d) = d
  <2> DEFINE abc == (a \o b) \o c
  <2>0. IsSeq(abc) /\ SyncsIn(abc) = <<>>
    BY <1>7
  <2> HIDE DEF abc
  <2>1. SyncsIn(abc \o d) = SyncsIn(abc) \o SyncsIn(d) /\ IsSeq(abc \o d)
    BY <1>4, <2>0, SyncsCat, CatSeq
  <2>2. IsSeq(abc \o d) /\ SyncsIn(abc \o d) = d
    BY <1>4, <2>0, <2>1, CatEmpty
  <2> QED
    BY <2>2 DEF abc
<1> QED
  BY <1>1, <1>8 DEF d

(* Every node goes through the synchronisations of the root: its segments   *)
(* are as many and synchronise the same (llm.cpp:225-434).                   *)
LEMMA SameSyncs ==
  ASSUME NEW m \in Models, NEW n
  PROVE  SyncSteps(m, n) = SyncSteps(m, 0)
<1> DEFINE L == m.nLayers
           N == 2 * L + 2
           of(s) == SegmentSync(m, s.syncs, s.nSyncs)
           segs(k) == NodeConfig(m, k).segments
           syncs(k) == [i \in 1 .. N |-> of(segs(k)[i])]
<1>1. L \in Nat /\ N \in Nat
  BY ModelFacts
<1>2. ASSUME NEW k
      PROVE  /\ SegmentsAre(m, k, segs(k)) /\ NodeConfig(m, k).nSegments = N /\ Len(segs(k)) = N
             /\ \A i \in 1 .. N : segs(k)[i].nOps \in Nat
  <2>1. segs(k) = Segments(m, k) /\ NodeConfig(m, k).nSegments = Len(Segments(m, k))
    BY DEF NodeConfig
  <2>2. SegmentsAre(m, k, segs(k))
    BY <1>1, <2>1, SegmentNumbers
  <2>3. Len(segs(k)) = N
    BY <2>2 DEF SegmentsAre
  <2>4. \A i \in 1 .. Len(segs(k)) : IsSegment(segs(k)[i])
    BY <1>1, ConfigsShape DEF ConfigShape
  <2>5. ASSUME NEW i \in 1 .. N PROVE segs(k)[i].nOps \in Nat
    <3>1. IsSegment(segs(k)[i])
      BY <2>3, <2>4
    <3> DEFINE s == segs(k)[i]
    <3> HIDE DEF s
    <3>2. IsSeq(s.ops) /\ s.nOps = Len(s.ops)
      BY <3>1 DEF IsSegment, s
    <3> QED
      BY <3>2, SeqShape DEF s
  <2> QED
    BY <2>1, <2>2, <2>3, <2>5
<1>3. ASSUME NEW k
      PROVE  SyncSteps(m, k) = FlattenSeq(syncs(k))
  <2> DEFINE t == [i \in 1 .. N |-> StepsOf(m, segs(k)[i])]
  <2>1. Steps(m, NodeConfig(m, k)) = FlattenSeq(t)
    BY <1>2 DEF Steps
  <2>2. \A i \in 1 .. N : IsSeq(StepsOf(m, segs(k)[i])) /\ SyncsIn(StepsOf(m, segs(k)[i])) = of(segs(k)[i])
    BY <1>2, SegmentSyncs
  <2>3. AreSeqs(t) /\ Len(t) = N
    <3>1. t = [i \in 1 .. N |-> t[i]] /\ \A i \in 1 .. N : IsSeq(t[i])
      BY <2>2
    <3> HIDE DEF t, N
    <3> QED
      BY <1>1, <3>1, TableIsSeq
  <2>4. \A i \in 1 .. N : SyncsIn(t[i]) = of(segs(k)[i])
    BY <2>2
  <2> HIDE DEF t
  <2>5. SyncsIn(FlattenSeq(t)) = FlattenSeq([i \in 1 .. N |-> SyncsIn(t[i])])
    BY <2>3, SyncsFlat
  <2>6. [i \in 1 .. N |-> SyncsIn(t[i])] = syncs(k)
    <3> HIDE DEF of, segs
    <3> QED
      BY <2>4
  <2> HIDE DEF syncs
  <2> QED
    BY <2>1, <2>5, <2>6 DEF SyncSteps, SyncsIn
<1>4. ASSUME NEW i \in 1 .. N PROVE of(segs(n)[i]) = of(segs(0)[i])
  <2>1. \A ops, caches, other, pipe, type :
          of(Segment(ops, Sync(m, pipe, type), caches)) = of(Segment(other, Sync(m, pipe, type), caches))
    BY DEF Segment
  <2>2. of(Start(m, n)) = of(Start(m, 0))
    BY <2>1 DEF Start
  <2>3. \A l : of(AttSegment(m, n, l)) = of(AttSegment(m, 0, l))
    BY <2>1 DEF AttSegment
  <2>4. SegmentsAre(m, n, segs(n)) /\ SegmentsAre(m, 0, segs(0))
    BY <1>2
  <2> DEFINE a == segs(n)
             b == segs(0)
  <2> HIDE DEF of, a, b
  <2>5. SegmentsAre(m, n, a) /\ SegmentsAre(m, 0, b)
    BY <2>4 DEF a, b
  <2>6. \/ i = 1
        \/ i = 2 * L + 2
        \/ \E l \in 1 .. L : i = 2 * l
        \/ \E l \in 1 .. L : i = 2 * l + 1
    <3>1. i \in Nat /\ 1 <= i /\ i <= 2 * L + 2
      BY <1>1
    <3>2. \E l \in Nat : i = 2 * l \/ i = 2 * l + 1
      <4>1. i \div 2 \in Nat /\ (i = 2 * (i \div 2) \/ i = 2 * (i \div 2) + 1)
        BY <3>1, Z3
      <4> QED
        BY <4>1
    <3>3. PICK l \in Nat : i = 2 * l \/ i = 2 * l + 1
      BY <3>2
    <3>4. l = 0 \/ l \in 1 .. L \/ l = L + 1
      BY <1>1, <3>1, <3>3
    <3> QED
      BY <1>1, <3>1, <3>3, <3>4
  <2>7. a[i] = b[i] \/ (i = 1 /\ a[i] = Start(m, n) /\ b[i] = Start(m, 0))
        \/ \E l \in 1 .. L : a[i] = AttSegment(m, n, l - 1) /\ b[i] = AttSegment(m, 0, l - 1)
    BY <2>5, <2>6 DEF SegmentsAre
  <2>8. of(a[i]) = of(b[i])
    BY <2>2, <2>3, <2>7
  <2> QED
    BY <2>8 DEF a, b
<1>5. syncs(n) = syncs(0)
  <2> HIDE DEF of, segs
  <2> QED
    BY <1>4
<1> HIDE DEF syncs
<1> QED
  BY <1>3, <1>5

(* When the root begins the first forward pass, every worker has loaded all *)
(* its weights (nn-network.cpp:787-792, app.cpp:297-300), and its executor   *)
(* goes through the same synchronisations as the root's                     *)
(* (nn-executor.cpp:58-90).                                                 *)
THEOREM RootBeginsLast == TransferSpec => []RootIsLast
<1>1. ASSUME TransferInv, status[0] = "ready"
      PROVE  (\A w \in Workers : status[w] = "ready") /\ SyncsAgree[model]
  <2>1. model \in Models
    BY <1>1 DEF TransferInv, Shapes
  <2>2. \A n \in Nodes(model) : SyncSteps(model, n) = SyncSteps(model, 0)
    BY <2>1, SameSyncs
  <2>3. SyncsAgree[model]
    BY <2>1, <2>2 DEF SyncsAgree
  <2> QED
    BY <1>1, <2>3, WorkersAreReady
<1>2. TransferInv => RootIsLast
  BY <1>1 DEF RootIsLast
<1> QED
  BY <1>2, TransferInductive, PTL

(* The same for a number and for a name.                                    *)
LEMMA WeightNumbers ==
  ASSUME NEW m \in Models
  PROVE  /\ \A k \in 1 .. LastWeight(m) :
              \/ \E l \in 0 .. (m.nLayers - 1), name \in LayerNames : Weights(m)[k] = WeightOf(m, name, l)
              \/ \E name \in OnceNames : Weights(m)[k] = WeightOf(m, name, 0)
         /\ \A l \in 0 .. (m.nLayers - 1), name \in LayerNames :
              \E k \in 1 .. LastWeight(m) : Weights(m)[k] = WeightOf(m, name, l)
         /\ \A name \in OnceNames :
              \E k \in 1 .. LastWeight(m) : Weights(m)[k] = WeightOf(m, name, 0)
<1>1. m.nLayers \in Nat
  BY ModelFacts
<1>2. \A x : x \in Elems(Weights(m)) <=> \E k \in 1 .. LastWeight(m) : Weights(m)[k] = x
  BY DEF Elems, LastWeight
<1>3. \A x : x \in Elems(Weights(m)) <=>
               \/ \E l \in 0 .. (m.nLayers - 1) : x \in LayerSet(m, l)
               \/ x \in {WeightOf(m, name, 0) : name \in OnceNames}
  BY <1>1, WeightsAre
<1>4. \A x : x \in Elems(Weights(m)) <=>
               \/ \E l \in 0 .. (m.nLayers - 1), name \in LayerNames : x = WeightOf(m, name, l)
               \/ \E name \in OnceNames : x = WeightOf(m, name, 0)
  BY <1>3 DEF LayerSet
<1> QED
  BY <1>2, <1>4

(* What the checks of runInferenceApp and the slicers leave (app.cpp,        *)
(* nn-core.cpp:207-231, 270-303)                                            *)
LEMMA ModelSizes ==
  ASSUME NEW m \in Models
  PROVE  LET b == getBlockSize(m.weightType)
             k == m.nNodes
         IN  /\ k \in Nat \ {0} /\ b \in Nat \ {0}
             /\ m.dim \in Nat \ {0} /\ m.hiddenDim \in Nat \ {0} /\ m.vocabSize \in Nat \ {0}
             /\ m.nHeads \in Nat \ {0} /\ m.nKvHeads \in Nat \ {0}
             /\ KvDim(m) \in Nat \ {0} /\ KvDim(m) <= m.dim
             /\ \A d \in {m.dim, KvDim(m), m.hiddenDim, m.vocabSize} : d % k = 0
             /\ m.dim % b = 0 /\ (m.dim \div k) % b = 0 /\ (m.hiddenDim \div k) % b = 0
<1>1. IsModel(m) /\ Accepted(m)
  BY TransferAssumption
<1>2. /\ m.nNodes \in Nat \ {0} /\ m.dim \in Nat \ {0} /\ m.hiddenDim \in Nat \ {0}
      /\ m.vocabSize \in Nat \ {0} /\ m.nHeads \in Nat \ {0} /\ m.nKvHeads \in Nat \ {0}
      /\ m.nHeads <= m.dim
  BY <1>1 DEF IsModel
<1>3. /\ m.dim >= KvDim(m)
      /\ \A d \in {m.dim, KvDim(m), m.nHeads, m.hiddenDim, m.vocabSize} : d % m.nNodes = 0
      /\ \A n \in {m.dim, m.dim \div m.nNodes, m.hiddenDim \div m.nNodes} :
           n % getBlockSize(m.weightType) = 0
  BY <1>1 DEF Accepted, Divides
<1>4. getBlockSize(m.weightType) \in Nat \ {0}
  BY BlockSizePositive
<1>5. KvDim(m) \in Nat \ {0}
  <2> DEFINE d == m.dim
             h == m.nHeads
             v == m.nKvHeads
  <2>1. d \in Nat \ {0} /\ h \in Nat \ {0} /\ v \in Nat \ {0} /\ h <= d
    BY <1>2
  <2>2. KvDim(m) = (d * v) \div h
    BY DEF KvDim
  <2> HIDE DEF d, h, v
  <2>3. d * v \in Nat /\ h <= d * v
    BY <2>1, SMT
  <2> DEFINE x == d * v
  <2>4. x \in Nat /\ h <= x /\ KvDim(m) = x \div h
    BY <2>2, <2>3
  <2> HIDE DEF x
  <2>5. x \div h \in Nat \ {0}
    BY <2>1, <2>4, SMT
  <2> QED
    BY <2>4, <2>5
<1>6. KvDim(m) <= m.dim
  BY <1>2, <1>3, <1>5
<1> QED
  BY <1>2, <1>3, <1>4, <1>5, <1>6

(* Each matrix is divided exactly among the nodes (nn-core.cpp:207-231,      *)
(* 270-303).                                                                *)
LEMMA WeightsPartition ==
  ASSUME NEW m \in Models, NEW name \in LayerNames \cup OnceNames, SliceOf(m, name).how \in {"row", "col"}
  PROVE  Partitioned(m, SliceOf(m, name))
<1>1. /\ m.nNodes \in Nat \ {0}
      /\ m.dim \in Nat \ {0} /\ m.hiddenDim \in Nat \ {0} /\ m.vocabSize \in Nat \ {0}
      /\ KvDim(m) \in Nat \ {0}
      /\ \A d \in {m.dim, KvDim(m), m.hiddenDim, m.vocabSize} : d % m.nNodes = 0
      /\ m.dim % getBlockSize(m.weightType) = 0
      /\ (m.dim \div m.nNodes) % getBlockSize(m.weightType) = 0
      /\ (m.hiddenDim \div m.nNodes) % getBlockSize(m.weightType) = 0
  BY ModelSizes
<1>2. /\ Partitioned(m, sliceRowMatmul(m, m.dim, m.dim))
      /\ Partitioned(m, sliceRowMatmul(m, m.dim, KvDim(m)))
      /\ Partitioned(m, sliceRowMatmul(m, m.dim, m.hiddenDim))
      /\ Partitioned(m, sliceRowMatmul(m, m.dim, m.vocabSize))
  BY <1>1, RowSlicesPartition
<1>3. /\ Partitioned(m, sliceColMatmul(m, m.dim, m.dim))
      /\ Partitioned(m, sliceColMatmul(m, m.hiddenDim, m.dim))
  BY <1>1, ColSlicesPartition
<1>4. \A x \in {Slice(m).q, Slice(m).k, Slice(m).v, Slice(m).wo, Slice(m).w1, Slice(m).w2, Slice(m).w3,
                Slice(m).wcls} : Partitioned(m, x)
  BY <1>2, <1>3 DEF Slice
<1>5. SliceOf(m, name).how \in {"root", "all"} \/
        SliceOf(m, name) \in {Slice(m).q, Slice(m).k, Slice(m).v, Slice(m).wo, Slice(m).w1, Slice(m).w2,
                              Slice(m).w3, Slice(m).wcls}
  BY DEF SliceOf, LayerNames, OnceNames, Whole
<1> QED
  BY <1>4, <1>5

(* The code does not check that the KV heads divide evenly, and neither that *)
(* the heads do among them: it only compares numbers (app.cpp).              *)
HeadsDivide ==
  \A m \in Models : m.nKvHeads % m.nNodes = 0 /\ m.nHeads % m.nKvHeads = 0 /\ m.dim % m.nHeads = 0

(* PartsMakeTheModel in every behaviour whose models have heads that divide  *)
(* evenly: the parts of the nodes make up each matrix, each head finds its   *)
(* keys and each rotation its angle (nn-core.cpp:198-303,                    *)
(* nn-cpu-ops.cpp:755-762, 1097-1109).                                       *)
THEOREM PartsMakeModels ==
  ASSUME HeadsDivide
  PROVE  TransferSpec => []PartsMakeTheModel
<1>1. ASSUME NEW m \in Models PROVE WellDivided[m]
  <2>1. DOMAIN WeightTable[m] = 1 .. LastWeight(m) /\ WeightTable[m] = Weights(m)
    BY ModelFacts, WeightsShape, SeqShape DEF WeightTable, LastWeight
  <2>2. ASSUME NEW k \in 1 .. LastWeight(m), Weights(m)[k].slice.how \in {"row", "col"}
        PROVE  Partitioned(m, Weights(m)[k].slice)
    <3>1. \/ \E l \in 0 .. (m.nLayers - 1), name \in LayerNames : Weights(m)[k] = WeightOf(m, name, l)
          \/ \E name \in OnceNames : Weights(m)[k] = WeightOf(m, name, 0)
      BY WeightNumbers
    <3>2. PICK name \in LayerNames \cup OnceNames : Weights(m)[k].slice = SliceOf(m, name)
      BY <3>1, WeightOfFields
    <3> QED
      BY <2>2, <3>2, WeightsPartition
  <2>3. HeadsFindKeys(m)
    BY ModelSizes, HeadsFindTheirKeys DEF HeadsDivide
  <2>4. RopeCovers(m)
    BY ModelSizes, RopeCacheCovers
  <2> QED
    BY <2>1, <2>2, <2>3, <2>4 DEF WellDivided
<1>2. TransferInv => PartsMakeTheModel
  BY <1>1 DEF TransferInv, Shapes, PartsMakeTheModel
<1> QED
  BY <1>2, TransferInductive, PTL

-----------------------------------------------------------------------------
(* Every weight finds its operation                                         *)

(* Every weight that a node is given has data, other operations have none   *)
(* (nn-core.cpp:207-231, llm.cpp:456-492).                                   *)
LEMMA CellsOfWeights ==
  ASSUME NEW m \in Models
  PROVE  /\ Cells(size0) = 0
         /\ \A name \in WeightNames : Cells(SliceOf(m, name).sliceSize) \in Nat \ {0}
<1> DEFINE b == getBlockSize(m.weightType)
           k == m.nNodes
<1>1. /\ k \in Nat \ {0} /\ b \in Nat \ {0}
      /\ m.dim \in Nat \ {0} /\ m.hiddenDim \in Nat \ {0} /\ m.vocabSize \in Nat \ {0}
      /\ KvDim(m) \in Nat \ {0}
      /\ \A d \in {m.dim, KvDim(m), m.hiddenDim, m.vocabSize} : d % k = 0
      /\ m.dim % b = 0 /\ (m.dim \div k) % b = 0 /\ (m.hiddenDim \div k) % b = 0
  BY ModelSizes
<1>2. \A d \in {m.dim, KvDim(m), m.hiddenDim, m.vocabSize} : d \div k \in Nat \ {0}
  BY <1>1, Exact
<1>3. Cells(size0) = 0
  <2>1. getBlockSize("F_UNK") \in Nat \ {0}
    BY BlockSizePositive
  <2>2. Cells(size0) = (0 * 0) \div getBlockSize("F_UNK")
    BY DEF Cells, size0, size2D, getBytes
  <2> DEFINE c == getBlockSize("F_UNK")
  <2> HIDE DEF c
  <2>3. c \in Nat \ {0} => (0 * 0) \div c = 0
    BY SMT
  <2> QED
    BY <2>1, <2>2, <2>3 DEF c
<1>4. ASSUME NEW y \in Nat \ {0}, NEW x \in Nat \ {0}, y % b = 0
      PROVE  Cells(size2D(m.weightType, y, x)) \in Nat \ {0}
  <2>1. Cells(size2D(m.weightType, y, x)) = (y * x) \div b
    BY DEF Cells, size2D, getBytes
  <2>0. b \in Nat \ {0} /\ x \in Nat
    BY <1>1
  <2> HIDE DEF b
  <2>2. y \div b \in Nat \ {0} /\ (y * x) \div b = (y \div b) * x
    <3>1. y \div b \in Nat \ {0} /\ \A z \in Nat : (y * z) \div b = (y \div b) * z
      BY <1>4, <2>0, Exact
    <3> QED
      BY <2>0, <3>1
  <2> DEFINE q == y \div b
  <2> HIDE DEF q
  <2>3. q \in Nat \ {0} => q * x \in Nat \ {0}
    BY SMT
  <2> QED
    BY <2>1, <2>2, <2>3 DEF q
<1>5. ASSUME NEW y \in Nat \ {0}, NEW x \in Nat \ {0}
      PROVE  Cells(size2D("F_32", y, x)) \in Nat \ {0}
  <2>1. Cells(size2D("F_32", y, x)) = (y * x) \div 1
    BY DEF Cells, size2D, getBytes, getBlockSize
  <2>2. y * x \in Nat \ {0}
    BY SMT
  <2> DEFINE z == y * x
  <2> HIDE DEF z
  <2>3. z \in Nat \ {0} => z \div 1 \in Nat \ {0}
    BY SMT
  <2> QED
    BY <2>1, <2>2, <2>3 DEF z
<1> HIDE DEF b
<1>6. \A d \in {m.dim, KvDim(m), m.hiddenDim, m.vocabSize} :
        Cells(sliceRowMatmul(m, m.dim, d).sliceSize) \in Nat \ {0}
  <2> TAKE d \in {m.dim, KvDim(m), m.hiddenDim, m.vocabSize}
  <2>1. sliceRowMatmul(m, m.dim, d).sliceSize = size2D(m.weightType, m.dim, d \div k)
    BY DEF sliceRowMatmul
  <2> HIDE DEF k
  <2>2. d \div k \in Nat \ {0}
    BY <1>2
  <2> QED
    BY <1>1, <1>4, <2>1, <2>2
<1>7. \A d \in {m.dim, m.hiddenDim} : Cells(sliceColMatmul(m, d, m.dim).sliceSize) \in Nat \ {0}
  <2> TAKE d \in {m.dim, m.hiddenDim}
  <2>1. sliceColMatmul(m, d, m.dim).sliceSize = size2D(m.weightType, d \div k, m.dim)
    BY DEF sliceColMatmul
  <2> HIDE DEF k
  <2>2. d \div k \in Nat \ {0} /\ (d \div k) % b = 0
    BY <1>1, <1>2
  <2> QED
    BY <1>1, <1>4, <2>1, <2>2
<1> HIDE DEF k
<1>8. /\ Cells(Slice(m).q.sliceSize) \in Nat \ {0} /\ Cells(Slice(m).k.sliceSize) \in Nat \ {0}
      /\ Cells(Slice(m).v.sliceSize) \in Nat \ {0} /\ Cells(Slice(m).wo.sliceSize) \in Nat \ {0}
      /\ Cells(Slice(m).w1.sliceSize) \in Nat \ {0} /\ Cells(Slice(m).w2.sliceSize) \in Nat \ {0}
      /\ Cells(Slice(m).w3.sliceSize) \in Nat \ {0} /\ Cells(Slice(m).wcls.sliceSize) \in Nat \ {0}
  BY <1>6, <1>7 DEF Slice
<1>9. /\ Cells(size2D("F_32", 1, m.dim)) \in Nat \ {0}
      /\ Cells(size2D("F_32", m.vocabSize, m.dim)) \in Nat \ {0}
  <2>1. 1 \in Nat \ {0} /\ m.dim \in Nat \ {0} /\ m.vocabSize \in Nat \ {0}
    BY <1>1
  <2>2. Cells(size2D("F_32", 1, m.dim)) \in Nat \ {0}
    BY <1>5, <2>1
  <2>3. Cells(size2D("F_32", m.vocabSize, m.dim)) \in Nat \ {0}
    BY <1>5, <2>1
  <2> QED
    BY <2>2, <2>3
<1>10. ASSUME NEW name \in WeightNames
       PROVE  SliceOf(m, name).sliceSize \in
                {Slice(m).q.sliceSize, Slice(m).k.sliceSize, Slice(m).v.sliceSize, Slice(m).wo.sliceSize,
                 Slice(m).w1.sliceSize, Slice(m).w2.sliceSize, Slice(m).w3.sliceSize, Slice(m).wcls.sliceSize,
                 size2D("F_32", 1, m.dim), size2D("F_32", m.vocabSize, m.dim)}
  BY DEF SliceOf, Whole, WeightNames, LayerNames, OnceNames
<1> QED
  BY <1>3, <1>8, <1>9, <1>10

(* The weights that a node is given are those of its operations             *)
(* (nn-network.cpp:808-863, llm.cpp:456-492).                                *)
LEMMA GivenWeights ==
  ASSUME NEW m \in Models, NEW n
  PROVE  /\ \A k \in 1 .. LastWeight(m) :
              LET weight == Weights(m)[k]
              IN  /\ weight.slice = SliceOf(m, weight.name) /\ weight.name \in WeightNames
                  /\ Given(m, n, k) => HasWeight(m, n, weight.name, weight.index)
         /\ \A name, l : HasWeight(m, n, name, l) =>
              \E k \in 1 .. LastWeight(m) :
                Given(m, n, k) /\ Weights(m)[k].name = name /\ Weights(m)[k].index = l
<1>1. \A name, l : /\ WeightOf(m, name, l).name = name /\ WeightOf(m, name, l).index = l
                   /\ WeightOf(m, name, l).slice = SliceOf(m, name)
  BY WeightOfFields
<1>2. \A name \in WeightNames : SliceOf(m, name).how = "root" <=> name = "embedding"
  BY DEF SliceOf, Whole, Slice, sliceRowMatmul, sliceColMatmul, WeightNames, LayerNames, OnceNames
<1>3. /\ OnceNames = EndNames \cup {"embedding"} /\ WeightNames = LayerNames \cup OnceNames
      /\ "embedding" \notin LayerNames \cup EndNames
      /\ StartNames(n) = IF n = 0 THEN {"embedding"} ELSE {}
  BY DEF OnceNames, EndNames, WeightNames, LayerNames, StartNames
<1>4. ASSUME NEW k \in 1 .. LastWeight(m)
      PROVE  LET weight == Weights(m)[k]
             IN  /\ weight.slice = SliceOf(m, weight.name) /\ weight.name \in WeightNames
                 /\ Given(m, n, k) => HasWeight(m, n, weight.name, weight.index)
  <2>1. \/ \E l \in 0 .. (m.nLayers - 1), name \in LayerNames : Weights(m)[k] = WeightOf(m, name, l)
        \/ \E name \in OnceNames : Weights(m)[k] = WeightOf(m, name, 0)
    BY WeightNumbers
  <2>2. CASE \E l \in 0 .. (m.nLayers - 1), name \in LayerNames : Weights(m)[k] = WeightOf(m, name, l)
    BY <1>1, <1>3, <2>2 DEF HasWeight
  <2>3. CASE \E name \in OnceNames : Weights(m)[k] = WeightOf(m, name, 0)
    <3>1. PICK name \in OnceNames : Weights(m)[k] = WeightOf(m, name, 0)
      BY <2>3
    <3>2. /\ Weights(m)[k].name = name /\ Weights(m)[k].index = 0
          /\ Weights(m)[k].slice = SliceOf(m, name)
      BY <1>1, <3>1
    <3>3. Given(m, n, k) => n = 0 \/ name # "embedding"
      BY <1>2, <1>3, <3>2 DEF Given
    <3>4. n = 0 \/ name # "embedding" => HasWeight(m, n, name, 0)
      BY <1>3 DEF HasWeight
    <3> QED
      BY <1>3, <3>2, <3>3, <3>4
  <2> QED
    BY <2>1, <2>2, <2>3
<1>5. ASSUME NEW name, NEW l, HasWeight(m, n, name, l)
      PROVE  \E k \in 1 .. LastWeight(m) :
               Given(m, n, k) /\ Weights(m)[k].name = name /\ Weights(m)[k].index = l
  <2>1. /\ \A i \in 0 .. (m.nLayers - 1), x \in LayerNames :
             \E k \in 1 .. LastWeight(m) : Weights(m)[k] = WeightOf(m, x, i)
        /\ \A x \in OnceNames :
             \E k \in 1 .. LastWeight(m) : Weights(m)[k] = WeightOf(m, x, 0)
    BY WeightNumbers
  <2>2. PICK k \in 1 .. LastWeight(m) : Weights(m)[k] = WeightOf(m, name, l)
    BY <1>3, <1>5, <2>1 DEF HasWeight
  <2>3. n = 0 \/ name # "embedding"
    BY <1>3, <1>5 DEF HasWeight
  <2>4. name \in WeightNames
    BY <1>3, <1>5 DEF HasWeight
  <2> QED
    BY <1>1, <1>2, <2>2, <2>3, <2>4 DEF Given
<1> QED
  BY <1>4, <1>5

(* What loadWeight finds of the weight k: one operation, of the size of the *)
(* weight                                                                   *)
FoundAt(m, n, k, p) ==
  LET weight == Weights(m)[k]
      op     == Configs[m][n][p]
  IN  /\ Locate(Configs[m][n], weight.name, weight.index) = {p} /\ p \in OpsOf(m, n)
      /\ op.name = weight.name /\ op.index = weight.index /\ op.weightSize = weight.slice.sliceSize

(* The operations of a node in its configuration, and in that of the root.  *)
LEMMA OpsMade ==
  ASSUME NEW m \in Models, NEW n \in Nodes(m)
  PROVE  /\ OpIds(Configs[m][n]) = OpsOf(m, n)
         /\ \A s, i : <<"ops", s, i>> \in OpsOf(m, n) <=>
              s \in 1 .. Len(Segments(m, n)) /\ i \in 1 .. Len(Segments(m, n)[s].ops)
         /\ \A p \in OpsOf(m, n) : \E s, i : p = <<"ops", s, i>>
         /\ \A s, i : <<"ops", s, i>> \in OpsOf(m, n) =>
              LET op == Segments(m, n)[s].ops[i]
                  p  == <<"ops", s, i>>
              IN  /\ Configs[m][n][p].name = op.name /\ Configs[m][n][p].index = op.index
                  /\ Configs[m][n][p].weightSize = op.weightSize
<1> DEFINE g == Configs[m][n]
           all == Segments(m, n)
<1>1. AgreesWith(m, n, g)
  BY MadeAgrees
<1> HIDE DEF g
<1>2. NodeConfig(m, n).segments = all
  BY DEF NodeConfig
<1>3. /\ OpIds(g) = OpsOf(m, n)
      /\ \A p \in OpsOf(m, n) :
           LET op == NodeConfig(m, n).segments[p[2]].ops[p[3]]
           IN  g[p].name = op.name /\ g[p].index = op.index /\ g[p].weightSize = op.weightSize
  BY <1>1, SameOps
<1>4. OpsOf(m, n) = UNION {{<<"ops", s, i>> : i \in 1 .. Len(all[s].ops)} : s \in 1 .. Len(all)}
  BY <1>2 DEF OpsOf
<1> HIDE DEF all
<1>5. \A s, i : <<"ops", s, i>> \in OpsOf(m, n) <=> s \in 1 .. Len(all) /\ i \in 1 .. Len(all[s].ops)
  BY <1>4
<1>6. \A p \in OpsOf(m, n) : \E s, i : p = <<"ops", s, i>>
  BY <1>4
<1>7. ASSUME NEW s, NEW i, <<"ops", s, i>> \in OpsOf(m, n)
      PROVE  LET op == all[s].ops[i]
                 p  == <<"ops", s, i>>
             IN  g[p].name = op.name /\ g[p].index = op.index /\ g[p].weightSize = op.weightSize
  <2> DEFINE p == <<"ops", s, i>>
  <2>1. p[2] = s /\ p[3] = i /\ p \in OpsOf(m, n)
    BY <1>7
  <2> HIDE DEF p
  <2>2. g[p].name = all[s].ops[i].name /\ g[p].index = all[s].ops[i].index
        /\ g[p].weightSize = all[s].ops[i].weightSize
    BY <1>2, <1>3, <2>1
  <2> QED
    BY <2>2 DEF p
<1> QED
  BY <1>3, <1>5, <1>6, <1>7 DEF g, all

(* loadWeight finds the one operation of a weight (nn-executor.cpp:133-147).  *)
LEMMA WeightFound ==
  ASSUME NEW m \in Models, NEW n \in Nodes(m), NEW k \in 1 .. LastWeight(m), Given(m, n, k)
  PROVE  FoundAt(m, n, k, Place(m, n, k))
<1> DEFINE g == Configs[m][n]
           all == Segments(m, n)
           weight == Weights(m)[k]
           name == weight.name
           l == weight.index
<1>1. HasWeight(m, n, name, l) /\ weight.slice = SliceOf(m, name)
  BY GivenWeights
<1>2. m.nLayers \in Nat
  BY ModelFacts
<1>3. OneOperation(m, n, name, l)
  <2> HIDE DEF name, l
  <2> QED
    BY <1>1, <1>2, OperationOfWeight
<1>31. PICK s \in 1 .. Len(all) : \E i \in 1 .. Len(all[s].ops) :
          /\ Weighs(m, all[s].ops[i], l, name)
          /\ \A t \in 1 .. Len(all) : \A j \in 1 .. Len(all[t].ops) :
               all[t].ops[j].name = name /\ all[t].ops[j].index = l => t = s /\ j = i
  BY <1>3 DEF OneOperation
<1>4. PICK i \in 1 .. Len(all[s].ops) :
          /\ Weighs(m, all[s].ops[i], l, name)
          /\ \A t \in 1 .. Len(all) : \A j \in 1 .. Len(all[t].ops) :
               all[t].ops[j].name = name /\ all[t].ops[j].index = l => t = s /\ j = i
  BY <1>31
<1>5. all[s].ops[i].name = name /\ all[s].ops[i].index = l /\ all[s].ops[i].weightSize = weight.slice.sliceSize
  BY <1>1, <1>4 DEF Weighs
<1> DEFINE p == <<"ops", s, i>>
<1>6. /\ OpIds(g) = OpsOf(m, n)
      /\ \A t, j : <<"ops", t, j>> \in OpsOf(m, n) <=> t \in 1 .. Len(all) /\ j \in 1 .. Len(all[t].ops)
      /\ \A q \in OpsOf(m, n) : \E t, j : q = <<"ops", t, j>>
      /\ \A t, j : <<"ops", t, j>> \in OpsOf(m, n) =>
           LET op == all[t].ops[j]
               q  == <<"ops", t, j>>
           IN  g[q].name = op.name /\ g[q].index = op.index /\ g[q].weightSize = op.weightSize
  BY OpsMade
<1> HIDE DEF g, all, weight, name, l
<1>7. p \in OpsOf(m, n) /\ g[p].name = name /\ g[p].index = l /\ g[p].weightSize = weight.slice.sliceSize
  BY <1>5, <1>6
<1>8. ASSUME NEW q \in OpsOf(m, n), g[q].name = name, g[q].index = l PROVE q = p
  <2>1. PICK t, j : q = <<"ops", t, j>>
    BY <1>6
  <2>2. t \in 1 .. Len(all) /\ j \in 1 .. Len(all[t].ops)
    BY <1>6, <2>1
  <2>3. all[t].ops[j].name = name /\ all[t].ops[j].index = l
    BY <1>6, <1>8, <2>1
  <2> QED
    BY <1>4, <2>1, <2>2, <2>3
<1>9. Locate(g, name, l) = {p}
  BY <1>6, <1>7, <1>8 DEF Locate
<1>10. p[2] = s /\ p[3] = i /\ i \in Int
  OBVIOUS
<1>11. First({p}) = p
  <2> HIDE DEF p
  <2>1. \A q \in {p} : p[2] < q[2] \/ (p[2] = q[2] /\ p[3] <= q[3])
    BY <1>10
  <2> QED
    BY <2>1 DEF First
<1>12. Place(m, n, k) = p
  BY <1>9, <1>11 DEF Place, g, weight, name, l
<1> HIDE DEF p
<1> QED
  BY <1>7, <1>9, <1>12 DEF FoundAt, g, weight, name, l

(* No other operation has weights (llm.cpp:217-434).                         *)
LEMMA OnlyWeighted ==
  ASSUME NEW m \in Models, NEW n \in Nodes(m)
  PROVE  WeightedOps(Configs[m][n]) = {Place(m, n, k) : k \in {j \in 1 .. LastWeight(m) : Given(m, n, j)}}
<1> DEFINE g == Configs[m][n]
           all == Segments(m, n)
<1>1. m.nLayers \in Nat
  BY ModelFacts
<1>2. /\ OpIds(g) = OpsOf(m, n)
      /\ \A t, j : <<"ops", t, j>> \in OpsOf(m, n) <=> t \in 1 .. Len(all) /\ j \in 1 .. Len(all[t].ops)
      /\ \A q \in OpsOf(m, n) : \E t, j : q = <<"ops", t, j>>
      /\ \A t, j : <<"ops", t, j>> \in OpsOf(m, n) =>
           LET op == all[t].ops[j]
               q  == <<"ops", t, j>>
           IN  g[q].name = op.name /\ g[q].index = op.index /\ g[q].weightSize = op.weightSize
  BY OpsMade
<1>3. \A k \in 1 .. LastWeight(m) :
        LET weight == Weights(m)[k]
        IN  weight.slice = SliceOf(m, weight.name) /\ weight.name \in WeightNames
  BY GivenWeights
<1>4. Cells(size0) = 0 /\ \A name \in WeightNames : Cells(SliceOf(m, name).sliceSize) \in Nat \ {0}
  BY CellsOfWeights
<1> HIDE DEF g
<1>5. ASSUME NEW k \in 1 .. LastWeight(m), Given(m, n, k)
      PROVE  Place(m, n, k) \in WeightedOps(g)
  <2>1. Place(m, n, k) \in OpsOf(m, n) /\ g[Place(m, n, k)].weightSize = Weights(m)[k].slice.sliceSize
    BY <1>5, WeightFound DEF FoundAt, g
  <2>2. Cells(Weights(m)[k].slice.sliceSize) > 0
    BY <1>3, <1>4
  <2> QED
    BY <1>2, <2>1, <2>2 DEF WeightedOps
<1>6. ASSUME NEW p \in WeightedOps(g)
      PROVE  \E k \in 1 .. LastWeight(m) : Given(m, n, k) /\ p = Place(m, n, k)
  <2>1. p \in OpsOf(m, n) /\ Cells(g[p].weightSize) > 0
    BY <1>2 DEF WeightedOps
  <2>2. PICK s, i : p = <<"ops", s, i>>
    BY <1>2, <2>1
  <2>3. s \in 1 .. Len(all) /\ i \in 1 .. Len(all[s].ops)
    BY <1>2, <2>1, <2>2
  <2> DEFINE op == all[s].ops[i]
  <2>4. g[p].name = op.name /\ g[p].index = op.index /\ g[p].weightSize = op.weightSize
    BY <1>2, <2>1, <2>2
  <2>5. \/ op.weightSize = size0
        \/ \E name : Weighs(m, op, op.index, name) /\ HasWeight(m, n, name, op.index)
    BY <1>1, <2>3, WeightOfOperation
  <2> HIDE DEF op
  <2>6. op.weightSize # size0
    BY <1>4, <2>1, <2>4
  <2>7. PICK name : Weighs(m, op, op.index, name) /\ HasWeight(m, n, name, op.index)
    BY <2>5, <2>6
  <2>8. PICK k \in 1 .. LastWeight(m) :
          Given(m, n, k) /\ Weights(m)[k].name = name /\ Weights(m)[k].index = op.index
    BY <2>7, GivenWeights
  <2>9. p \in Locate(g, Weights(m)[k].name, Weights(m)[k].index)
    BY <1>2, <2>1, <2>4, <2>7, <2>8 DEF Locate, Weighs
  <2>10. Locate(g, Weights(m)[k].name, Weights(m)[k].index) = {Place(m, n, k)}
    BY <2>8, WeightFound DEF FoundAt, g
  <2> QED
    BY <2>8, <2>9, <2>10
<1> QED
  BY <1>5, <1>6 DEF g

-----------------------------------------------------------------------------
(* The weights of a node that is ready                                      *)

(* When all the weights of a node are placed, its operations have them      *)
(* (nn-network.cpp:808-863, nn-executor.cpp:133-147).                        *)
LEMMA AllPlaced ==
  ASSUME NEW m \in Models, NEW n \in Nodes(m), NEW ld, Placed(m, n, ld, LastWeight(m))
  PROVE  /\ DOMAIN ld = WeightedOps(Configs[m][n])
         /\ \A p \in DOMAIN ld :
              LET weight == Weights(m)[ld[p].weight]
                  op     == Configs[m][n][p]
              IN  ld[p].node = n /\ weight.name = op.name /\ weight.index = op.index
<1> DEFINE given == {j \in 1 .. LastWeight(m) : Given(m, n, j)}
<1>1. WeightedOps(Configs[m][n]) = {Place(m, n, k) : k \in given}
  BY OnlyWeighted
<1>2. \A p \in DOMAIN ld : ld[p].weight \in given /\ ld[p].node = n /\ p = Place(m, n, ld[p].weight)
  BY DEF Placed
<1>3. \A k \in given : Place(m, n, k) \in DOMAIN ld
  BY DEF Placed
<1>4. ASSUME NEW p \in DOMAIN ld
      PROVE  /\ Weights(m)[ld[p].weight].name = Configs[m][n][p].name
             /\ Weights(m)[ld[p].weight].index = Configs[m][n][p].index
  <2>1. PICK k \in given : k = ld[p].weight
    BY <1>2
  <2>2. FoundAt(m, n, k, Place(m, n, k)) /\ p = Place(m, n, k)
    BY <1>2, <2>1, WeightFound
  <2> QED
    BY <2>1, <2>2 DEF FoundAt
<1> HIDE DEF given
<1>5. DOMAIN ld = {Place(m, n, k) : k \in given}
  BY <1>2, <1>3
<1> QED
  BY <1>1, <1>2, <1>4, <1>5

(* A worker that is ready has been given all its weights, and the root has   *)
(* loaded all its own (nn-network.cpp:787-863, app.cpp:297-300, 343-347).    *)
LEMMA ReadyPlaced ==
  ASSUME TransferInv, NEW n \in 0 .. (model.nNodes - 1), status[n] = "ready"
  PROVE  Placed(model, n, loaded[n], LastWeight(model))
<1>1. model \in Models /\ RootInv /\ \A u \in Workers : WorkerInv(u)
  BY DEF TransferInv, Shapes
<1>2. CASE n = 0
  <2> DEFINE L == LastWeight(model)
  <2>1. rootPc = Len(Programs[model])
    BY <1>1, <1>2 DEF RootInv
  <2>2. PICK k \in 0 .. L : /\ PartOf(0, RestOf(Programs[model], rootPc)) = OwnAfter(model, k)
                            /\ Placed(model, 0, loaded[0], k)
    BY <1>1 DEF RootInv
  <2>3. RestOf(Programs[model], rootPc) = <<>>
    BY <1>1, <2>1, ProgramInstrs, RestStep DEF Instrs
  <2>4. OwnAfter(model, k) = <<>>
    BY <2>2, <2>3, EmptyIsSeq, PartCat
  <2>5. model.nLayers \in Nat /\ L \in Nat \ {0, 1}
    BY <1>1, ModelFacts, WeightsShape DEF LastWeight
  <2>6. k = L
    <3>1. SUFFICES ASSUME k # L PROVE FALSE
      OBVIOUS
    <3>2. k \in 0 .. (L - 1) /\ k + 1 \in 0 .. L
      BY <2>5, <3>1
    <3>3. OwnAfter(model, k) = LoadOwn(k + 1) \o OwnAfter(model, k + 1) /\ IsSeq(OwnAfter(model, k + 1))
      BY <2>5, <3>2, OwnStep DEF LastWeight
    <3> DEFINE y == [do |-> "load", node |-> 0, weight |-> k + 1]
               s == OwnAfter(model, k + 1)
    <3>4. LoadOwn(k + 1) = <<y>>
      BY DEF LoadOwn
    <3> HIDE DEF y, s
    <3>5. <<y>> \o s # <<>>
      BY <3>3, ConsHead DEF s
    <3> QED
      BY <2>4, <3>3, <3>4, <3>5 DEF s
  <2> QED
    BY <1>2, <2>2, <2>6
<1>3. CASE n # 0
  <2>1. n \in Workers
    BY <1>1, <1>3, NodeFacts DEF Workers
  <2>2. want[n] = <<>> /\ Consistent(model, n, View(n))
    BY <1>1, <2>1 DEF WorkerInv
  <2>3. View(n).want = want[n] /\ View(n).loaded = loaded[n]
    BY DEF View
  <2>4. Finished(model, n, View(n))
    BY <1>1, <2>2, <2>3, WantsNothing
  <2> QED
    BY <2>3, <2>4 DEF Finished
<1> QED
  BY <1>2, <1>3

(* A node that is ready has for each of its operations the node's own part   *)
(* of the weight of that name and layer (nn-network.cpp:808-863,             *)
(* nn-executor.cpp:133-147), and nothing else has been given weights.        *)
THEOREM WeightsArePlaced == TransferSpec => []WeightsInPlace
<1>1. ASSUME TransferInv, NEW n \in 0 .. (model.nNodes - 1), status[n] = "ready"
      PROVE  /\ DOMAIN loaded[n] = WeightedOps(Configs[model][n])
             /\ \A p \in DOMAIN loaded[n] :
                  LET weight == WeightTable[model][loaded[n][p].weight]
                      op     == Configs[model][n][p]
                  IN  loaded[n][p].node = n /\ weight.name = op.name /\ weight.index = op.index
  <2>1. model \in Models
    BY <1>1 DEF TransferInv, Shapes
  <2>2. n \in Nodes(model) /\ WeightTable[model] = Weights(model)
    BY <2>1, NodeFacts DEF WeightTable
  <2>3. Placed(model, n, loaded[n], LastWeight(model))
    BY <1>1, ReadyPlaced
  <2> QED
    BY <2>1, <2>2, <2>3, AllPlaced
<1>2. TransferInv => WeightsInPlace
  BY <1>1 DEF WeightsInPlace
<1> QED
  BY <1>2, TransferInductive, PTL

-----------------------------------------------------------------------------
(* Nothing is rejected                                                      *)

(* A weight of a node can be loaded where its configuration is.             *)
LEMMA GivenLoadable ==
  ASSUME NEW m \in Models, NEW n \in Nodes(m), NEW k \in 1 .. LastWeight(m), Given(m, n, k)
  PROVE  LET weight == Weights(m)[k]
         IN  /\ Loadable(Configs[m][n], weight.name, weight.index, Cells(weight.slice.sliceSize))
             /\ \A g : AgreesWith(m, n, g) =>
                  Loadable(g, weight.name, weight.index, Cells(weight.slice.sliceSize))
<1> DEFINE weight == Weights(m)[k]
           p      == Place(m, n, k)
           config == Configs[m][n]
<1>1. /\ Locate(config, weight.name, weight.index) = {p}
      /\ config[p].weightSize = weight.slice.sliceSize
      /\ First(Locate(config, weight.name, weight.index)) = p
  BY WeightFound DEF FoundAt, Place
<1>2. Loadable(config, weight.name, weight.index, Cells(weight.slice.sliceSize))
  BY <1>1 DEF Loadable
<1>3. ASSUME NEW g, AgreesWith(m, n, g)
      PROVE  Loadable(g, weight.name, weight.index, Cells(weight.slice.sliceSize))
  <2>1. /\ Locate(g, weight.name, weight.index) = Locate(config, weight.name, weight.index)
        /\ \A q \in Locate(g, weight.name, weight.index) : g[q].weightSize = config[q].weightSize
    BY <1>3, SamePlace
  <2> HIDE DEF weight, p, config
  <2> QED
    BY <1>1, <2>1 DEF Loadable
<1> QED
  BY <1>2, <1>3

(* A worker that is going to load has read a weight of its own, whole.       *)
LEMMA LoadsWhole ==
  ASSUME NEW m \in Models, NEW w, NEW v, NEW k \in 2 .. LastWeight(m), InWeight(m, w, v, k),
         Head(v.want).do = "load"
  PROVE  Holds(m, w, v.got, k, {"bytes", "name", "index", "nBytes", "data"})
<1>1. PICK stage \in 1 .. 8 : AtStage(m, w, v, k, stage)
  BY Stages
<1> DEFINE x == StageItem(m, w, k, stage)
           R == StageRest(stage)
<1>2. v.want = <<x>> \o R /\ Holds(m, w, v.got, k, StageFields(stage))
  BY <1>1 DEF AtStage, ReadingWeight
<1>3. IsSeq(R)
  BY StageKinds
<1>4. Head(v.want) = x
  <2> HIDE DEF x, R
  <2> QED
    BY <1>2, <1>3, ConsHead
<1>5. stage = 8
  BY <1>4, StageKinds
<1> QED
  BY <1>2, <1>5, StageRests

(* The weight that a worker is going to load is for one of its operations,  *)
(* of the size that this has (nn-executor.cpp:133-147, nn-cpu.cpp:261).      *)
LEMMA WorkerMayLoad ==
  ASSUME TransferInv, NEW w \in Workers, Running(w), Item(w).do = "load"
  PROVE  LET weight == got[w][Locals]
         IN  Loadable(got[w], weight.name, weight.index, weight.nBytes)
<1>1. /\ model \in Models /\ w \in Nodes(model) /\ w # 0 /\ Consistent(model, w, View(w)) /\ want[w] # <<>>
      /\ View(w).want = want[w] /\ View(w).got = got[w]
  BY AtWork
<1>2. Head(View(w).want).do = "load" /\ View(w).want # <<>>
  BY <1>1 DEF Item
<1>3. HasConfig(model, w, got[w]) /\ \E k \in 2 .. LastWeight(model) : InWeight(model, w, View(w), k)
  BY <1>1, <1>2, LoadsWeight
<1>4. PICK k \in 2 .. LastWeight(model) : InWeight(model, w, View(w), k)
  BY <1>3
<1>5. Holds(model, w, got[w], k, {"bytes", "name", "index", "nBytes", "data"})
  BY <1>1, <1>2, <1>4, LoadsWhole
<1> DEFINE weight == Weights(model)[k]
<1>6. /\ got[w][Locals].name = weight.name /\ got[w][Locals].index = weight.index
      /\ got[w][Locals].nBytes = Cells(weight.slice.sliceSize)
  BY <1>5 DEF Holds, Local
<1>7. k \in 1 .. LastWeight(model) /\ Given(model, w, k)
  BY <1>1, ModelFacts, WeightsShape DEF LastWeight, Given
<1>8. AgreesWith(model, w, got[w])
  BY <1>3, ReadAgrees
<1> QED
  BY <1>1, <1>6, <1>7, <1>8, GivenLoadable

(* What the root loads for itself is one of its weights                     *)
(* (nn-network.cpp:808-863).                                                 *)
LEMMA RootLoadsWeight ==
  ASSUME TransferInv, Running(0), Instruction.do = "load"
  PROVE  Instruction.weight \in 1 .. LastWeight(model)
<1> DEFINE x    == Instruction
           rest == RestOf(Programs[model], rootPc + 1)
           n    == model.nNodes - 1
           L    == LastWeight(model)
<1>1. /\ model \in Models /\ rootPc \in 0 .. Len(Programs[model]) /\ RootInv
      /\ rootPc # Len(Programs[model])
  BY DEF TransferInv, Shapes, RootInv, Running
<1>5. /\ Instr(n, x) /\ IsSeq(rest)
      /\ \A u : PartOf(u, Rest) = IF x.node = u THEN <<x>> \o PartOf(u, rest) ELSE PartOf(u, rest)
  BY <1>1, RestFirst
<1>6. x.node = 0
  <2>1. AwaitOf(x.node).do = "await" /\ \A field : WriteOf(x.node, field).do = "write"
    BY DEF AwaitOf, WriteOf
  <2> QED
    BY <1>5, <2>1 DEF Instr
<1>8. PICK k \in 0 .. L : PartOf(0, Rest) = OwnAfter(model, k)
  BY <1>1 DEF RootInv, Rest
<1>9. PartOf(0, Rest) = <<x>> \o PartOf(0, rest) /\ IsSeq(PartOf(0, rest))
  BY <1>5, <1>6, PartCat
<1>10. model.nLayers \in Nat /\ L \in Nat \ {0, 1}
  BY <1>1, ModelFacts, WeightsShape DEF LastWeight
<1> HIDE DEF x, rest, n
<1>11. k \in 0 .. (L - 1) /\ k + 1 \in 1 .. L /\ k + 1 \in 0 .. L
  <2>1. <<x>> \o PartOf(0, rest) # <<>>
    BY <1>9, ConsHead
  <2>2. k # L
    BY <1>8, <1>9, <1>10, <2>1, OwnStep DEF LastWeight
  <2> QED
    BY <1>10, <2>2
<1> DEFINE y == [do |-> "load", node |-> 0, weight |-> k + 1]
           s == PartOf(0, rest)
           t == OwnAfter(model, k + 1)
<1>12. OwnAfter(model, k) = LoadOwn(k + 1) \o t /\ IsSeq(t)
  BY <1>10, <1>11, OwnStep DEF LastWeight
<1>13. LoadOwn(k + 1) = <<y>>
  BY DEF LoadOwn
<1>14. y.weight = k + 1
  OBVIOUS
<1> HIDE DEF y, s, t
<1>15. <<x>> \o s = <<y>> \o t /\ IsSeq(s) /\ IsSeq(t)
  BY <1>8, <1>9, <1>12, <1>13 DEF s
<1>16. x = y
  <2>1. PICK a, b : a = x /\ b = y
    OBVIOUS
  <2>2. <<a>> \o s = <<b>> \o t
    BY <1>15, <2>1
  <2>3. a = b
    BY <1>15, <2>2, ConsSame
  <2> QED
    BY <2>1, <2>3
<1> QED
  BY <1>11, <1>14, <1>16 DEF x

(* Writers and readers agree on the stream: the next field on a connection   *)
(* has the size its worker asks for (nn-network.cpp:593-773, 808-909), and   *)
(* every weight finds its operation, of its size (nn-executor.cpp:133-147,   *)
(* nn-cpu.cpp:261).                                                          *)
THEOREM NothingIsRejected == TransferSpec => []NothingRejected
<1>1. ASSUME TransferInv, NEW w \in Workers, Running(w)
      PROVE  /\ Item(w).do = "read" /\ toWorker[w] # <<>> => Item(w).size = Head(toWorker[w]).size
             /\ Item(w).do = "load" =>
                  LET weight == got[w][Locals]
                  IN  Loadable(got[w], weight.name, weight.index, weight.nBytes)
  BY <1>1, ReadKeeps, WorkerMayLoad
<1>2. ASSUME TransferInv, Running(0), Instruction.do = "load"
      PROVE  LET weight == WeightTable[model][Instruction.weight]
             IN  Loadable(Configs[model][0], weight.name, weight.index, Cells(weight.slice.sliceSize))
  <2>1. model \in Models /\ 0 \in Nodes(model)
    BY <1>2, NodeFacts DEF TransferInv, Shapes
  <2>2. PICK k \in 1 .. LastWeight(model) : k = Instruction.weight
    BY <1>2, RootLoadsWeight
  <2>3. Given(model, 0, k)
    BY DEF Given
  <2>4. WeightTable[model] = Weights(model)
    BY <2>1 DEF WeightTable
  <2> QED
    BY <2>1, <2>2, <2>3, <2>4, GivenLoadable
<1>3. TransferInv => NothingRejected
  BY <1>1, <1>2 DEF NothingRejected
<1> QED
  BY <1>3, TransferInductive, PTL

=============================================================================
