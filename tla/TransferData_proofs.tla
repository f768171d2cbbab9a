-------------------------- MODULE TransferData_proofs -------------------------
(***************************************************************************)
(* Theorems about the data that the set-up handles, for models of every    *)
(* size and every number of nodes.                                         *)
(*                                                                         *)
(* Slicing: the slices that splitRowMatmulWeight and splitColMatmulWeight  *)
(* cut (src/src/nn/nn-core.cpp:270-303) divide the matrix, and the heads   *)
(* and rotary angles of a node are where the CPU operations look for them. *)
(* The row, the column and the node of a cell are the digits of its number *)
(* in a mixed base, so everything rests on the uniqueness of quotient and  *)
(* remainder.                                                              *)
(*                                                                         *)
(* LlmNet: what the configurations and lists of weights consist of.  They  *)
(* are put together by concatenating and flattening lists, so this part    *)
(* begins with lemmas about sequences of anything.                         *)
(*                                                                         *)
(* Transfer: what the root writes for a node, what the reader of a         *)
(* configuration asks for, and that the two agree, array by array.         *)
(* Nothing here depends on the state.                                      *)
(***************************************************************************)
EXTENDS Transfer, WellFoundedInduction, SequenceTheorems, TLAPS


-----------------------------------------------------------------------------
(* With k nodes, slices of d0 rows of n cells each: the slices cover the    *)
(* matrix, no cell is in two places, and none is outside                    *)

RowsOnto(k, n, d0) ==
  \A c \in 0 .. (k * d0 * n - 1) :
    \E node \in 0 .. (k - 1), o \in 0 .. (d0 * n - 1) : RowFrom(n, d0, node, o) = c

RowsOnce(k, n, d0) ==
  \A node1, node2 \in 0 .. (k - 1), o1, o2 \in 0 .. (d0 * n - 1) :
    RowFrom(n, d0, node1, o1) = RowFrom(n, d0, node2, o2) => node1 = node2 /\ o1 = o2

RowsInside(k, n, d0) ==
  \A node \in 0 .. (k - 1), o \in 0 .. (d0 * n - 1) :
    RowFrom(n, d0, node, o) \in 0 .. (k * d0 * n - 1)

(* and the same for slices of n0 columns of d rows                           *)
ColsOnto(k, n0, d) ==
  \A c \in 0 .. (n0 * k * d - 1) :
    \E node \in 0 .. (k - 1), o \in 0 .. (n0 * d - 1) : ColFrom(n0 * k, n0, node, o) = c

ColsOnce(k, n0, d) ==
  \A node1, node2 \in 0 .. (k - 1), o1, o2 \in 0 .. (n0 * d - 1) :
    ColFrom(n0 * k, n0, node1, o1) = ColFrom(n0 * k, n0, node2, o2) => node1 = node2 /\ o1 = o2

ColsInside(k, n0, d) ==
  \A node \in 0 .. (k - 1), o \in 0 .. (n0 * d - 1) :
    ColFrom(n0 * k, n0, node, o) \in 0 .. (n0 * k * d - 1)

-----------------------------------------------------------------------------
(* Integer division as the code's offsets use it: a quotient, and a         *)
(* remainder less than the divisor.                                         *)
LEMMA Division ==
  ASSUME NEW a \in Int, NEW b \in Nat \ {0}
  PROVE  /\ a \div b \in Int /\ a % b \in 0 .. (b - 1)
         /\ a = b * (a \div b) + (a % b)
  BY SMT

(* The number of rows, blocks or cells in a part is never negative.         *)
LEMMA DivNat ==
  ASSUME NEW a \in Nat, NEW b \in Nat \ {0}
  PROVE  a \div b \in Nat
  BY SMT

(* A remainder does not disturb the quotient: row and column can be read    *)
(* back from an offset in a slice (nn-core.cpp:293-299).                    *)
LEMMA QuotientUnique ==
  ASSUME NEW b \in Nat \ {0}, NEW q \in Int, NEW r \in 0 .. (b - 1)
  PROVE  (b * q + r) \div b = q /\ (b * q + r) % b = r
  BY SMT

(* An offset has one quotient and one remainder.                            *)
LEMMA UniqueParts ==
  ASSUME NEW b \in Nat \ {0}, NEW q \in Int, NEW r \in 0 .. (b - 1), 
         NEW q1 \in Int, NEW r1 \in 0 .. (b - 1), b * q + r = b * q1 + r1
  PROVE  q = q1 /\ r = r1
  BY SMT

(* Every cell of a matrix cut by rows is copied into the slice of some node *)
(* by splitRowMatmulWeight (nn-core.cpp:270-286).                           *)
LEMMA RowOnto ==
  ASSUME NEW k \in Nat \ {0}, NEW n \in Nat \ {0}, NEW d0 \in Nat \ {0}
  PROVE  RowsOnto(k, n, d0)
<1> SUFFICES ASSUME NEW c \in 0 .. (k * d0 * n - 1)
             PROVE  \E node \in 0 .. (k - 1), o \in 0 .. (d0 * n - 1) : RowFrom(n, d0, node, o) = c
  BY DEF RowsOnto
<1> DEFINE part == d0 * n
           node == c \div part
           o    == c % part
<1>1. part \in Nat \ {0} /\ c \in Nat
  BY SMT
<1>2. node \in Nat /\ o \in 0 .. (part - 1) /\ c = part * node + o
  <2> HIDE DEF part
  <2>1. c \in Nat /\ c \in Int
    BY <1>1
  <2>2. /\ node \in Int /\ o \in 0 .. (part - 1)
        /\ c = part * node + o
    BY <1>1, <2>1, Division
  <2> QED BY <1>1, <2>1, <2>2, DivNat
<1>3. k * d0 * n = part * k
  BY SMT
<1>4. node < k
  <2> SUFFICES ASSUME node >= k PROVE FALSE
    BY <1>2
  <2> HIDE DEF part, node, o
  <2>1. part * node >= part * k
    BY <1>1, <1>2, SMT
  <2> QED BY <2>1, <1>1, <1>2, <1>3, SMT
<1>5. RowFrom(n, d0, node, o) = c
  <2>1. d0 * node * n = part * node
    <3> HIDE DEF node
    <3> QED BY <1>2, SMT
  <2> QED BY <2>1, <1>2 DEF RowFrom
<1> HIDE DEF node, o
<1> QED BY <1>2, <1>4, <1>5, SMT

(* Cut by rows, no cell is copied twice (nn-core.cpp:270-286).              *)
LEMMA RowOnce ==
  ASSUME NEW k \in Nat \ {0}, NEW n \in Nat \ {0}, NEW d0 \in Nat \ {0}
  PROVE  RowsOnce(k, n, d0)
<1> SUFFICES ASSUME NEW node1 \in 0 .. (k - 1), NEW node2 \in 0 .. (k - 1),
                  NEW o1 \in 0 .. (d0 * n - 1), NEW o2 \in 0 .. (d0 * n - 1),
                  RowFrom(n, d0, node1, o1) = RowFrom(n, d0, node2, o2)
             PROVE  node1 = node2 /\ o1 = o2
  BY DEF RowsOnce
<1> DEFINE part == d0 * n
<1>1. part \in Nat \ {0}
  BY SMT
<1>2. part * node1 + o1 = part * node2 + o2
  <2>1. d0 * node1 * n = part * node1 /\ d0 * node2 * n = part * node2
    BY SMT
  <2> QED BY <2>1 DEF RowFrom
<1>3. o1 \in 0 .. (part - 1) /\ o2 \in 0 .. (part - 1)
  OBVIOUS
<1> HIDE DEF part
<1> QED BY <1>1, <1>2, <1>3, UniqueParts

(* Cut by rows, no slice reads past the matrix (nn-core.cpp:270-286).       *)
LEMMA RowInside ==
  ASSUME NEW k \in Nat \ {0}, NEW n \in Nat \ {0}, NEW d0 \in Nat \ {0}
  PROVE  RowsInside(k, n, d0)
<1> SUFFICES ASSUME NEW node \in 0 .. (k - 1), NEW o \in 0 .. (d0 * n - 1)
             PROVE  RowFrom(n, d0, node, o) \in 0 .. (k * d0 * n - 1)
  BY DEF RowsInside
<1> DEFINE part == d0 * n
<1>1. part \in Nat \ {0}
  BY SMT
<1>2. d0 * node * n = part * node /\ k * d0 * n = part * k
  BY SMT
<1> HIDE DEF part
<1>3. part * node <= part * (k - 1) /\ part * node >= 0 /\ part * (k - 1) = part * k - part
  BY <1>1, SMT
<1>4. o \in 0 .. (part - 1)
  BY DEF part
<1>5. part * node \in Int /\ part * k \in Int
  BY <1>1, SMT
<1> QED BY <1>1, <1>2, <1>3, <1>4, <1>5, SMT DEF RowFrom

(* A cell is in the first k blocks of b cells if its block is one of them.   *)
LEMMA Below ==
  ASSUME NEW b \in Nat \ {0}, NEW k \in Nat, NEW q \in Nat, NEW r \in 0 .. (b - 1)
  PROVE  /\ q < k => b * q + r \in 0 .. (b * k - 1)
         /\ b * q + r < b * k => q < k
<1>1. ASSUME q < k PROVE b * q + r \in 0 .. (b * k - 1)
  <2>1. b * q <= b * (k - 1) /\ b * (k - 1) = b * k - b /\ b * q >= 0
    BY <1>1, SMT
  <2>2. b * q \in Int /\ b * k \in Int
    BY SMT
  <2> QED BY <2>1, <2>2, SMT
<1>2. ASSUME b * q + r < b * k, q >= k PROVE FALSE
  <2>1. b * q >= b * k
    BY <1>2, SMT
  <2>2. b * q \in Int /\ b * k \in Int
    BY SMT
  <2> QED BY <1>2, <2>1, <2>2, SMT
<1> QED BY <1>1, <1>2

(* Every cell of a matrix cut by columns is copied into the slice of some   *)
(* node by splitColMatmulWeight (nn-core.cpp:288-303).                      *)
LEMMA ColOnto ==
  ASSUME NEW k \in Nat \ {0}, NEW n0 \in Nat \ {0}, NEW d \in Nat \ {0}
  PROVE  ColsOnto(k, n0, d)
<1> SUFFICES ASSUME NEW c \in 0 .. (n0 * k * d - 1)
             PROVE  \E node \in 0 .. (k - 1), o \in 0 .. (n0 * d - 1) : ColFrom(n0 * k, n0, node, o) = c
  BY DEF ColsOnto
<1> DEFINE n    == n0 * k
           row  == c \div n
           rest == c % n
           node == rest \div n0
           col  == rest % n0
<1>1. n \in Nat \ {0} /\ c \in Nat /\ c \in Int /\ n * d = n0 * k * d
  BY SMT
<1>2. row \in Nat /\ rest \in 0 .. (n - 1) /\ c = n * row + rest
  <2> HIDE DEF n
  <2>1. row \in Int /\ rest \in 0 .. (n - 1) /\ c = n * row + rest
    BY <1>1, Division
  <2> QED BY <1>1, <2>1, DivNat
<1>3. row < d
  <2> HIDE DEF row, rest, n
  <2> QED BY <1>1, <1>2, Below, c < n * d
<1>4. node \in Nat /\ col \in 0 .. (n0 - 1) /\ rest = n0 * node + col
  <2> HIDE DEF rest
  <2>1. rest \in Nat /\ rest \in Int
    BY <1>1, <1>2
  <2>2. node \in Int /\ col \in 0 .. (n0 - 1) /\ rest = n0 * node + col
    BY <2>1, Division
  <2> QED BY <2>1, <2>2, DivNat
<1>5. node < k
  <2> HIDE DEF node, col, rest
  <2>1. rest < n0 * k
    BY <1>1, <1>2 DEF n
  <2> QED BY <1>4, <2>1, Below
<1>6. n0 * row + col \in 0 .. (n0 * d - 1)
  <2> HIDE DEF row, col
  <2> QED BY <1>2, <1>3, <1>4, Below
<1>7. ColFrom(n, n0, node, n0 * row + col) = c
  <2> HIDE DEF row, col, node, rest, n
  <2>1. (n0 * row + col) \div n0 = row /\ (n0 * row + col) % n0 = col
    BY <1>2, <1>4, QuotientUnique, row \in Int
  <2>2. node * n0 = n0 * node
    BY <1>4
  <2> QED BY <1>2, <1>4, <2>1, <2>2 DEF ColFrom
<1>8. node \in 0 .. (k - 1)
  BY <1>4, <1>5
<1> HIDE DEF row, col, node
<1> QED BY <1>6, <1>7, <1>8

(* Cut by columns, no cell is copied twice (nn-core.cpp:288-303).           *)
LEMMA ColOnce ==
  ASSUME NEW k \in Nat \ {0}, NEW n0 \in Nat \ {0}, NEW d \in Nat \ {0}
  PROVE  ColsOnce(k, n0, d)
<1> SUFFICES ASSUME NEW node1 \in 0 .. (k - 1), NEW node2 \in 0 .. (k - 1),
                  NEW o1 \in 0 .. (n0 * d - 1), NEW o2 \in 0 .. (n0 * d - 1),
                  ColFrom(n0 * k, n0, node1, o1) = ColFrom(n0 * k, n0, node2, o2)
             PROVE  node1 = node2 /\ o1 = o2
  BY DEF ColsOnce
<1> DEFINE n == n0 * k
           row(o) == o \div n0
           col(o) == o % n0
<1>1. n \in Nat \ {0}
  BY SMT
<1>2. ASSUME NEW o \in 0 .. (n0 * d - 1)
      PROVE  row(o) \in Nat /\ col(o) \in 0 .. (n0 - 1) /\ o = n0 * row(o) + col(o)
  <2>1. o \in Nat /\ o \in Int
    OBVIOUS
  <2> QED BY <2>1, Division, DivNat
<1>3. ASSUME NEW node \in 0 .. (k - 1), NEW o \in 0 .. (n0 * d - 1)
      PROVE  /\ ColFrom(n, n0, node, o) = n * row(o) + (n0 * node + col(o))
             /\ n0 * node + col(o) \in 0 .. (n - 1)
  <2> HIDE DEF row, col
  <2>1. node \in Nat /\ node < k /\ n \in Nat
    BY <1>1
  <2>2. row(o) \in Nat /\ col(o) \in 0 .. (n0 - 1) /\ o = n0 * row(o) + col(o)
    BY <1>2
  <2>3. ColFrom(n, n0, node, o) = n * row(o) + (n0 * node + col(o))
    BY n0 * node = node * n0 DEF ColFrom, row, col
  <2>4. n0 * node + col(o) \in 0 .. (n0 * k - 1)
    BY <2>1, <2>2, Below
  <2> QED BY <2>2, <2>3, <2>4
<1> HIDE DEF row, col
<1>4. row(o1) = row(o2) /\ n0 * node1 + col(o1) = n0 * node2 + col(o2)
  <2>1. n * row(o1) + (n0 * node1 + col(o1)) = n * row(o2) + (n0 * node2 + col(o2))
    BY <1>3
  <2>2. /\ n0 * node1 + col(o1) \in 0 .. (n - 1) /\ n0 * node2 + col(o2) \in 0 .. (n - 1)
        /\ row(o1) \in Int /\ row(o2) \in Int
    BY <1>2, <1>3
  <2> HIDE DEF n
  <2> QED BY <1>1, <2>1, <2>2, UniqueParts
<1>5. node1 = node2 /\ col(o1) = col(o2)
  <2>1. col(o1) \in 0 .. (n0 - 1) /\ col(o2) \in 0 .. (n0 - 1) /\ node1 \in Int /\ node2 \in Int
    BY <1>2
  <2>2. \A r, r1 \in 0 .. (n0 - 1) :
          n0 * node1 + r = n0 * node2 + r1 => node1 = node2 /\ r = r1
    BY <2>1, UniqueParts
  <2> QED BY <1>4, <2>1, <2>2
<1> QED BY <1>2, <1>4, <1>5

(* Cut by columns, no slice reads past the matrix (nn-core.cpp:288-303).    *)
LEMMA ColInside ==
  ASSUME NEW k \in Nat \ {0}, NEW n0 \in Nat \ {0}, NEW d \in Nat \ {0}
  PROVE  ColsInside(k, n0, d)
<1> SUFFICES ASSUME NEW node \in 0 .. (k - 1), NEW o \in 0 .. (n0 * d - 1)
             PROVE  ColFrom(n0 * k, n0, node, o) \in 0 .. (n0 * k * d - 1)
  BY DEF ColsInside
<1> DEFINE n   == n0 * k
           row == o \div n0
           col == o % n0
<1>1. n \in Nat \ {0} /\ n * d = n0 * k * d
  BY SMT
<1>2. row \in Nat /\ col \in 0 .. (n0 - 1) /\ o = n0 * row + col
  <2>1. o \in Nat /\ o \in Int
    OBVIOUS
  <2> QED BY <2>1, Division, DivNat
<1> HIDE DEF row, col
<1>3. row < d
  BY <1>2, Below, o < n0 * d
<1>4. n0 * node + col \in 0 .. (n - 1)
  BY <1>2, Below
<1>5. n * row + (n0 * node + col) \in 0 .. (n * d - 1)
  <2> HIDE DEF n
  <2> QED BY <1>1, <1>2, <1>3, <1>4, Below
<1>6. ColFrom(n, n0, node, o) = n * row + (n0 * node + col)
  BY n0 * node = node * n0 DEF ColFrom, row, col
<1> QED BY <1>1, <1>5, <1>6

(* A block has at least one number (nn-core.cpp, getBlockSize).              *)
LEMMA BlockSizePositive ==
  ASSUME NEW type
  PROVE  getBlockSize(type) \in Nat \ {0}
  BY BlockAssumption DEF getBlockSize

(* A count that is a multiple of the divisor divides exactly, and so does    *)
(* any multiple of it: the divisions after the slicers' asserts.            *)
LEMMA Exact ==
  ASSUME NEW b \in Nat \ {0}, NEW n \in Nat \ {0}, n % b = 0
  PROVE  /\ n \div b \in Nat \ {0}
         /\ n = b * (n \div b)
         /\ \A x \in Nat : (n * x) \div b = (n \div b) * x
<1> DEFINE q == n \div b
<1>1. q \in Nat /\ n = b * q
  BY DivNat, SMT
<1>2. q # 0
  <2> HIDE DEF q
  <2> QED BY <1>1, SMT
<1>3. ASSUME NEW x \in Nat
      PROVE  (n * x) \div b = q * x
  <2>1. n * x = b * (q * x) + 0 /\ q * x \in Int /\ 0 \in 0 .. (b - 1)
    <3> HIDE DEF q
    <3> QED BY <1>1, SMT
  <2>2. (b * (q * x) + 0) \div b = q * x
    <3> HIDE DEF q
    <3>1. \A y \in Int : (b * y + 0) \div b = y
      BY <2>1, QuotientUnique
    <3> QED BY <2>1, <3>1
  <2> QED BY <2>1, <2>2
<1> QED BY <1>1, <1>2, <1>3

DividesInto(m, slice, part, whole) ==
  /\ Cells(slice.sliceSize) = part /\ Cells(slice.size) = whole
  /\ \A node \in Nodes(m), o \in 0 .. (part - 1) : Split(slice, node)[o] \in 0 .. (whole - 1)
  /\ \A c \in 0 .. (whole - 1) :
       \E node \in Nodes(m), o \in 0 .. (part - 1) : Split(slice, node)[o] = c
  /\ \A node1, node2 \in Nodes(m), o1, o2 \in 0 .. (part - 1) :
       Split(slice, node1)[o1] = Split(slice, node2)[o2] => node1 = node2 /\ o1 = o2

(* Partitioned follows from what is known of the single cells.              *)
LEMMA PartitionedIf ==
  ASSUME NEW m, NEW slice, NEW part \in Nat, NEW whole \in Nat,
         DividesInto(m, slice, part, whole)
  PROVE  Partitioned(m, slice)
<1> USE DEF DividesInto
<1> DEFINE given  == [node \in Nodes(m) |-> Split(slice, node)]
           places == Nodes(m) \X (0 .. (part - 1))
<1>1. ASSUME NEW p \in places
      PROVE  /\ p = <<p[1], p[2]>> /\ p[1] \in Nodes(m) /\ p[2] \in 0 .. (part - 1)
             /\ given[p[1]][p[2]] = Split(slice, p[1])[p[2]]
  OBVIOUS
<1>2. ASSUME NEW p \in places
      PROVE  given[p[1]][p[2]] \in 0 .. (whole - 1)
  BY <1>1
<1>3. ASSUME NEW c \in 0 .. (whole - 1)
      PROVE  \E p \in places : given[p[1]][p[2]] = c
  <2>1. PICK node \in Nodes(m), o \in 0 .. (part - 1) : Split(slice, node)[o] = c
    OBVIOUS
  <2>2. <<node, o>> \in places /\ given[<<node, o>>[1]][<<node, o>>[2]] = c
    BY <2>1
  <2> QED BY <2>2
<1>4. ASSUME NEW p \in places, NEW q \in places, given[p[1]][p[2]] = given[q[1]][q[2]]
      PROVE  p = q
  <2>1. p[1] = q[1] /\ p[2] = q[2]
    BY <1>1, <1>4
  <2> QED BY <1>1, <2>1
<1> HIDE DEF given, places
<1>5. {given[p[1]][p[2]] : p \in places} = 0 .. (whole - 1)
  BY <1>2, <1>3
<1> QED BY <1>4, <1>5 DEF Partitioned, given, places

(* The slices that splitRowMatmulWeight cuts divide a matrix of k * d0 rows *)
(* of nb cells.                                                             *)
LEMMA RowsPartition ==
  ASSUME NEW m, NEW slice, NEW k \in Nat \ {0}, NEW nb \in Nat \ {0}, NEW d0 \in Nat \ {0},
         Nodes(m) = 0 .. (k - 1),
         Cells(slice.sliceSize) = d0 * nb, Cells(slice.size) = k * d0 * nb,
         \A node : Split(slice, node) = [o \in 0 .. (d0 * nb - 1) |-> RowFrom(nb, d0, node, o)]
  PROVE  Partitioned(m, slice)
<1> DEFINE part  == d0 * nb
           whole == k * d0 * nb
<1>1. \A node \in 0 .. (k - 1), o \in 0 .. (part - 1) :
        Split(slice, node)[o] = RowFrom(nb, d0, node, o)
  OBVIOUS
<1>2. RowsInside(k, nb, d0) /\ RowsOnto(k, nb, d0) /\ RowsOnce(k, nb, d0)
  BY RowInside, RowOnto, RowOnce
<1>3. \A node \in 0 .. (k - 1), o \in 0 .. (part - 1) :
        RowFrom(nb, d0, node, o) \in 0 .. (whole - 1)
  BY <1>2, Zenon DEF RowsInside
<1>4. \A c \in 0 .. (whole - 1) : \E node \in 0 .. (k - 1), o \in 0 .. (part - 1) :
        RowFrom(nb, d0, node, o) = c
  BY <1>2, Zenon DEF RowsOnto
<1>5. \A node1, node2 \in 0 .. (k - 1), o1, o2 \in 0 .. (part - 1) :
        RowFrom(nb, d0, node1, o1) = RowFrom(nb, d0, node2, o2) => node1 = node2 /\ o1 = o2
  BY <1>2, Zenon DEF RowsOnce
<1>6. part \in Nat /\ whole \in Nat
  BY SMT
<1>7. Cells(slice.sliceSize) = part /\ Cells(slice.size) = whole
  OBVIOUS
<1> HIDE DEF part, whole
<1>8. ASSUME NEW node \in Nodes(m), NEW o \in 0 .. (part - 1)
      PROVE  Split(slice, node)[o] \in 0 .. (whole - 1)
  BY <1>1, <1>3
<1>9. ASSUME NEW c \in 0 .. (whole - 1)
      PROVE  \E node \in Nodes(m), o \in 0 .. (part - 1) : Split(slice, node)[o] = c
  <2>1. PICK node \in 0 .. (k - 1), o \in 0 .. (part - 1) : RowFrom(nb, d0, node, o) = c
    BY <1>4, Zenon
  <2>2. Split(slice, node)[o] = c /\ node \in Nodes(m)
    BY <1>1, <2>1
  <2> QED BY <2>2, Zenon
<1>10. ASSUME NEW node1 \in Nodes(m), NEW node2 \in Nodes(m),
              NEW o1 \in 0 .. (part - 1), NEW o2 \in 0 .. (part - 1),
              Split(slice, node1)[o1] = Split(slice, node2)[o2]
       PROVE  node1 = node2 /\ o1 = o2
  <2>1. node1 \in 0 .. (k - 1) /\ node2 \in 0 .. (k - 1)
    OBVIOUS
  <2>2. RowFrom(nb, d0, node1, o1) = RowFrom(nb, d0, node2, o2)
    BY <1>1, <1>10, <2>1, Zenon
  <2> QED BY <1>5, <2>1, <2>2
<1>11. DividesInto(m, slice, part, whole)
  BY <1>6, <1>7, <1>8, <1>9, <1>10, Zenon DEF DividesInto
<1> QED BY <1>6, <1>11, PartitionedIf

(* The slices that splitColMatmulWeight cuts divide a matrix of d rows of   *)
(* k * n0 cells.                                                            *)
LEMMA ColsPartition ==
  ASSUME NEW m, NEW slice, NEW k \in Nat \ {0}, NEW n0 \in Nat \ {0}, NEW d \in Nat \ {0},
         Nodes(m) = 0 .. (k - 1),
         Cells(slice.sliceSize) = n0 * d, Cells(slice.size) = n0 * k * d,
         \A node : Split(slice, node) = [o \in 0 .. (n0 * d - 1) |-> ColFrom(n0 * k, n0, node, o)]
  PROVE  Partitioned(m, slice)
<1> DEFINE part  == n0 * d
           whole == n0 * k * d
<1>1. \A node \in 0 .. (k - 1), o \in 0 .. (part - 1) :
        Split(slice, node)[o] = ColFrom(n0 * k, n0, node, o)
  OBVIOUS
<1>2. ColsInside(k, n0, d) /\ ColsOnto(k, n0, d) /\ ColsOnce(k, n0, d)
  BY ColInside, ColOnto, ColOnce
<1>3. \A node \in 0 .. (k - 1), o \in 0 .. (part - 1) :
        ColFrom(n0 * k, n0, node, o) \in 0 .. (whole - 1)
  BY <1>2, Zenon DEF ColsInside
<1>4. \A c \in 0 .. (whole - 1) : \E node \in 0 .. (k - 1), o \in 0 .. (part - 1) :
        ColFrom(n0 * k, n0, node, o) = c
  BY <1>2, Zenon DEF ColsOnto
<1>5. \A node1, node2 \in 0 .. (k - 1), o1, o2 \in 0 .. (part - 1) :
        ColFrom(n0 * k, n0, node1, o1) = ColFrom(n0 * k, n0, node2, o2) => node1 = node2 /\ o1 = o2
  BY <1>2, Zenon DEF ColsOnce
<1>6. part \in Nat /\ whole \in Nat
  BY SMT
<1>7. Cells(slice.sliceSize) = part /\ Cells(slice.size) = whole
  OBVIOUS
<1> HIDE DEF part, whole
<1>8. ASSUME NEW node \in Nodes(m), NEW o \in 0 .. (part - 1)
      PROVE  Split(slice, node)[o] \in 0 .. (whole - 1)
  BY <1>1, <1>3
<1>9. ASSUME NEW c \in 0 .. (whole - 1)
      PROVE  \E node \in Nodes(m), o \in 0 .. (part - 1) : Split(slice, node)[o] = c
  <2>1. PICK node \in 0 .. (k - 1), o \in 0 .. (part - 1) : ColFrom(n0 * k, n0, node, o) = c
    BY <1>4, Zenon
  <2>2. Split(slice, node)[o] = c /\ node \in Nodes(m)
    BY <1>1, <2>1
  <2> QED BY <2>2, Zenon
<1>10. ASSUME NEW node1 \in Nodes(m), NEW node2 \in Nodes(m),
              NEW o1 \in 0 .. (part - 1), NEW o2 \in 0 .. (part - 1),
              Split(slice, node1)[o1] = Split(slice, node2)[o2]
       PROVE  node1 = node2 /\ o1 = o2
  <2>1. node1 \in 0 .. (k - 1) /\ node2 \in 0 .. (k - 1)
    OBVIOUS
  <2>2. ColFrom(n0 * k, n0, node1, o1) = ColFrom(n0 * k, n0, node2, o2)
    BY <1>1, <1>10, <2>1, Zenon
  <2> QED BY <1>5, <2>1, <2>2
<1>11. DividesInto(m, slice, part, whole)
  BY <1>6, <1>7, <1>8, <1>9, <1>10, Zenon DEF DividesInto
<1> QED BY <1>6, <1>11, PartitionedIf

-----------------------------------------------------------------------------
(* Under the assertions of sliceRowMatmul and splitRowMatmulWeight, every   *)
(* cell of the matrix goes to exactly one place of one node                 *)
(* (nn-core.cpp:207-218, 270-286).                                          *)
THEOREM RowSlicesPartition ==
  ASSUME NEW m, m.nNodes \in Nat \ {0}, NEW n \in Nat \ {0}, NEW d \in Nat \ {0},
         d % m.nNodes = 0, n % getBlockSize(m.weightType) = 0
  PROVE  Partitioned(m, sliceRowMatmul(m, n, d))
<1> DEFINE k     == m.nNodes
           b     == getBlockSize(m.weightType)
           nb    == n \div b
           d0    == d \div k
           slice == sliceRowMatmul(m, n, d)
<1>1. b \in Nat \ {0} /\ k \in Nat \ {0}
  BY BlockSizePositive
<1>2. nb \in Nat \ {0} /\ \A x \in Nat : (n * x) \div b = nb * x
  BY <1>1, Exact
<1>3. d0 \in Nat \ {0} /\ d = k * d0
  BY <1>1, Exact
<1>4. Cells(slice.sliceSize) = d0 * nb
  <2>1. Cells(slice.sliceSize) = (n * d0) \div b
    BY DEF Cells, getBytes, size2D, sliceRowMatmul
  <2>2. nb * d0 = d0 * nb
    <3> HIDE DEF nb, d0
    <3> QED BY <1>2, <1>3
  <2> HIDE DEF nb, d0, b, slice
  <2> QED BY <1>2, <1>3, <2>1, <2>2
<1>5. Cells(slice.size) = k * d0 * nb
  <2>1. Cells(slice.size) = (n * d) \div b
    BY DEF Cells, getBytes, size2D, sliceRowMatmul
  <2>2. (n * d) \div b = nb * d
    BY <1>2
  <2>3. nb * d = k * d0 * nb
    <3> HIDE DEF nb, d0, k
    <3> QED BY <1>2, <1>3, SMT
  <2> QED BY <2>1, <2>2, <2>3
<1>6. \A node : Split(slice, node) = [o \in 0 .. (d0 * nb - 1) |-> RowFrom(nb, d0, node, o)]
  <2>1. \A node : Split(slice, node) = [o \in 0 .. (Cells(slice.sliceSize) - 1) |->
                                          RowFrom(nb, d0, node, o)]
    BY DEF Split, sliceRowMatmul, size2D
  <2> HIDE DEF slice, nb, d0
  <2> QED BY <1>4, <2>1
<1>7. Nodes(m) = 0 .. (k - 1)
  BY DEF Nodes
<1> HIDE DEF slice, nb, d0, k, b
<1>8. Partitioned(m, slice)
  BY <1>1, <1>2, <1>3, <1>4, <1>5, <1>6, <1>7, RowsPartition
<1> QED BY <1>8 DEF slice

(* Under the assertions of sliceColMatmul and splitColMatmulWeight, every   *)
(* cell of the matrix goes to exactly one place of one node                 *)
(* (nn-core.cpp:219-231, 288-303).                                          *)
THEOREM ColSlicesPartition ==
  ASSUME NEW m, m.nNodes \in Nat \ {0}, NEW n \in Nat \ {0}, NEW d \in Nat \ {0},
         n % m.nNodes = 0, (n \div m.nNodes) % getBlockSize(m.weightType) = 0
  PROVE  Partitioned(m, sliceColMatmul(m, n, d))
<1> DEFINE k     == m.nNodes
           b     == getBlockSize(m.weightType)
           n0    == n \div k
           nb0   == n0 \div b
           slice == sliceColMatmul(m, n, d)
<1>1. b \in Nat \ {0} /\ k \in Nat \ {0}
  BY BlockSizePositive
<1>2. n0 \in Nat \ {0} /\ n = k * n0
  BY <1>1, Exact
<1>3. nb0 \in Nat \ {0} /\ n0 = b * nb0 /\ \A x \in Nat : (n0 * x) \div b = nb0 * x
  <2>1. n0 % b = 0
    OBVIOUS
  <2> HIDE DEF n0, b
  <2> QED BY <1>1, <1>2, <2>1, Exact
<1>4. n \div b = nb0 * k
  <2>1. n = n0 * k /\ k \in Nat
    <3> HIDE DEF n0, k
    <3> QED BY <1>1, <1>2
  <2> HIDE DEF n0, nb0, k, b
  <2> QED BY <1>3, <2>1
<1>5. Cells(slice.sliceSize) = nb0 * d
  <2>1. Cells(slice.sliceSize) = (n0 * d) \div b
    BY DEF Cells, getBytes, size2D, sliceColMatmul
  <2> HIDE DEF n0, nb0, b, slice
  <2> QED BY <1>3, <2>1
<1>6. Cells(slice.size) = nb0 * k * d
  <2>1. Cells(slice.size) = (n * d) \div b
    BY DEF Cells, getBytes, size2D, sliceColMatmul
  <2>2. n * d = n0 * (k * d) /\ k * d \in Nat
    <3> HIDE DEF n0, k
    <3> QED BY <1>1, <1>2, SMT
  <2>3. (n * d) \div b = nb0 * (k * d)
    <3> HIDE DEF n0, nb0, k, b
    <3> QED BY <1>3, <2>2
  <2>4. nb0 * (k * d) = nb0 * k * d
    <3> HIDE DEF nb0, k
    <3> QED BY <1>1, <1>3, SMT
  <2> HIDE DEF nb0, k, b, slice
  <2> QED BY <2>1, <2>3, <2>4
<1>7. \A node : Split(slice, node) = [o \in 0 .. (nb0 * d - 1) |-> ColFrom(nb0 * k, nb0, node, o)]
  <2>1. \A node : Split(slice, node) = [o \in 0 .. (Cells(slice.sliceSize) - 1) |->
                                          ColFrom(n \div b, nb0, node, o)]
    BY DEF Split, sliceColMatmul, size2D
  <2> HIDE DEF slice, nb0, k, b
  <2> QED BY <1>4, <1>5, <2>1
<1>8. Nodes(m) = 0 .. (k - 1)
  BY DEF Nodes
<1> HIDE DEF slice, nb0, n0, k, b
<1>9. Partitioned(m, slice)
  BY <1>1, <1>3, <1>5, <1>6, <1>7, <1>8, ColsPartition
<1> QED BY <1>9 DEF slice

(* If the KV heads divide evenly among the nodes, every head of a node      *)
(* finds the keys of its own KV head, whole, in the KV cache of the node    *)
(* (sliceKvCache, sliceMultiHeadAtt, multiheadAtt_F32).  The code does not  *)
(* check that they do: it only compares the numbers (app.cpp, runInferenceApp). *)
THEOREM HeadsFindTheirKeys ==
  ASSUME NEW m, m.nNodes \in Nat \ {0}, m.nKvHeads \in Nat \ {0}, m.nHeads \in Nat \ {0},
         m.dim \in Nat \ {0},
         m.nKvHeads % m.nNodes = 0, m.nHeads % m.nKvHeads = 0, m.dim % m.nHeads = 0
  PROVE  HeadsFindKeys(m)
<1> DEFINE k   == m.nNodes
           kv  == m.nKvHeads
           kv0 == kv \div k
           g   == m.nHeads \div kv
           hs  == m.dim \div m.nHeads
<1>1. kv0 \in Nat \ {0} /\ \A x \in Nat : (kv * x) \div k = kv0 * x
  BY Exact
<1>2. g \in Nat \ {0} /\ m.nHeads = kv * g
  BY Exact
<1>3. hs \in Nat \ {0} /\ \A x \in Nat : (m.dim * x) \div m.nHeads = hs * x
  BY Exact
<1>4. HeadSize(m) = hs
  BY DEF HeadSize
<1>5. KvDim0(m) = kv0 * hs
  <2>1. KvDim(m) = hs * kv
    BY <1>3 DEF KvDim
  <2>2. hs * kv = kv * hs
    <3> HIDE DEF hs, kv
    <3> QED BY <1>3 DEF kv
  <2> HIDE DEF hs, kv, kv0
  <2> QED BY <1>1, <1>3, <2>1, <2>2 DEF KvDim0
<1>6. Heads0(m) = kv0 * g
  <2> HIDE DEF g, kv, kv0
  <2> QED BY <1>1, <1>2 DEF Heads0
<1>7. \A h0 : KeysAt(m, h0) = (h0 \div g) * hs
  BY DEF KeysAt, HeadSize
<1>8. Nodes(m) \subseteq Nat
  BY DEF Nodes
<1> HIDE DEF k, kv, kv0, g, hs
<1>9. ASSUME NEW node \in Nodes(m), NEW h0 \in 0 .. (kv0 * g - 1)
      PROVE  /\ kv0 * hs * node + (h0 \div g) * hs = ((kv0 * g * node + h0) \div g) * hs
             /\ (h0 \div g) * hs + hs <= kv0 * hs
  <2> DEFINE q == h0 \div g
             r == h0 % g
  <2>1. node \in Nat /\ h0 \in Nat /\ h0 \in Int
    BY <1>8
  <2>2. q \in Nat /\ r \in 0 .. (g - 1) /\ h0 = g * q + r
    BY <1>2, <2>1, Division, DivNat
  <2> HIDE DEF q, r
  <2>3. (kv0 * g * node + h0) \div g = kv0 * node + q
    <3>1. kv0 * g * node + h0 = g * (kv0 * node + q) + r
      BY <1>1, <1>2, <2>1, <2>2, SMT
    <3>2. kv0 * node + q \in Int
      BY <1>1, <2>1, <2>2, SMT
    <3>3. \A y \in Int : (g * y + r) \div g = y
      BY <1>2, <2>2, QuotientUnique
    <3> QED BY <3>1, <3>2, <3>3
  <2>4. kv0 * hs * node + q * hs = (kv0 * node + q) * hs
    BY <1>1, <1>3, <2>1, <2>2, SMT
  <2>5. q < kv0
    <3>1. g * q + r < g * kv0
      <4>1. kv0 * g = g * kv0
        BY <1>1, <1>2
      <4> QED BY <1>1, <1>2, <2>1, <2>2, <4>1
    <3> QED BY <1>1, <1>2, <2>2, <3>1, Below
  <2>6. q * hs + hs <= kv0 * hs
    <3>1. (q + 1) * hs <= kv0 * hs /\ (q + 1) * hs = q * hs + hs
      BY <1>1, <1>3, <2>2, <2>5, SMT
    <3> QED BY <3>1
  <2>7. q = h0 \div g
    BY DEF q
  <2> QED BY <2>3, <2>4, <2>6, <2>7, Zenon
<1>10. m.nHeads \div m.nKvHeads = g
  BY DEF g, kv
<1>11. ASSUME NEW node \in Nodes(m), NEW h0 \in 0 .. (Heads0(m) - 1)
       PROVE  /\ KvDim0(m) * node + KeysAt(m, h0)
                   = ((Heads0(m) * node + h0) \div (m.nHeads \div m.nKvHeads)) * HeadSize(m)
              /\ KeysAt(m, h0) + HeadSize(m) <= KvDim0(m)
  <2>1. h0 \in 0 .. (kv0 * g - 1)
    BY <1>6
  <2>2. /\ kv0 * hs * node + (h0 \div g) * hs = ((kv0 * g * node + h0) \div g) * hs
        /\ (h0 \div g) * hs + hs <= kv0 * hs
    BY <1>9, <2>1, Zenon
  <2> QED BY <1>4, <1>5, <1>6, <1>7, <1>10, <2>2, Zenon
<1> QED BY <1>11 DEF HeadsFindKeys

(* The rope cache of every node has an angle for each of its query and key  *)
(* dimensions, and the one of that dimension (sliceRope, nn-core.cpp:232-258, *)
(* ropeLlama_F32).                                                          *)
THEOREM RopeCacheCovers ==
  ASSUME NEW m, m.nNodes \in Nat \ {0}, m.dim \in Nat, KvDim(m) \in Nat, KvDim(m) <= m.dim
  PROVE  RopeCovers(m)
<1> DEFINE q  == QDim0(m)
           kv == KvDim0(m)
<1>1. q \in Nat /\ kv \in Nat /\ kv <= q
  <2>1. \A a \in Nat : a \div m.nNodes \in Nat
    BY DivNat
  <2>2. \A a, b \in Nat, k \in Nat \ {0} : a <= b => a \div k <= b \div k
    BY SMT
  <2> QED BY <2>1, <2>2 DEF QDim0, KvDim0
<1> HIDE DEF q, kv
<1> SUFFICES ASSUME NEW node \in Nodes(m)
             PROVE  LET rope == sliceRope(m, node)
                    IN  /\ \A i \in 0 .. (rope.qDim0 - 1) :
                             /\ rope.qShift + i \in 0 .. (rope.sliceDim - 1)
                             /\ Angle(m, node, rope.qShift + i)
                                  = (rope.qDimStart + i) % HeadSize(m)
                        /\ \A i \in 0 .. (rope.kvDim0 - 1) :
                             /\ i \in 0 .. (rope.sliceDim - 1)
                             /\ Angle(m, node, i) = (rope.kvDimStart + i) % HeadSize(m)
  BY Zenon DEF RopeCovers
<1> DEFINE rope == sliceRope(m, node)
<1>2. node \in Nat
  BY DEF Nodes
<1>3. kv * node \in Nat /\ q * node \in Nat /\ kv * node <= q * node
  BY <1>1, <1>2, SMT
<1>4. /\ rope.qDim0 = q /\ rope.kvDim0 = kv /\ rope.qDimStart = q * node
      /\ rope.kvDimStart = kv * node /\ rope.qShift = q * node - kv * node
      /\ rope.sliceDim = q * node + q - kv * node
  BY DEF sliceRope, QShift, q, kv
<1>5. \A i : Angle(m, node, i) = (rope.kvDimStart + i) % HeadSize(m)
  BY DEF Angle
<1> HIDE DEF rope
<1>6. ASSUME NEW i \in 0 .. (rope.qDim0 - 1)
      PROVE  /\ rope.qShift + i \in 0 .. (rope.sliceDim - 1)
             /\ Angle(m, node, rope.qShift + i) = (rope.qDimStart + i) % HeadSize(m)
  <2>1. i \in Nat /\ i < q
    BY <1>1, <1>4
  <2>2. rope.kvDimStart + (rope.qShift + i) = rope.qDimStart + i
    BY <1>3, <1>4, <2>1
  <2>3. Angle(m, node, rope.qShift + i) = (rope.qDimStart + i) % HeadSize(m)
    BY <1>5, <2>2, Zenon
  <2> QED BY <1>1, <1>3, <1>4, <2>1, <2>3
<1>7. ASSUME NEW i \in 0 .. (rope.kvDim0 - 1)
      PROVE  i \in 0 .. (rope.sliceDim - 1)
  BY <1>1, <1>3, <1>4
<1> QED BY <1>5, <1>6, <1>7, Zenon DEF rope

-----------------------------------------------------------------------------
(* Induction over numbers                                                   *)

(* A set of natural numbers has a least element.                            *)
LEMMA LeastNatural ==
  ASSUME NEW S, S \subseteq Nat, S # {}
  PROVE  \E n \in S : \A k \in S : n <= k
<1> DEFINE R == OpToRel(<, Nat)
<1>1. IsWellFoundedOn(R, Nat)
  BY NatLessThanWellFounded
<1>2. \E n \in S : \A k \in S : ~(<<k, n>> \in R)
  <2> HIDE DEF R
  <2> QED BY <1>1, WFMin
<1>3. \A j, k \in Nat : <<j, k>> \in R <=> j < k
  BY DEF OpToRel
<1>4. PICK n \in S : \A k \in S : ~(<<k, n>> \in R)
  BY <1>2
<1>5. ASSUME NEW k \in S PROVE n <= k
  <2>1. <<k, n>> \notin R
    BY <1>4
  <2>2. <<k, n>> \in R <=> k < n
    BY <1>3
  <2> HIDE DEF R
  <2>3. ~(k < n)
    BY <2>1, <2>2
  <2> QED
    BY <2>3
<1> QED
  BY <1>5

(* Induction up to a number, over a set.                                     *)
LEMMA UpTo ==
  ASSUME NEW n \in Nat, NEW P, 0 \in P, \A i \in 1 .. n : i - 1 \in P => i \in P
  PROVE  0 .. n \subseteq P
<1> DEFINE Rest == {i \in 0 .. n : i \notin P}
<1> SUFFICES ASSUME Rest # {} PROVE FALSE
  OBVIOUS
<1>1. Rest \subseteq Nat
  OBVIOUS
<1>2. PICK k \in Rest : \A j \in Rest : k <= j
  <2> HIDE DEF Rest
  <2> QED
    BY <1>1, LeastNatural
<1>3. k \in 1 .. n /\ k - 1 \in 0 .. n
  OBVIOUS
<1>4. k - 1 \in P
  BY <1>2, <1>3
<1> QED
  BY <1>3, <1>4

-----------------------------------------------------------------------------
(* Sequences of anything                                                    *)

IsSeq(s) == \E S : s \in Seq(S)

(* A sequence is a function on the numbers up to its length.                *)
LEMMA SeqShape ==
  ASSUME NEW s, IsSeq(s)
  PROVE  /\ Len(s) \in Nat /\ DOMAIN s = 1 .. Len(s)
         /\ s = [i \in 1 .. Len(s) |-> s[i]]
         /\ s # <<>> => Len(s) \in Nat \ {0}
         /\ Len(s) = 0 => s = <<>>
<1>1. PICK S : s \in Seq(S)
  BY DEF IsSeq
<1>2. Len(s) \in Nat /\ s \in [1 .. Len(s) -> S]
  BY <1>1, LenProperties
<1>3. s # <<>> => Len(s) \in Nat \ {0}
  BY <1>1, EmptySeq
<1> QED
  BY <1>2, <1>3

(* A function on the numbers up to n is a sequence of n elements.           *)
LEMMA SeqOfFcn ==
  ASSUME NEW n \in Nat, NEW s, s = [i \in 1 .. n |-> s[i]]
  PROVE  IsSeq(s) /\ Len(s) = n
<1> DEFINE S == {s[i] : i \in 1 .. n}
<1>1. s \in [1 .. n -> S]
  OBVIOUS
<1> HIDE DEF S
<1>2. s \in Seq(S)
  BY <1>1, SeqDef
<1>3. Len(s) \in Nat /\ DOMAIN s = 1 .. Len(s) /\ DOMAIN s = 1 .. n
  BY <1>1, <1>2, LenProperties
<1> QED
  BY <1>2, <1>3 DEF IsSeq

(* Two sequences of equal length with equal elements are equal.             *)
LEMMA SameSeq ==
  ASSUME NEW s, NEW t, IsSeq(s), IsSeq(t), Len(s) = Len(t), \A i \in 1 .. Len(s) : s[i] = t[i]
  PROVE  s = t
<1>1. s = [i \in 1 .. Len(s) |-> s[i]] /\ t = [i \in 1 .. Len(t) |-> t[i]]
  BY SeqShape
<1> QED
  BY <1>1

(* Two sequences are sequences over one set.                                *)
LEMMA OverOneSet ==
  ASSUME NEW a, NEW b, IsSeq(a), IsSeq(b)
  PROVE  \E S : a \in Seq(S) /\ b \in Seq(S)
<1>1. PICK S : a \in Seq(S)
  BY DEF IsSeq
<1>2. PICK T : b \in Seq(T)
  BY DEF IsSeq
<1>3. a \in Seq(S \cup T) /\ b \in Seq(S \cup T)
  <2>1. S \subseteq S \cup T /\ T \subseteq S \cup T
    OBVIOUS
  <2> QED
    BY <1>1, <1>2, <2>1, SeqMonotonic
<1> QED
  BY <1>3

(* The elements of a concatenation.                                         *)
LEMMA Cat ==
  ASSUME NEW a, NEW b, IsSeq(a), IsSeq(b)
  PROVE  /\ IsSeq(a \o b) /\ Len(a \o b) = Len(a) + Len(b)
         /\ \A i \in 1 .. (Len(a) + Len(b)) :
              (a \o b)[i] = IF i <= Len(a) THEN a[i] ELSE b[i - Len(a)]
<1>1. PICK S : a \in Seq(S) /\ b \in Seq(S)
  BY OverOneSet
<1> QED
  BY <1>1, ConcatProperties DEF IsSeq

(* Concatenations are sequences.                                             *)
LEMMA CatSeq == \A a, b : IsSeq(a) /\ IsSeq(b) => IsSeq(a \o b)
BY Cat

(* The empty sequence, and sequences of one element.                        *)
LEMMA EmptyIsSeq == IsSeq(<<>>) /\ Len(<<>>) = 0
<1>1. <<>> \in Seq({})
  OBVIOUS
<1> QED
  BY <1>1 DEF IsSeq

(* A list of one is a sequence of one element.                               *)
LEMMA OneIsSeq ==
  ASSUME NEW x
  PROVE  IsSeq(<<x>>) /\ Len(<<x>>) = 1 /\ <<x>>[1] = x
<1>1. <<x>> \in Seq({x})
  OBVIOUS
<1> QED
  BY <1>1 DEF IsSeq

(* Concatenation is associative.                                             *)
LEMMA CatAssoc ==
  \A a, b, c : IsSeq(a) /\ IsSeq(b) /\ IsSeq(c) => (a \o b) \o c = a \o (b \o c)
<1> SUFFICES ASSUME NEW a, NEW b, NEW c, IsSeq(a), IsSeq(b), IsSeq(c)
             PROVE  (a \o b) \o c = a \o (b \o c)
  OBVIOUS
<1>1. PICK S : a \in Seq(S) /\ b \in Seq(S)
  BY OverOneSet
<1>2. PICK T : c \in Seq(T)
  BY DEF IsSeq
<1>3. a \in Seq(S \cup T) /\ b \in Seq(S \cup T) /\ c \in Seq(S \cup T)
  <2>1. S \subseteq S \cup T /\ T \subseteq S \cup T
    OBVIOUS
  <2> QED
    BY <1>1, <1>2, <2>1, SeqMonotonic
<1> QED
  BY <1>3, ConcatAssociative

(* The same for one instance, which the provers then use only once.         *)
Associates(a, b, c) == (a \o b) \o c = a \o (b \o c)

(* Concatenation is associative, instance by instance.                       *)
LEMMA CatAssociates ==
  \A a, b, c : IsSeq(a) /\ IsSeq(b) /\ IsSeq(c) => Associates(a, b, c)
BY CatAssoc DEF Associates

(* Concatenating nothing changes nothing.                                    *)
LEMMA CatEmpty == \A a : IsSeq(a) => a \o <<>> = a /\ <<>> \o a = a
BY ConcatEmptySeq DEF IsSeq

(* Only nothing and nothing make nothing.                                    *)
LEMMA CatIsEmpty ==
  ASSUME NEW a, NEW b, IsSeq(a), IsSeq(b), a \o b = <<>>
  PROVE  a = <<>> /\ b = <<>>
<1>1. PICK S : a \in Seq(S) /\ b \in Seq(S)
  BY OverOneSet
<1> QED
  BY <1>1, ConcatEqualIffEmpty

(* What is put in front is at the head.                                     *)
LEMMA ConsHead ==
  \A x, s : IsSeq(s) =>
    /\ Head(<<x>> \o s) = x /\ Tail(<<x>> \o s) = s /\ <<x>> \o s # <<>>
    /\ Len(<<x>> \o s) = Len(s) + 1
<1> SUFFICES ASSUME NEW x, NEW s, IsSeq(s)
             PROVE  /\ Head(<<x>> \o s) = x /\ Tail(<<x>> \o s) = s /\ <<x>> \o s # <<>>
                    /\ Len(<<x>> \o s) = Len(s) + 1
  OBVIOUS
<1> DEFINE t == <<x>> \o s
<1>1. /\ IsSeq(t) /\ Len(t) = Len(s) + 1 /\ Len(s) \in Nat
      /\ \A i \in 1 .. (Len(s) + 1) : t[i] = IF i <= 1 THEN x ELSE s[i - 1]
  BY OneIsSeq, Cat, SeqShape
<1> HIDE DEF t
<1>2. t # <<>>
  BY <1>1
<1>3. PICK S : t \in Seq(S)
  BY <1>1 DEF IsSeq
<1>4. /\ Tail(t) \in Seq(S) /\ Len(Tail(t)) = Len(t) - 1
      /\ \A i \in 1 .. Len(Tail(t)) : Tail(t)[i] = t[i + 1]
  BY <1>2, <1>3, HeadTailProperties
<1>5. Head(t) = t[1] /\ t[1] = x
  BY <1>1
<1>6. Tail(t) = s
  <2>1. IsSeq(Tail(t)) /\ Len(Tail(t)) = Len(s)
    BY <1>1, <1>4 DEF IsSeq
  <2>2. \A i \in 1 .. Len(s) : Tail(t)[i] = s[i]
    BY <1>1, <1>4, <2>1
  <2> QED
    BY <2>1, <2>2, SameSeq
<1> QED
  BY <1>1, <1>2, <1>5, <1>6 DEF t

(* A sequence that is not empty is its head before its tail.                *)
LEMMA HeadFirst ==
  ASSUME NEW s, IsSeq(s), s # <<>>
  PROVE  /\ s = <<Head(s)>> \o Tail(s) /\ IsSeq(Tail(s)) /\ Len(Tail(s)) = Len(s) - 1
         /\ Head(s) = s[1]
<1>1. PICK S : s \in Seq(S)
  BY DEF IsSeq
<1>2. /\ Tail(s) \in Seq(S) /\ Len(Tail(s)) = Len(s) - 1
      /\ \A i \in 1 .. Len(Tail(s)) : Tail(s)[i] = s[i + 1]
  BY <1>1, HeadTailProperties
<1>3. IsSeq(Tail(s)) /\ Len(s) \in Nat \ {0}
  BY <1>2, SeqShape DEF IsSeq
<1>4. Head(s) = s[1]
  BY <1>3
<1> DEFINE t == <<Head(s)>> \o Tail(s)
<1>5. /\ IsSeq(t) /\ Len(t) = Len(Tail(s)) + 1
      /\ \A i \in 1 .. (1 + Len(Tail(s))) : t[i] = IF i <= 1 THEN Head(s) ELSE Tail(s)[i - 1]
  BY <1>3, OneIsSeq, Cat, SeqShape
<1> HIDE DEF t
<1>6. Len(t) = Len(s) /\ \A i \in 1 .. Len(s) : t[i] = s[i]
  BY <1>2, <1>3, <1>4, <1>5
<1>7. t = s
  BY <1>5, <1>6, SameSeq
<1> QED
  BY <1>2, <1>3, <1>4, <1>7 DEF t

(* Two lists with equal heads have equal tails.                             *)
LEMMA ConsSame ==
  ASSUME NEW x, NEW y, NEW s, NEW t, IsSeq(s), IsSeq(t), <<x>> \o s = <<y>> \o t
  PROVE  x = y /\ s = t
BY ConsHead

(* Appending is concatenating a list of one.                                *)
LEMMA AppendIsCat ==
  ASSUME NEW s, NEW x, IsSeq(s)
  PROVE  Append(s, x) = s \o <<x>>
<1>1. PICK S : s \in Seq(S) /\ <<x>> \in Seq(S)
  BY OneIsSeq, OverOneSet
<1>2. x \in S
  <2>1. Len(<<x>>) = 1 /\ <<x>>[1] = x
    BY OneIsSeq
  <2> QED
    BY <1>1, <2>1, ElementOfSeq
<1> QED
  BY <1>1, <1>2, AppendIsConcat

(* The elements of a sequence, and of a concatenation.                      *)
Elems(s) == {s[i] : i \in 1 .. Len(s)}

(* The elements of a concatenation are those of its parts.                   *)
LEMMA CatElems ==
  ASSUME NEW a, NEW b, IsSeq(a), IsSeq(b)
  PROVE  Elems(a \o b) = Elems(a) \cup Elems(b)
<1> DEFINE c == a \o b
<1>1. /\ Len(a) \in Nat /\ Len(b) \in Nat /\ Len(c) = Len(a) + Len(b)
      /\ \A i \in 1 .. (Len(a) + Len(b)) : c[i] = IF i <= Len(a) THEN a[i] ELSE b[i - Len(a)]
  BY Cat, SeqShape
<1> HIDE DEF c
<1>2. ASSUME NEW i \in 1 .. Len(c)
      PROVE  c[i] \in Elems(a) \cup Elems(b)
  <2>1. CASE i <= Len(a)
    <3>1. i \in 1 .. Len(a) /\ c[i] = a[i]
      BY <1>1, <2>1
    <3> QED
      BY <3>1 DEF Elems
  <2>2. CASE ~(i <= Len(a))
    <3>1. i - Len(a) \in 1 .. Len(b) /\ c[i] = b[i - Len(a)]
      BY <1>1, <2>2
    <3> QED
      BY <3>1 DEF Elems
  <2> QED
    BY <2>1, <2>2
<1>3. ASSUME NEW j \in 1 .. Len(a)
      PROVE  j \in 1 .. Len(c) /\ c[j] = a[j]
  BY <1>1
<1>4. ASSUME NEW j \in 1 .. Len(b)
      PROVE  Len(a) + j \in 1 .. Len(c) /\ c[Len(a) + j] = b[j]
  <2>1. ~(Len(a) + j <= Len(a)) /\ (Len(a) + j) - Len(a) = j /\ Len(a) + j \in 1 .. Len(c)
    BY <1>1
  <2> QED
    BY <1>1, <2>1
<1>5. Elems(a) \subseteq Elems(c)
  BY <1>3 DEF Elems
<1>6. Elems(b) \subseteq Elems(c)
  BY <1>4 DEF Elems
<1>7. Elems(c) \subseteq Elems(a) \cup Elems(b)
  <2> SUFFICES ASSUME NEW x \in Elems(c) PROVE x \in Elems(a) \cup Elems(b)
    OBVIOUS
  <2>1. PICK i \in 1 .. Len(c) : x = c[i]
    BY DEF Elems
  <2> QED
    BY <1>2, <2>1
<1> QED
  BY <1>5, <1>6, <1>7 DEF c

-----------------------------------------------------------------------------
(* Flattening                                                               *)

Flat(f, seqs, n) ==
  [i \in 1 .. n |-> IF i = 1 THEN seqs[i] ELSE f[i - 1] \o seqs[i]]

Flatten(seqs) ==
  LET flatten[i \in 1 .. Len(seqs)] ==
        IF i = 1 THEN seqs[i] ELSE flatten[i - 1] \o seqs[i]
  IN  flatten

AreSeqs(seqs) == IsSeq(seqs) /\ \A i \in 1 .. Len(seqs) : IsSeq(seqs[i])

(* The recursive function of FlattenSeq exists.                             *)
LEMMA FlatExists ==
  ASSUME NEW seqs, NEW n \in Nat
  PROVE  \E f : f = Flat(f, seqs, n)
<1> DEFINE P == {k \in 0 .. n : \E f : f = Flat(f, seqs, k)}
<1>0. \A k : k \in P <=> k \in 0 .. n /\ \E f : f = Flat(f, seqs, k)
  OBVIOUS
<1> HIDE DEF P
<1>1. 0 \in P
  <2> DEFINE f == [i \in 1 .. 0 |-> <<>>]
  <2>1. f = Flat(f, seqs, 0)
    BY DEF Flat
  <2> HIDE DEF f
  <2>2. 0 \in 0 .. n
    OBVIOUS
  <2> QED
    BY <1>0, <2>1, <2>2
<1>2. ASSUME NEW k \in 1 .. n, k - 1 \in P PROVE k \in P
  <2>1. PICK f : f = Flat(f, seqs, k - 1)
    BY <1>0, <1>2
  <2> DEFINE g == [i \in 1 .. k |-> IF i < k THEN f[i]
                                    ELSE IF i = 1 THEN seqs[i] ELSE f[i - 1] \o seqs[i]]
  <2>2. \A i \in 1 .. (k - 1) :
          f[i] = IF i = 1 THEN seqs[i] ELSE f[i - 1] \o seqs[i]
    BY <2>1 DEF Flat
  <2>3. \A i \in 1 .. (k - 1) : g[i] = f[i]
    OBVIOUS
  <2>4. g[k] = IF k = 1 THEN seqs[k] ELSE f[k - 1] \o seqs[k]
    OBVIOUS
  <2>5. ASSUME NEW i \in 1 .. k
        PROVE  g[i] = IF i = 1 THEN seqs[i] ELSE g[i - 1] \o seqs[i]
    <3> HIDE DEF g
    <3>1. CASE i = k /\ i = 1
      BY <2>4, <3>1
    <3>2. CASE i = k /\ i # 1
      <4>1. k - 1 \in 1 .. (k - 1)
        BY <3>2
      <4> QED
        BY <2>3, <2>4, <3>2, <4>1
    <3>3. CASE i # k /\ i = 1
      <4>1. i \in 1 .. (k - 1)
        BY <3>3
      <4> QED
        BY <2>2, <2>3, <3>3, <4>1
    <3>4. CASE i # k /\ i # 1
      <4>1. i \in 1 .. (k - 1) /\ i - 1 \in 1 .. (k - 1)
        BY <3>4
      <4>2. f[i] = f[i - 1] \o seqs[i] /\ g[i] = f[i] /\ g[i - 1] = f[i - 1]
        BY <2>2, <2>3, <3>4, <4>1
      <4> QED
        BY <3>4, <4>2
    <3> QED
      BY <3>1, <3>2, <3>3, <3>4
  <2>6. g = Flat(g, seqs, k)
    BY <2>5 DEF Flat
  <2> HIDE DEF g
  <2>7. k \in 0 .. n
    OBVIOUS
  <2> QED
    BY <1>0, <2>6, <2>7
<1>3. n \in P
  <2>1. n \in 0 .. n
    OBVIOUS
  <2> QED
    BY <1>1, <1>2, <2>1, UpTo
<1> QED
  BY <1>0, <1>3

(* FlattenSeq computes this function.                                       *)
LEMMA FlattenRun ==
  ASSUME NEW seqs, NEW n \in Nat \ {0}, Len(seqs) = n
  PROVE  \E f : /\ \A i \in 1 .. n : f[i] = IF i = 1 THEN seqs[i] ELSE f[i - 1] \o seqs[i]
                /\ FlattenSeq(seqs) = f[n]
<1>1. Flatten(seqs) = CHOOSE f : f = Flat(f, seqs, n)
  BY DEF Flatten, Flat
<1>2. \E f : f = Flat(f, seqs, n)
  BY FlatExists
<1>3. FlattenSeq(seqs) = Flatten(seqs)[n]
  BY DEF FlattenSeq, Flatten
<1>4. PICK f : f = Flat(f, seqs, n) /\ f = Flatten(seqs)
  BY <1>1, <1>2
<1>5. \A i \in 1 .. n : f[i] = IF i = 1 THEN seqs[i] ELSE f[i - 1] \o seqs[i]
  BY <1>4 DEF Flat
<1> QED
  BY <1>3, <1>4, <1>5

(* No lists flatten to nothing.                                              *)
LEMMA FlatEmpty == FlattenSeq(<<>>) = <<>>
BY EmptyIsSeq DEF FlattenSeq

(* Flattening one sequence more.                                            *)
LEMMA FlatLast ==
  ASSUME NEW s, NEW x, AreSeqs(s), IsSeq(x)
  PROVE  /\ IsSeq(FlattenSeq(s)) /\ AreSeqs(s \o <<x>>)
         /\ FlattenSeq(s \o <<x>>) = FlattenSeq(s) \o x
<1> DEFINE n   == Len(s)
           all == s \o <<x>>
<1>1. /\ n \in Nat /\ n + 1 \in Nat \ {0} /\ IsSeq(all) /\ Len(all) = n + 1
      /\ \A i \in 1 .. n : IsSeq(s[i]) /\ all[i] = s[i]
      /\ all[n + 1] = x /\ (n = 0 => s = <<>>)
  <2>1. IsSeq(s) /\ \A i \in 1 .. n : IsSeq(s[i])
    BY DEF AreSeqs
  <2>2. n \in Nat /\ (n = 0 => s = <<>>)
    BY <2>1, SeqShape
  <2>3. /\ IsSeq(all) /\ Len(all) = n + 1
        /\ \A i \in 1 .. (n + 1) : all[i] = IF i <= n THEN s[i] ELSE <<x>>[i - n]
    BY <2>1, OneIsSeq, Cat
  <2>4. all[n + 1] = x
    BY <2>2, <2>3, OneIsSeq
  <2>5. \A i \in 1 .. n : all[i] = s[i]
    BY <2>2, <2>3
  <2> QED
    BY <2>1, <2>2, <2>3, <2>4, <2>5
<1> HIDE DEF n, all
<1>2. AreSeqs(all)
  BY <1>1 DEF AreSeqs
<1>3. PICK g : /\ \A i \in 1 .. (n + 1) : g[i] = IF i = 1 THEN all[i] ELSE g[i - 1] \o all[i]
               /\ FlattenSeq(all) = g[n + 1]
  BY <1>1, FlattenRun
<1>4. CASE n = 0
  <2>1. FlattenSeq(s) = <<>>
    BY <1>1, <1>4, FlatEmpty
  <2>2. FlattenSeq(all) = x
    BY <1>1, <1>3, <1>4
  <2> QED
    BY <1>2, <2>1, <2>2, EmptyIsSeq, CatEmpty DEF all
<1>5. CASE n # 0
  <2>1. PICK f : /\ \A i \in 1 .. n : f[i] = IF i = 1 THEN s[i] ELSE f[i - 1] \o s[i]
                 /\ FlattenSeq(s) = f[n]
    <3>1. n \in Nat \ {0} /\ Len(s) = n
      BY <1>1, <1>5 DEF n
    <3> QED
      BY <3>1, FlattenRun
  <2> DEFINE P == {i \in 0 .. n : i = 0 \/ (IsSeq(f[i]) /\ g[i] = f[i])}
  <2>2. \A i : i \in P <=> i \in 0 .. n /\ (i = 0 \/ (IsSeq(f[i]) /\ g[i] = f[i]))
    OBVIOUS
  <2> HIDE DEF P
  <2>3. 0 \in P
    BY <1>1, <2>2
  <2>4. ASSUME NEW i \in 1 .. n, i - 1 \in P PROVE i \in P
    <3>1. i \in 0 .. n /\ i \in 1 .. (n + 1)
      BY <1>1
    <3>2. CASE i = 1
      <4>1. f[1] = s[1] /\ g[1] = all[1]
        BY <1>3, <2>1, <3>1, <3>2
      <4> QED
        BY <1>1, <2>2, <3>1, <3>2, <4>1
    <3>3. CASE i # 1
      <4>1. IsSeq(f[i - 1]) /\ g[i - 1] = f[i - 1]
        BY <2>2, <2>4, <3>3
      <4>2. f[i] = f[i - 1] \o s[i] /\ g[i] = g[i - 1] \o all[i]
        BY <1>3, <2>1, <3>1, <3>3
      <4>3. IsSeq(s[i]) /\ all[i] = s[i]
        BY <1>1
      <4>4. IsSeq(f[i]) /\ g[i] = f[i]
        BY <4>1, <4>2, <4>3, CatSeq
      <4> QED
        BY <2>2, <3>1, <4>4
    <3> QED
      BY <3>2, <3>3
  <2>5. n \in P
    <3>1. n \in 0 .. n
      BY <1>1
    <3> QED
      BY <1>1, <2>3, <2>4, <3>1, UpTo
  <2>6. IsSeq(f[n]) /\ g[n] = f[n]
    BY <1>5, <2>2, <2>5
  <2>7. g[n + 1] = g[n] \o all[n + 1]
    <3>1. n + 1 \in 1 .. (n + 1) /\ n + 1 # 1 /\ (n + 1) - 1 = n
      BY <1>1, <1>5
    <3> QED
      BY <1>3, <3>1
  <2> QED
    BY <1>1, <1>2, <1>3, <2>1, <2>6, <2>7 DEF all
<1> QED
  BY <1>4, <1>5

(* Flattened lists are a sequence.                                           *)
LEMMA FlatIsSeq ==
  ASSUME NEW s, AreSeqs(s)
  PROVE  IsSeq(FlattenSeq(s))
BY FlatLast, EmptyIsSeq

(* One list flattens to itself.                                              *)
LEMMA FlatOne ==
  ASSUME NEW x, IsSeq(x)
  PROVE  FlattenSeq(<<x>>) = x /\ AreSeqs(<<x>>)
<1>1. IsSeq(<<>>) /\ Len(<<>>) = 0 /\ AreSeqs(<<>>) /\ <<>> \o <<x>> = <<x>> /\ <<>> \o x = x
  BY EmptyIsSeq, OneIsSeq, CatEmpty DEF AreSeqs
<1> QED
  BY <1>1, FlatLast, FlatEmpty

(* A list split before its last element.                                    *)
LEMMA InitLast ==
  ASSUME NEW s, IsSeq(s), s # <<>>
  PROVE  LET front == [i \in 1 .. (Len(s) - 1) |-> s[i]]
         IN  s = front \o <<s[Len(s)]>> /\ IsSeq(front) /\ Len(front) = Len(s) - 1
<1> DEFINE front == [i \in 1 .. (Len(s) - 1) |-> s[i]]
<1>1. Len(s) \in Nat \ {0} /\ Len(s) - 1 \in Nat
  BY SeqShape
<1>2. front = [i \in 1 .. (Len(s) - 1) |-> front[i]] /\ \A i \in 1 .. (Len(s) - 1) : front[i] = s[i]
  OBVIOUS
<1> HIDE DEF front
<1>3. IsSeq(front) /\ Len(front) = Len(s) - 1
  BY <1>1, <1>2, SeqOfFcn
<1> DEFINE t == front \o <<s[Len(s)]>>
<1>4. /\ IsSeq(t) /\ Len(t) = Len(s) - 1 + 1
      /\ \A i \in 1 .. (Len(s) - 1 + 1) :
           t[i] = IF i <= Len(s) - 1 THEN front[i] ELSE <<s[Len(s)]>>[i - (Len(s) - 1)]
  BY <1>3, OneIsSeq, Cat
<1> HIDE DEF t
<1>5. Len(t) = Len(s) /\ \A i \in 1 .. Len(s) : t[i] = s[i]
  BY <1>1, <1>2, <1>4, OneIsSeq
<1>6. t = s
  BY <1>4, <1>5, SameSeq
<1> QED
  BY <1>3, <1>6 DEF t, front

(* What is concatenated may be flattened apart.                             *)
LEMMA FlatCat ==
  ASSUME NEW a, NEW b, AreSeqs(a), AreSeqs(b)
  PROVE  FlattenSeq(a \o b) = FlattenSeq(a) \o FlattenSeq(b) /\ AreSeqs(a \o b)
<1> DEFINE Begin(k) == [i \in 1 .. k |-> b[i]]
           P == {k \in 0 .. Len(b) :
                   /\ AreSeqs(Begin(k)) /\ AreSeqs(a \o Begin(k))
                   /\ FlattenSeq(a \o Begin(k)) = FlattenSeq(a) \o FlattenSeq(Begin(k))}
<1>1. IsSeq(a) /\ IsSeq(b) /\ Len(b) \in Nat
  BY SeqShape DEF AreSeqs
<1>2. b = Begin(Len(b))
  BY <1>1, SeqShape
<1>3. Begin(0) = <<>>
  OBVIOUS
<1>4. ASSUME NEW k \in 1 .. Len(b)
      PROVE  Begin(k) = Begin(k - 1) \o <<b[k]>>
  <2>1. k \in Nat \ {0} /\ k - 1 \in Nat
    OBVIOUS
  <2>2. Begin(k) = [i \in 1 .. k |-> Begin(k)[i]]
    OBVIOUS
  <2>3. IsSeq(Begin(k)) /\ Len(Begin(k)) = k
    <3> HIDE DEF Begin
    <3> QED
      BY <2>1, <2>2, SeqOfFcn
  <2>4. Begin(k) # <<>>
    <3> HIDE DEF Begin
    <3> QED
      BY <2>1, <2>3, EmptyIsSeq
  <2>5. [i \in 1 .. (k - 1) |-> Begin(k)[i]] = Begin(k - 1) /\ Begin(k)[k] = b[k]
    OBVIOUS
  <2> HIDE DEF Begin
  <2> QED
    BY <2>3, <2>4, <2>5, InitLast
<1>5. \A k : k \in P <=> /\ k \in 0 .. Len(b)
                         /\ AreSeqs(Begin(k)) /\ AreSeqs(a \o Begin(k))
                         /\ FlattenSeq(a \o Begin(k)) = FlattenSeq(a) \o FlattenSeq(Begin(k))
  OBVIOUS
<1> HIDE DEF Begin, P
<1>6. 0 \in P
  <2>1. AreSeqs(<<>>) /\ a \o <<>> = a /\ FlattenSeq(a) \o <<>> = FlattenSeq(a)
    BY <1>1, EmptyIsSeq, CatEmpty, FlatIsSeq DEF AreSeqs
  <2>2. 0 \in 0 .. Len(b)
    BY <1>1
  <2> QED
    BY <1>3, <1>5, <2>1, <2>2, FlatEmpty
<1>7. ASSUME NEW k \in 1 .. Len(b), k - 1 \in P PROVE k \in P
  <2> DEFINE f == Begin(k - 1)
             x == b[k]
  <2>1. AreSeqs(f) /\ AreSeqs(a \o f) /\ FlattenSeq(a \o f) = FlattenSeq(a) \o FlattenSeq(f)
    BY <1>5, <1>7
  <2>2. IsSeq(x) /\ Begin(k) = f \o <<x>> /\ IsSeq(<<x>>)
    BY <1>4, OneIsSeq DEF AreSeqs
  <2> HIDE DEF f, x
  <2>3. AreSeqs(f \o <<x>>) /\ FlattenSeq(f \o <<x>>) = FlattenSeq(f) \o x
    BY <2>1, <2>2, FlatLast
  <2>4. AreSeqs((a \o f) \o <<x>>) /\ FlattenSeq((a \o f) \o <<x>>) = FlattenSeq(a \o f) \o x
    BY <2>1, <2>2, FlatLast
  <2>5. (a \o f) \o <<x>> = a \o (f \o <<x>>)
    <3> DEFINE y == <<x>>
    <3>1. IsSeq(f) /\ IsSeq(y) /\ IsSeq(a)
      BY <1>1, <2>1, <2>2 DEF AreSeqs
    <3> HIDE DEF y
    <3>2. (a \o f) \o y = a \o (f \o y)
      BY <3>1, CatAssoc
    <3> QED
      BY <3>2 DEF y
  <2>6. (FlattenSeq(a) \o FlattenSeq(f)) \o x = FlattenSeq(a) \o (FlattenSeq(f) \o x)
    <3>1. IsSeq(FlattenSeq(a)) /\ IsSeq(FlattenSeq(f))
      BY <2>1, FlatIsSeq
    <3> QED
      BY <2>2, <3>1, CatAssoc
  <2>7. k \in 0 .. Len(b)
    BY <1>1
  <2> QED
    BY <1>5, <2>1, <2>2, <2>3, <2>4, <2>5, <2>6, <2>7
<1>8. Len(b) \in P
  <2>1. Len(b) \in 0 .. Len(b)
    BY <1>1
  <2> QED
    BY <1>1, <1>6, <1>7, <2>1, UpTo
<1> QED
  BY <1>2, <1>5, <1>8

(* Only one of the lists is not empty.                                      *)
LEMMA FlatOnly ==
  ASSUME NEW s, AreSeqs(s), NEW j \in 1 .. Len(s), \A i \in 1 .. Len(s) : i # j => s[i] = <<>>
  PROVE  FlattenSeq(s) = s[j]
<1> DEFINE Begin(k) == [i \in 1 .. k |-> s[i]]
           P == {k \in 0 .. Len(s) : AreSeqs(Begin(k)) /\
                   FlattenSeq(Begin(k)) = IF k >= j THEN s[j] ELSE <<>>}
<1>1. IsSeq(s) /\ Len(s) \in Nat /\ \A i \in 1 .. Len(s) : IsSeq(s[i])
  BY SeqShape DEF AreSeqs
<1>2. s = Begin(Len(s))
  BY <1>1, SeqShape
<1>3. Begin(0) = <<>>
  OBVIOUS
<1>4. ASSUME NEW k \in 1 .. Len(s)
      PROVE  Begin(k) = Begin(k - 1) \o <<s[k]>>
  <2>1. k \in Nat \ {0} /\ k - 1 \in Nat
    OBVIOUS
  <2>2. Begin(k) = [i \in 1 .. k |-> Begin(k)[i]]
    OBVIOUS
  <2>3. IsSeq(Begin(k)) /\ Len(Begin(k)) = k
    <3> HIDE DEF Begin
    <3> QED
      BY <2>1, <2>2, SeqOfFcn
  <2>4. Begin(k) # <<>>
    <3> HIDE DEF Begin
    <3> QED
      BY <2>1, <2>3, EmptyIsSeq
  <2>5. [i \in 1 .. (k - 1) |-> Begin(k)[i]] = Begin(k - 1) /\ Begin(k)[k] = s[k]
    OBVIOUS
  <2> HIDE DEF Begin
  <2> QED
    BY <2>3, <2>4, <2>5, InitLast
<1>5. \A k : k \in P <=> k \in 0 .. Len(s) /\ AreSeqs(Begin(k)) /\
                         FlattenSeq(Begin(k)) = IF k >= j THEN s[j] ELSE <<>>
  OBVIOUS
<1> HIDE DEF Begin, P
<1>6. 0 \in P
  <2>1. AreSeqs(<<>>)
    BY EmptyIsSeq DEF AreSeqs
  <2>2. 0 \in 0 .. Len(s) /\ ~(0 >= j)
    BY <1>1
  <2> QED
    BY <1>3, <1>5, <2>1, <2>2, FlatEmpty
<1>7. ASSUME NEW k \in 1 .. Len(s), k - 1 \in P PROVE k \in P
  <2>1. AreSeqs(Begin(k - 1)) /\ FlattenSeq(Begin(k - 1)) = IF k - 1 >= j THEN s[j] ELSE <<>>
    BY <1>5, <1>7
  <2>2. AreSeqs(Begin(k)) /\ FlattenSeq(Begin(k)) = FlattenSeq(Begin(k - 1)) \o s[k]
    BY <1>1, <1>4, <2>1, FlatLast
  <2>3. k \in 0 .. Len(s)
    BY <1>1
  <2>4. FlattenSeq(Begin(k)) = IF k >= j THEN s[j] ELSE <<>>
    <3>1. CASE k = j
      <4>1. ~(k - 1 >= j) /\ k >= j
        BY <3>1
      <4> QED
        BY <1>1, <2>1, <2>2, <3>1, <4>1, CatEmpty
    <3>2. CASE k > j
      <4>1. k - 1 >= j /\ k >= j /\ s[k] = <<>>
        BY <3>2
      <4> QED
        BY <1>1, <2>1, <2>2, <4>1, CatEmpty
    <3>3. CASE k < j
      <4>1. ~(k - 1 >= j) /\ ~(k >= j) /\ s[k] = <<>>
        BY <3>3
      <4> QED
        BY <1>1, <2>1, <2>2, <4>1, CatEmpty, EmptyIsSeq
    <3> QED
      BY <3>1, <3>2, <3>3
  <2> QED
    BY <1>5, <2>2, <2>3, <2>4
<1>8. Len(s) \in P
  <2>1. Len(s) \in 0 .. Len(s)
    BY <1>1
  <2> QED
    BY <1>1, <1>6, <1>7, <2>1, UpTo
<1>9. Len(s) >= j
  BY <1>1
<1> QED
  BY <1>2, <1>5, <1>8, <1>9

-----------------------------------------------------------------------------
(* The first k elements of a list, for inductions over a list.               *)
FrontOf(s, k) == [i \in 1 .. k |-> s[i]]

(* One element more.                                                        *)
LEMMA FrontGrows ==
  ASSUME NEW s, IsSeq(s)
  PROVE  /\ FrontOf(s, 0) = <<>> /\ FrontOf(s, Len(s)) = s
         /\ \A k \in 1 .. Len(s) : FrontOf(s, k) = FrontOf(s, k - 1) \o <<s[k]>>
<1>1. Len(s) \in Nat /\ FrontOf(s, 0) = <<>> /\ FrontOf(s, Len(s)) = s
  BY SeqShape DEF FrontOf
<1>2. ASSUME NEW k \in 1 .. Len(s)
      PROVE  FrontOf(s, k) = FrontOf(s, k - 1) \o <<s[k]>>
  <2>1. k \in Nat /\ k \in Nat \ {0} /\ k - 1 \in Nat
    OBVIOUS
  <2> DEFINE t == FrontOf(s, k)
  <2>2. t = [i \in 1 .. k |-> t[i]]
    BY DEF FrontOf
  <2>3. [i \in 1 .. (k - 1) |-> t[i]] = FrontOf(s, k - 1) /\ t[k] = s[k]
    BY DEF FrontOf
  <2> HIDE DEF t
  <2>4. IsSeq(t) /\ Len(t) = k
    BY <2>1, <2>2, SeqOfFcn
  <2>5. t # <<>>
    BY <2>1, <2>4, EmptyIsSeq
  <2>6. t = [i \in 1 .. (k - 1) |-> t[i]] \o <<t[k]>>
    BY <2>4, <2>5, InitLast
  <2> QED
    BY <2>3, <2>6 DEF t
<1> QED
  BY <1>1, <1>2

(* Flattening the fronts of a list, one after the other.                    *)
LEMMA FlatFronts ==
  ASSUME NEW s, AreSeqs(s)
  PROVE  /\ FlattenSeq(FrontOf(s, 0)) = <<>> /\ FlattenSeq(FrontOf(s, Len(s))) = FlattenSeq(s)
         /\ \A k \in 0 .. Len(s) : AreSeqs(FrontOf(s, k)) /\ IsSeq(FlattenSeq(FrontOf(s, k)))
         /\ \A k \in 1 .. Len(s) :
              FlattenSeq(FrontOf(s, k)) = FlattenSeq(FrontOf(s, k - 1)) \o s[k]
<1>1. IsSeq(s) /\ Len(s) \in Nat /\ \A i \in 1 .. Len(s) : IsSeq(s[i])
  BY SeqShape DEF AreSeqs
<1>2. ASSUME NEW k \in 0 .. Len(s)
      PROVE  AreSeqs(FrontOf(s, k))
  <2> DEFINE t == FrontOf(s, k)
  <2>1. k \in Nat /\ t = [i \in 1 .. k |-> t[i]] /\ \A i \in 1 .. k : t[i] = s[i]
    BY DEF FrontOf
  <2>2. \A i \in 1 .. k : IsSeq(s[i])
    BY <1>1
  <2> HIDE DEF t
  <2>3. IsSeq(t) /\ Len(t) = k
    BY <2>1, SeqOfFcn
  <2>4. AreSeqs(t)
    BY <2>1, <2>2, <2>3 DEF AreSeqs
  <2> QED
    BY <2>4 DEF t
<1>3. ASSUME NEW k \in 1 .. Len(s)
      PROVE  FlattenSeq(FrontOf(s, k)) = FlattenSeq(FrontOf(s, k - 1)) \o s[k]
  <2>1. k - 1 \in 0 .. Len(s) /\ IsSeq(s[k])
    BY <1>1
  <2>2. AreSeqs(FrontOf(s, k - 1))
    BY <1>2, <2>1
  <2>3. FrontOf(s, k) = FrontOf(s, k - 1) \o <<s[k]>>
    BY <1>1, FrontGrows
  <2> QED
    BY <2>1, <2>2, <2>3, FlatLast
<1>4. ASSUME NEW k \in 0 .. Len(s)
      PROVE  IsSeq(FlattenSeq(FrontOf(s, k)))
  BY <1>2, FlatIsSeq
<1>5. FrontOf(s, 0) = <<>> /\ FrontOf(s, Len(s)) = s
  BY <1>1, FrontGrows
<1> QED
  BY <1>2, <1>3, <1>4, <1>5, FlatEmpty

(* The elements of a flattened list are those of its lists.                 *)
LEMMA FlatElems ==
  ASSUME NEW s, AreSeqs(s)
  PROVE  Elems(FlattenSeq(s)) = UNION {Elems(s[k]) : k \in 1 .. Len(s)}
<1> DEFINE F(n) == FlattenSeq(FrontOf(s, n))
           U(n) == UNION {Elems(s[k]) : k \in 1 .. n}
           P == {n \in 0 .. Len(s) : Elems(F(n)) = U(n)}
<1>1. /\ Len(s) \in Nat /\ F(0) = <<>> /\ F(Len(s)) = FlattenSeq(s)
      /\ \A k \in 0 .. Len(s) : IsSeq(F(k))
      /\ \A k \in 1 .. Len(s) : IsSeq(s[k]) /\ F(k) = F(k - 1) \o s[k]
  <2>1. Len(s) \in Nat /\ \A k \in 1 .. Len(s) : IsSeq(s[k])
    BY SeqShape DEF AreSeqs
  <2> QED
    BY <2>1, FlatFronts
<1>2. \A n : n \in P <=> n \in 0 .. Len(s) /\ Elems(F(n)) = U(n)
  OBVIOUS
<1>3. U(0) = {}
  OBVIOUS
<1>4. ASSUME NEW n \in 1 .. Len(s) PROVE U(n) = U(n - 1) \cup Elems(s[n])
  <2>1. n \in 1 .. n /\ \A k \in 1 .. n : k = n \/ k \in 1 .. (n - 1)
    OBVIOUS
  <2>2. \A k \in 1 .. (n - 1) : k \in 1 .. n
    OBVIOUS
  <2> QED
    BY <2>1, <2>2
<1> HIDE DEF F, U, P
<1>5. 0 \in P
  <2>1. Elems(<<>>) = {}
    BY EmptyIsSeq DEF Elems
  <2>2. 0 \in 0 .. Len(s)
    BY <1>1
  <2> QED
    BY <1>1, <1>2, <1>3, <2>1, <2>2
<1>6. ASSUME NEW n \in 1 .. Len(s), n - 1 \in P PROVE n \in P
  <2>1. n - 1 \in 0 .. Len(s) /\ n \in 0 .. Len(s)
    BY <1>1
  <2>2. IsSeq(F(n - 1)) /\ IsSeq(s[n]) /\ F(n) = F(n - 1) \o s[n]
    BY <1>1, <2>1
  <2>3. Elems(F(n)) = Elems(F(n - 1)) \cup Elems(s[n])
    BY <2>2, CatElems
  <2>4. Elems(F(n - 1)) = U(n - 1)
    BY <1>2, <1>6
  <2> QED
    BY <1>2, <1>4, <2>1, <2>3, <2>4
<1>7. Len(s) \in 0 .. Len(s)
  BY <1>1
<1>8. Len(s) \in P
  BY <1>1, <1>5, <1>6, <1>7, UpTo
<1> QED
  BY <1>1, <1>2, <1>8 DEF U

-----------------------------------------------------------------------------
(* Lists written out                                                        *)

LEMMA List2 ==
  \A a, b :
    /\ IsSeq(<<a, b>>) /\ Len(<<a, b>>) = 2
    /\ Elems(<<a, b>>) = {a, b}
<1> SUFFICES ASSUME NEW a, NEW b
             PROVE  /\ IsSeq(<<a, b>>) /\ Len(<<a, b>>) = 2
                    /\ Elems(<<a, b>>) = {a, b}
  OBVIOUS
<1> DEFINE t == <<a, b>>
<1>1. t \in Seq({a, b}) /\ Len(t) = 2
  OBVIOUS
<1>2. t[1] = a /\ t[2] = b
  OBVIOUS
<1>3. 1 .. 2 = {1, 2}
  OBVIOUS
<1> HIDE DEF t
<1>4. Elems(t) = {a, b}
  BY <1>1, <1>2, <1>3 DEF Elems
<1> QED
  BY <1>1, <1>4 DEF IsSeq, t

(* A list of three is a sequence of these three.                             *)
LEMMA List3 ==
  \A a, b, c :
    /\ IsSeq(<<a, b, c>>) /\ Len(<<a, b, c>>) = 3
    /\ Elems(<<a, b, c>>) = {a, b, c}
<1> SUFFICES ASSUME NEW a, NEW b, NEW c
             PROVE  /\ IsSeq(<<a, b, c>>) /\ Len(<<a, b, c>>) = 3
                    /\ Elems(<<a, b, c>>) = {a, b, c}
  OBVIOUS
<1> DEFINE t == <<a, b, c>>
<1>1. t \in Seq({a, b, c}) /\ Len(t) = 3
  OBVIOUS
<1>2. t[1] = a /\ t[2] = b /\ t[3] = c
  OBVIOUS
<1>3. 1 .. 3 = {1, 2, 3}
  OBVIOUS
<1> HIDE DEF t
<1>4. Elems(t) = {a, b, c}
  BY <1>1, <1>2, <1>3 DEF Elems
<1> QED
  BY <1>1, <1>4 DEF IsSeq, t

(* A list of four.                                                           *)
LEMMA List4 ==
  \A a, b, c, d :
    /\ IsSeq(<<a, b, c, d>>) /\ Len(<<a, b, c, d>>) = 4
    /\ Elems(<<a, b, c, d>>) = {a, b, c, d}
<1> SUFFICES ASSUME NEW a, NEW b, NEW c, NEW d
             PROVE  /\ IsSeq(<<a, b, c, d>>) /\ Len(<<a, b, c, d>>) = 4
                    /\ Elems(<<a, b, c, d>>) = {a, b, c, d}
  OBVIOUS
<1> DEFINE t == <<a, b, c, d>>
<1>1. t \in Seq({a, b, c, d}) /\ Len(t) = 4
  OBVIOUS
<1>2. t[1] = a /\ t[2] = b /\ t[3] = c /\ t[4] = d
  OBVIOUS
<1>3. 1 .. 4 = {1, 2, 3, 4}
  OBVIOUS
<1> HIDE DEF t
<1>4. Elems(t) = {a, b, c, d}
  BY <1>1, <1>2, <1>3 DEF Elems
<1> QED
  BY <1>1, <1>4 DEF IsSeq, t

(* A list of five.                                                           *)
LEMMA List5 ==
  \A a, b, c, d, e :
    /\ IsSeq(<<a, b, c, d, e>>) /\ Len(<<a, b, c, d, e>>) = 5
    /\ Elems(<<a, b, c, d, e>>) = {a, b, c, d, e}
<1> SUFFICES ASSUME NEW a, NEW b, NEW c, NEW d, NEW e
             PROVE  /\ IsSeq(<<a, b, c, d, e>>) /\ Len(<<a, b, c, d, e>>) = 5
                    /\ Elems(<<a, b, c, d, e>>) = {a, b, c, d, e}
  OBVIOUS
<1> DEFINE t == <<a, b, c, d, e>>
<1>1. t \in Seq({a, b, c, d, e}) /\ Len(t) = 5
  OBVIOUS
<1>2. t[1] = a /\ t[2] = b /\ t[3] = c /\ t[4] = d /\ t[5] = e
  OBVIOUS
<1>3. 1 .. 5 = {1, 2, 3, 4, 5}
  OBVIOUS
<1> HIDE DEF t
<1>4. Elems(t) = {a, b, c, d, e}
  BY <1>1, <1>2, <1>3 DEF Elems
<1> QED
  BY <1>1, <1>4 DEF IsSeq, t

(* A list of seven.                                                          *)
LEMMA List7 ==
  \A a, b, c, d, e, f, g :
    /\ IsSeq(<<a, b, c, d, e, f, g>>) /\ Len(<<a, b, c, d, e, f, g>>) = 7
    /\ Elems(<<a, b, c, d, e, f, g>>) = {a, b, c, d, e, f, g}
<1> SUFFICES ASSUME NEW a, NEW b, NEW c, NEW d, NEW e, NEW f, NEW g
             PROVE  /\ IsSeq(<<a, b, c, d, e, f, g>>) /\ Len(<<a, b, c, d, e, f, g>>) = 7
                    /\ Elems(<<a, b, c, d, e, f, g>>) = {a, b, c, d, e, f, g}
  OBVIOUS
<1> DEFINE t == <<a, b, c, d, e, f, g>>
<1>1. t \in Seq({a, b, c, d, e, f, g}) /\ Len(t) = 7
  OBVIOUS
<1>2. t[1] = a /\ t[2] = b /\ t[3] = c /\ t[4] = d /\ t[5] = e /\ t[6] = f /\ t[7] = g
  OBVIOUS
<1>3. 1 .. 7 = {1, 2, 3, 4, 5, 6, 7}
  OBVIOUS
<1> HIDE DEF t
<1>4. Elems(t) = {a, b, c, d, e, f, g}
  BY <1>1, <1>2, <1>3 DEF Elems
<1> QED
  BY <1>1, <1>4 DEF IsSeq, t

(* A list of nine.                                                           *)
LEMMA List9 ==
  \A a, b, c, d, e, f, g, h, i :
    /\ IsSeq(<<a, b, c, d, e, f, g, h, i>>) /\ Len(<<a, b, c, d, e, f, g, h, i>>) = 9
    /\ Elems(<<a, b, c, d, e, f, g, h, i>>) = {a, b, c, d, e, f, g, h, i}
<1> SUFFICES ASSUME NEW a, NEW b, NEW c, NEW d, NEW e, NEW f, NEW g, NEW h, NEW i
             PROVE  /\ IsSeq(<<a, b, c, d, e, f, g, h, i>>) /\ Len(<<a, b, c, d, e, f, g, h, i>>) = 9
                    /\ Elems(<<a, b, c, d, e, f, g, h, i>>) = {a, b, c, d, e, f, g, h, i}
  OBVIOUS
<1> DEFINE t == <<a, b, c, d, e, f, g, h, i>>
<1>1. t \in Seq({a, b, c, d, e, f, g, h, i}) /\ Len(t) = 9
  OBVIOUS
<1>2. t[1] = a /\ t[2] = b /\ t[3] = c /\ t[4] = d /\ t[5] = e /\ t[6] = f /\ t[7] = g /\ t[8] = h /\ t[9] = i
  OBVIOUS
<1>3. 1 .. 9 = {1, 2, 3, 4, 5, 6, 7, 8, 9}
  OBVIOUS
<1> HIDE DEF t
<1>4. Elems(t) = {a, b, c, d, e, f, g, h, i}
  BY <1>1, <1>2, <1>3 DEF Elems
<1> QED
  BY <1>1, <1>4 DEF IsSeq, t

(* A list of eleven.                                                         *)
LEMMA List11 ==
  \A a, b, c, d, e, f, g, h, i, j, k :
    /\ IsSeq(<<a, b, c, d, e, f, g, h, i, j, k>>) /\ Len(<<a, b, c, d, e, f, g, h, i, j, k>>) = 11
    /\ Elems(<<a, b, c, d, e, f, g, h, i, j, k>>) = {a, b, c, d, e, f, g, h, i, j, k}
<1> SUFFICES ASSUME NEW a, NEW b, NEW c, NEW d, NEW e, NEW f, NEW g, NEW h, NEW i, NEW j, NEW k
             PROVE  /\ IsSeq(<<a, b, c, d, e, f, g, h, i, j, k>>) /\ Len(<<a, b, c, d, e, f, g, h, i, j, k>>) = 11
                    /\ Elems(<<a, b, c, d, e, f, g, h, i, j, k>>) = {a, b, c, d, e, f, g, h, i, j, k}
  OBVIOUS
<1> DEFINE t == <<a, b, c, d, e, f, g, h, i, j, k>>
<1>1. t \in Seq({a, b, c, d, e, f, g, h, i, j, k}) /\ Len(t) = 11
  OBVIOUS
<1>2. t[1] = a /\ t[2] = b /\ t[3] = c /\ t[4] = d /\ t[5] = e /\ t[6] = f /\ t[7] = g /\ t[8] = h /\ t[9] = i /\ t[10] = j /\ t[11] = k
  OBVIOUS
<1>3. 1 .. 11 = {1, 2, 3, 4, 5, 6, 7, 8, 9, 10, 11}
  OBVIOUS
<1> HIDE DEF t
<1>4. Elems(t) = {a, b, c, d, e, f, g, h, i, j, k}
  BY <1>1, <1>2, <1>3 DEF Elems
<1> QED
  BY <1>1, <1>4 DEF IsSeq, t

(* Lists written out are lists of one after the other.                      *)
LEMMA Split2 ==
  \A a, b : <<a, b>> = <<a>> \o <<b>>
<1> SUFFICES ASSUME NEW a, NEW b PROVE <<a, b>> = <<a>> \o <<b>>
  OBVIOUS
<1> DEFINE t == <<a, b>>
           h == <<a>>
           l == <<b>>
           u == h \o l
<1>1. IsSeq(t) /\ Len(t) = 2 /\ IsSeq(h) /\ Len(h) = 1 /\ IsSeq(l) /\ Len(l) = 1
  BY List2, OneIsSeq, OneIsSeq
<1>2. /\ t[1] = a /\ t[2] = b
      /\ h[1] = a
      /\ l[1] = b
  OBVIOUS
<1> HIDE DEF t, h, l
<1>3. /\ IsSeq(u) /\ Len(u) = Len(h) + Len(l)
      /\ \A i \in 1 .. (Len(h) + Len(l)) : u[i] = IF i <= Len(h) THEN h[i] ELSE l[i - Len(h)]
  BY <1>1, Cat
<1> HIDE DEF u
<1>4. u[1] = h[1] /\ u[2] = l[1]
  BY <1>1, <1>3
<1>6. 1 .. 2 = {1, 2}
  OBVIOUS
<1>5. t = u
  BY <1>1, <1>2, <1>3, <1>4, <1>6, SameSeq
<1> QED
  BY <1>5 DEF t, u, h, l

(* A list of three is a list of two before one more.                         *)
LEMMA Split3 ==
  \A a, b, c : <<a, b, c>> = <<a, b>> \o <<c>>
<1> SUFFICES ASSUME NEW a, NEW b, NEW c PROVE <<a, b, c>> = <<a, b>> \o <<c>>
  OBVIOUS
<1> DEFINE t == <<a, b, c>>
           h == <<a, b>>
           l == <<c>>
           u == h \o l
<1>1. IsSeq(t) /\ Len(t) = 3 /\ IsSeq(h) /\ Len(h) = 2 /\ IsSeq(l) /\ Len(l) = 1
  BY List3, List2, OneIsSeq
<1>2. /\ t[1] = a /\ t[2] = b /\ t[3] = c
      /\ h[1] = a /\ h[2] = b
      /\ l[1] = c
  OBVIOUS
<1> HIDE DEF t, h, l
<1>3. /\ IsSeq(u) /\ Len(u) = Len(h) + Len(l)
      /\ \A i \in 1 .. (Len(h) + Len(l)) : u[i] = IF i <= Len(h) THEN h[i] ELSE l[i - Len(h)]
  BY <1>1, Cat
<1> HIDE DEF u
<1>4. u[1] = h[1] /\ u[2] = h[2] /\ u[3] = l[1]
  BY <1>1, <1>3
<1>6. 1 .. 3 = {1, 2, 3}
  OBVIOUS
<1>5. t = u
  BY <1>1, <1>2, <1>3, <1>4, <1>6, SameSeq
<1> QED
  BY <1>5 DEF t, u, h, l

(* The same for four.                                                        *)
LEMMA Split4 ==
  \A a, b, c, d : <<a, b, c, d>> = <<a, b, c>> \o <<d>>
<1> SUFFICES ASSUME NEW a, NEW b, NEW c, NEW d PROVE <<a, b, c, d>> = <<a, b, c>> \o <<d>>
  OBVIOUS
<1> DEFINE t == <<a, b, c, d>>
           h == <<a, b, c>>
           l == <<d>>
           u == h \o l
<1>1. IsSeq(t) /\ Len(t) = 4 /\ IsSeq(h) /\ Len(h) = 3 /\ IsSeq(l) /\ Len(l) = 1
  BY List4, List3, OneIsSeq
<1>2. /\ t[1] = a /\ t[2] = b /\ t[3] = c /\ t[4] = d
      /\ h[1] = a /\ h[2] = b /\ h[3] = c
      /\ l[1] = d
  OBVIOUS
<1> HIDE DEF t, h, l
<1>3. /\ IsSeq(u) /\ Len(u) = Len(h) + Len(l)
      /\ \A i \in 1 .. (Len(h) + Len(l)) : u[i] = IF i <= Len(h) THEN h[i] ELSE l[i - Len(h)]
  BY <1>1, Cat
<1> HIDE DEF u
<1>4. u[1] = h[1] /\ u[2] = h[2] /\ u[3] = h[3] /\ u[4] = l[1]
  BY <1>1, <1>3
<1>6. 1 .. 4 = {1, 2, 3, 4}
  OBVIOUS
<1>5. t = u
  BY <1>1, <1>2, <1>3, <1>4, <1>6, SameSeq
<1> QED
  BY <1>5 DEF t, u, h, l

(* The same for five.                                                        *)
LEMMA Split5 ==
  \A a, b, c, d, e : <<a, b, c, d, e>> = <<a, b, c, d>> \o <<e>>
<1> SUFFICES ASSUME NEW a, NEW b, NEW c, NEW d, NEW e PROVE <<a, b, c, d, e>> = <<a, b, c, d>> \o <<e>>
  OBVIOUS
<1> DEFINE t == <<a, b, c, d, e>>
           h == <<a, b, c, d>>
           l == <<e>>
           u == h \o l
<1>1. IsSeq(t) /\ Len(t) = 5 /\ IsSeq(h) /\ Len(h) = 4 /\ IsSeq(l) /\ Len(l) = 1
  BY List5, List4, OneIsSeq
<1>2. /\ t[1] = a /\ t[2] = b /\ t[3] = c /\ t[4] = d /\ t[5] = e
      /\ h[1] = a /\ h[2] = b /\ h[3] = c /\ h[4] = d
      /\ l[1] = e
  OBVIOUS
<1> HIDE DEF t, h, l
<1>3. /\ IsSeq(u) /\ Len(u) = Len(h) + Len(l)
      /\ \A i \in 1 .. (Len(h) + Len(l)) : u[i] = IF i <= Len(h) THEN h[i] ELSE l[i - Len(h)]
  BY <1>1, Cat
<1> HIDE DEF u
<1>4. u[1] = h[1] /\ u[2] = h[2] /\ u[3] = h[3] /\ u[4] = h[4] /\ u[5] = l[1]
  BY <1>1, <1>3
<1>6. 1 .. 5 = {1, 2, 3, 4, 5}
  OBVIOUS
<1>5. t = u
  BY <1>1, <1>2, <1>3, <1>4, <1>6, SameSeq
<1> QED
  BY <1>5 DEF t, u, h, l

(* The one element of a list of one.                                        *)
LEMMA ElemsOfOne == \A x : Elems(<<x>>) = {x}
<1> SUFFICES ASSUME NEW x PROVE Elems(<<x>>) = {x}
  OBVIOUS
<1> DEFINE t == <<x>>
<1>1. Len(t) = 1 /\ t[1] = x
  BY OneIsSeq
<1>2. 1 .. 1 = {1}
  OBVIOUS
<1> HIDE DEF t
<1>3. Elems(t) = {x}
  BY <1>1, <1>2 DEF Elems
<1> QED
  BY <1>3 DEF t

(* The empty list has no elements.                                           *)
LEMMA ElemsOfNone == Elems(<<>>) = {}
BY EmptyIsSeq DEF Elems

-----------------------------------------------------------------------------
(* The shape of the configurations that buildLlmNet makes                   *)

(* The lists of a segment are as long as it says, and no operation's own    *)
(* configuration is empty.                                                  *)
IsSegment(s) ==
  /\ IsSeq(s.ops) /\ s.nOps = Len(s.ops)
  /\ IsSeq(s.syncs) /\ s.nSyncs = Len(s.syncs)
  /\ IsSeq(s.cacheSyncs) /\ s.nCacheSyncs = Len(s.cacheSyncs)
  /\ \A op \in Elems(s.ops) : op.configSize \in Nat \ {0}

OpList(ops) == IsSeq(ops) /\ \A op \in Elems(ops) : op.configSize \in Nat \ {0}

SegmentList(list) == IsSeq(list) /\ \A s \in Elems(list) : IsSegment(s)

(* addOp: an empty configuration takes one byte (nn-config-builder.hpp).    *)
LEMMA OpHasConfig ==
  \A code, name, index, input, output, weightSize, config : IsSeq(config) =>
    Op(code, name, index, input, output, weightSize, config).configSize \in Nat \ {0}
<1> SUFFICES ASSUME NEW code, NEW name, NEW index, NEW input, NEW output, NEW weightSize,
                    NEW config, IsSeq(config)
             PROVE  Op(code, name, index, input, output, weightSize, config).configSize \in Nat \ {0}
  OBVIOUS
<1>1. Op(code, name, index, input, output, weightSize, config).configSize = Max({1, Len(config)})
  BY DEF Op
<1>2. Len(config) \in Nat
  BY SeqShape
<1> DEFINE n == Len(config)
<1> HIDE DEF n
<1>3. n \in Nat => \E x \in {1, n} : \A y \in {1, n} : x >= y
  <2>1. CASE n >= 1
    BY <2>1
  <2>2. CASE ~(n >= 1)
    BY <2>2
  <2> QED
    BY <2>1, <2>2
<1>4. n \in Nat => Max({1, n}) \in {1, n} /\ Max({1, n}) >= 1
  BY <1>3 DEF Max
<1> QED
  BY <1>1, <1>2, <1>4 DEF n

(* Lists of operations that each have a configuration (nn-config-builder.hpp). *)
LEMMA OpLists ==
  /\ OpList(<<>>)
  /\ \A op : op.configSize \in Nat \ {0} => OpList(<<op>>)
  /\ \A a, b : OpList(a) /\ OpList(b) => OpList(a \o b)
  /\ \A m, op : op.configSize \in Nat \ {0} => OpList(Quantized(m, op))
<1>1. OpList(<<>>)
  BY EmptyIsSeq, ElemsOfNone DEF OpList
<1>2. ASSUME NEW op, op.configSize \in Nat \ {0} PROVE OpList(<<op>>)
  BY <1>2, OneIsSeq, ElemsOfOne DEF OpList
<1>3. ASSUME NEW a, NEW b, OpList(a), OpList(b) PROVE OpList(a \o b)
  <2>1. IsSeq(a) /\ IsSeq(b)
    BY <1>3 DEF OpList
  <2>2. IsSeq(a \o b) /\ Elems(a \o b) = Elems(a) \cup Elems(b)
    BY <2>1, Cat, CatElems
  <2> QED
    BY <1>3, <2>2 DEF OpList
<1>4. ASSUME NEW m, NEW op, op.configSize \in Nat \ {0} PROVE OpList(Quantized(m, op))
  BY <1>1, <1>2, <1>4 DEF Quantized
<1> QED
  BY <1>1, <1>2, <1>3, <1>4

(* The configurations of operations are lists.                              *)
LEMMA OpsHaveConfig ==
  ASSUME NEW m
  PROVE  /\ \A name, l, input, output : Cast(name, l, input, output).configSize \in Nat \ {0}
         /\ \A name, l : MergeAdd(m, name, l).configSize \in Nat \ {0}
         /\ \A a, b, l : OpList(Norm(m, a, b, l))
         /\ \A name, l, slice, input, output :
              Matmul(m, name, l, slice, input, output).configSize \in Nat \ {0}
         /\ \A node, name, l, buffer, isQ :
              Rope(m, node, name, l, buffer, isQ).configSize \in Nat \ {0}
         /\ \A name, l, input, buffer : Shift(m, name, l, input, buffer).configSize \in Nat \ {0}
         /\ \A l : MultiHeadAtt(m, l).configSize \in Nat \ {0}
<1>1. IsSeq(<<>>) /\ (\A a : IsSeq(<<a>>)) /\ (\A a, b, c, d : IsSeq(<<a, b, c, d>>))
      /\ \A a, b, c, d, e, f, g : IsSeq(<<a, b, c, d, e, f, g>>)
  BY EmptyIsSeq, OneIsSeq, List4, List7
<1>2. \A a, b, l : OpList(Norm(m, a, b, l))
  <2> SUFFICES ASSUME NEW a, NEW b, NEW l PROVE OpList(Norm(m, a, b, l))
    OBVIOUS
  <2> DEFINE x == Op("OP_INV_RMS", a, l, InBuffer(m, "x"), InBuffer(m, "inv_rms"), size0, <<>>)
             y == Op("OP_RMS_NORM", b, l, InBuffer(m, "x"), InBuffer(m, "y"),
                     size2D("F_32", 1, m.dim), <<BufferIndex(m, "inv_rms")>>)
  <2>1. x.configSize \in Nat \ {0} /\ y.configSize \in Nat \ {0}
    BY <1>1, OpHasConfig
  <2>2. Norm(m, a, b, l) = <<x, y>>
    BY DEF Norm
  <2> HIDE DEF x, y
  <2>3. IsSeq(<<x, y>>) /\ Elems(<<x, y>>) = {x, y}
    BY List2
  <2> QED
    BY <2>1, <2>2, <2>3 DEF OpList
<1>3. \A name, l, input, output : Cast(name, l, input, output).configSize \in Nat \ {0}
  BY <1>1, OpHasConfig DEF Cast
<1>4. \A name, l : MergeAdd(m, name, l).configSize \in Nat \ {0}
  BY <1>1, OpHasConfig DEF MergeAdd
<1>5. \A name, l, slice, input, output :
        Matmul(m, name, l, slice, input, output).configSize \in Nat \ {0}
  BY <1>1, OpHasConfig DEF Matmul
<1>6. \A node, name, l, buffer, isQ : Rope(m, node, name, l, buffer, isQ).configSize \in Nat \ {0}
  BY <1>1, OpHasConfig DEF Rope
<1>7. \A name, l, input, buffer : Shift(m, name, l, input, buffer).configSize \in Nat \ {0}
  BY <1>1, OpHasConfig DEF Shift
<1>8. \A l : MultiHeadAtt(m, l).configSize \in Nat \ {0}
  BY <1>1, OpHasConfig DEF MultiHeadAtt
<1> QED
  BY <1>2, <1>3, <1>4, <1>5, <1>6, <1>7, <1>8

LastWeight(m) == Len(Weights(m))

-----------------------------------------------------------------------------
(* The shape of all the lists of a configuration                            *)

(* A function over 1 .. n is a list.                                        *)
LEMMA TableIsSeq ==
  ASSUME NEW n \in Nat, NEW f, f = [i \in 1 .. n |-> f[i]], \A i \in 1 .. n : IsSeq(f[i])
  PROVE  AreSeqs(f) /\ IsSeq(f) /\ Len(f) = n
<1>1. IsSeq(f) /\ Len(f) = n
  BY SeqOfFcn
<1> QED
  BY <1>1 DEF AreSeqs

(* The operations of the segments (llm.cpp:225-434).                        *)
LEMMA SegmentOps ==
  ASSUME NEW m, NEW node, NEW l
  PROVE  /\ OpList(AttOps(m, node, l)) /\ OpList(FfOps(m, l)) /\ OpList(EndOps(m))
         /\ OpList(StartOps(m, node))
<1>1. /\ \A name, i, input, output : Cast(name, i, input, output).configSize \in Nat \ {0}
      /\ \A name, i : MergeAdd(m, name, i).configSize \in Nat \ {0}
      /\ \A a, b, i : OpList(Norm(m, a, b, i))
      /\ \A name, i, slice, input, output :
           Matmul(m, name, i, slice, input, output).configSize \in Nat \ {0}
      /\ \A name, i, buffer, isQ : Rope(m, node, name, i, buffer, isQ).configSize \in Nat \ {0}
      /\ \A name, i, input, buffer : Shift(m, name, i, input, buffer).configSize \in Nat \ {0}
      /\ \A i : MultiHeadAtt(m, i).configSize \in Nat \ {0}
  BY OpsHaveConfig
<1>2. /\ \A op : op.configSize \in Nat \ {0} => OpList(<<op>>)
      /\ \A a, b : OpList(a) /\ OpList(b) => OpList(a \o b)
      /\ \A op : op.configSize \in Nat \ {0} => OpList(Quantized(m, op))
      /\ OpList(<<>>)
  BY OpLists
<1>3. OpList(AttOps(m, node, l))
  <2> DEFINE a == IF l = 0 THEN Cast("block_cast_x", l, InPipe(m, "X"), InBuffer(m, "x"))
                           ELSE MergeAdd(m, "block_merge_add", l)
             b == Norm(m, "block_inv_rms_0", "block_rms_norm_0", l)
             c == Quantized(m, Cast("block_cast_y", l, InBuffer(m, "y"), InBuffer(m, "yq")))
             d1 == Matmul(m, "block_matmul_q", l, Slice(m).q, "yq", "q")
             d2 == Matmul(m, "block_matmul_k", l, Slice(m).k, "yq", "k_temp")
             d3 == Matmul(m, "block_matmul_v", l, Slice(m).v, "yq", "v_temp")
             d4 == Rope(m, node, "block_rope_q", l, "q", TRUE)
             d5 == Rope(m, node, "block_rope_k", l, "k_temp", FALSE)
             d6 == Shift(m, "block_shift_k", l, "k_temp", KBuffer(m, l))
             d7 == Shift(m, "block_shift_v", l, "v_temp", VBuffer(m, l))
             d8 == MultiHeadAtt(m, l)
             d9 == Cast("block_cast_y2", l, Part(InBuffer(m, "y")), InBuffer(m, "yq_slice"))
             d10 == Matmul(m, "block_matmul_wo", l, Slice(m).wo, "yq_slice", "y")
             d11 == Cast("block_cast_d", l, InBuffer(m, "y"), Part(InPipe(m, "ZQ")))
             d == <<d1, d2, d3, d4, d5, d6, d7, d8, d9, d10, d11>>
  <2>1. a.configSize \in Nat \ {0} /\ OpList(b) /\ OpList(c)
    BY <1>1, <1>2
  <2>2. d1.configSize \in Nat \ {0} /\ d2.configSize \in Nat \ {0} /\ d3.configSize \in Nat \ {0}
        /\ d4.configSize \in Nat \ {0} /\ d5.configSize \in Nat \ {0} /\ d6.configSize \in Nat \ {0}
        /\ d7.configSize \in Nat \ {0} /\ d8.configSize \in Nat \ {0} /\ d9.configSize \in Nat \ {0}
        /\ d10.configSize \in Nat \ {0} /\ d11.configSize \in Nat \ {0}
    BY <1>1
  <2>3. AttOps(m, node, l) = ((<<a>> \o b) \o c) \o d
    BY DEF AttOps
  <2> HIDE DEF a, b, c, d1, d2, d3, d4, d5, d6, d7, d8, d9, d10, d11
  <2>4. IsSeq(d) /\ Elems(d) = {d1, d2, d3, d4, d5, d6, d7, d8, d9, d10, d11}
    BY List11
  <2>5. OpList(d)
    BY <2>2, <2>4 DEF OpList
  <2> HIDE DEF d
  <2>6. OpList(<<a>>)
    BY <2>1, <1>2
  <2>7. OpList(<<a>> \o b)
    BY <2>1, <2>6, <1>2
  <2>8. OpList((<<a>> \o b) \o c)
    BY <2>1, <2>7, <1>2
  <2> QED
    BY <2>3, <2>5, <2>8, <1>2
<1>4. OpList(FfOps(m, l))
  <2> DEFINE a == MergeAdd(m, "block_merge_add2", l)
             b == Norm(m, "block_inv_rms_1", "block_rms_norm_1", l)
             c == Quantized(m, Cast("block_cast_y3", l, InBuffer(m, "y"), InBuffer(m, "yq")))
             d1 == Matmul(m, "block_matmul_w1", l, Slice(m).w1, "yq", "d")
             d2 == Matmul(m, "block_matmul_w3", l, Slice(m).w3, "yq", "l")
             d3 == Op("OP_SILU", "block_act", l, InBuffer(m, "d"), InBuffer(m, "d"), size0, <<>>)
             d4 == Op("OP_MUL", "block_mul", l, InBuffer(m, "d"), InBuffer(m, "d"), size0,
                      <<BufferIndex(m, "l")>>)
             d == <<d1, d2, d3, d4>>
             e == Quantized(m, Cast("block_cast_d2", l, InBuffer(m, "d"), InBuffer(m, "dq")))
             f1 == Matmul(m, "block_matmul_w2", l, Slice(m).w2, "dq", "y")
             f2 == Cast("block_cast_d3", l, InBuffer(m, "y"), Part(InPipe(m, "ZQ")))
             f == <<f1, f2>>
  <2>1. a.configSize \in Nat \ {0} /\ OpList(b) /\ OpList(c) /\ OpList(e)
    BY <1>1, <1>2
  <2>2. d1.configSize \in Nat \ {0} /\ d2.configSize \in Nat \ {0}
        /\ d3.configSize \in Nat \ {0} /\ d4.configSize \in Nat \ {0}
        /\ f1.configSize \in Nat \ {0} /\ f2.configSize \in Nat \ {0}
    <3>1. IsSeq(<<>>) /\ IsSeq(<<BufferIndex(m, "l")>>)
      BY EmptyIsSeq, OneIsSeq
    <3> QED
      BY <3>1, <1>1, OpHasConfig
  <2>3. FfOps(m, l) = ((((<<a>> \o b) \o c) \o d) \o e) \o f
    BY DEF FfOps
  <2> HIDE DEF a, b, c, d1, d2, d3, d4, e, f1, f2
  <2>4. IsSeq(d) /\ Elems(d) = {d1, d2, d3, d4} /\ IsSeq(f) /\ Elems(f) = {f1, f2}
    BY List4, List2
  <2>5. OpList(d) /\ OpList(f)
    BY <2>2, <2>4 DEF OpList
  <2> HIDE DEF d, f
  <2>6. OpList(<<a>>)
    BY <2>1, <1>2
  <2>7. OpList(<<a>> \o b)
    BY <2>1, <2>6, <1>2
  <2>8. OpList((<<a>> \o b) \o c)
    BY <2>1, <2>7, <1>2
  <2>9. OpList(((<<a>> \o b) \o c) \o d)
    BY <2>5, <2>8, <1>2
  <2>10. OpList((((<<a>> \o b) \o c) \o d) \o e)
    BY <2>1, <2>9, <1>2
  <2> QED
    BY <2>3, <2>5, <2>10, <1>2
<1>5. OpList(EndOps(m))
  <2> DEFINE a == MergeAdd(m, "final_merge_add", 0)
             b == Norm(m, "final_inv_rms", "final_rms_norm", 0)
             c == Quantized(m, Cast("final_cast_y", 0, InBuffer(m, "y"), InBuffer(m, "yq")))
             f1 == Matmul(m, "final_matmul_logits", 0, Slice(m).wcls, "yq", "lg")
             f2 == Cast("final_cast_logits", 0, InBuffer(m, "lg"), Part(InPipe(m, "LG")))
             f == <<f1, f2>>
  <2>1. a.configSize \in Nat \ {0} /\ OpList(b) /\ OpList(c)
    BY <1>1, <1>2
  <2>2. f1.configSize \in Nat \ {0} /\ f2.configSize \in Nat \ {0}
    BY <1>1
  <2>3. EndOps(m) = ((<<a>> \o b) \o c) \o f
    BY DEF EndOps
  <2> HIDE DEF a, b, c, f1, f2
  <2>4. IsSeq(f) /\ Elems(f) = {f1, f2}
    BY List2
  <2>5. OpList(f)
    BY <2>2, <2>4 DEF OpList
  <2> HIDE DEF f
  <2>6. OpList(<<a>>)
    BY <2>1, <1>2
  <2>7. OpList(<<a>> \o b)
    BY <2>1, <2>6, <1>2
  <2>8. OpList((<<a>> \o b) \o c)
    BY <2>1, <2>7, <1>2
  <2> QED
    BY <2>3, <2>5, <2>8, <1>2
<1>6. OpList(StartOps(m, node))
  <2> DEFINE a == Op("OP_EMBEDDING", "embedding", 0, InPipe(m, "TOK"), InPipe(m, "X"),
                     size2D("F_32", m.vocabSize, m.dim), <<>>)
  <2>1. a.configSize \in Nat \ {0}
    BY EmptyIsSeq, OpHasConfig
  <2>2. StartOps(m, node) = IF node = 0 THEN <<a>> ELSE <<>>
    BY DEF StartOps
  <2> HIDE DEF a
  <2> QED
    BY <2>1, <2>2, <1>2
<1> QED
  BY <1>3, <1>4, <1>5, <1>6

(* The segments are lists of their operations and synchronisations.         *)
LEMMA SegmentShape ==
  /\ \A ops, syncs, caches : OpList(ops) /\ IsSeq(syncs) /\ IsSeq(caches)
                             => IsSegment(Segment(ops, syncs, caches))
  /\ \A m, pipe, type : IsSeq(Sync(m, pipe, type))
  /\ \A m, l : IsSeq(KvSyncs(m, l))
<1>1. \A ops, syncs, caches : OpList(ops) /\ IsSeq(syncs) /\ IsSeq(caches)
                              => IsSegment(Segment(ops, syncs, caches))
  BY DEF OpList, IsSegment, Segment
<1>2. \A m, pipe, type : IsSeq(Sync(m, pipe, type))
  BY OneIsSeq DEF Sync
<1>3. ASSUME NEW m, NEW l PROVE IsSeq(KvSyncs(m, l))
  <2> DEFINE t == KvSyncs(m, l)
  <2>1. t = [i \in 1 .. 4 |-> t[i]]
    BY DEF KvSyncs
  <2> HIDE DEF t
  <2>2. IsSeq(t)
    BY <2>1, SeqOfFcn
  <2> QED
    BY <2>2 DEF t
<1> QED
  BY <1>1, <1>2, <1>3

(* The segments of a node are well formed (llm.cpp:217-434).                 *)
LEMMA SegmentsShape ==
  ASSUME NEW m, NEW node, m.nLayers \in Nat
  PROVE  SegmentList(Segments(m, node))
<1> DEFINE start == Start(m, node)
           layers == [l \in 1 .. m.nLayers |-> Layer(m, node, l - 1)]
           end == Segment(EndOps(m), Sync(m, "LG", "SYNC_NODE_SLICES_EXCEPT_ROOT"), <<>>)
<1>1. IsSegment(start) /\ IsSegment(end)
  BY SegmentOps, SegmentShape, EmptyIsSeq DEF Start
<1>2. ASSUME NEW l PROVE IsSeq(Layer(m, node, l)) /\ \A s \in Elems(Layer(m, node, l)) : IsSegment(s)
  <2> DEFINE a == Segment(AttOps(m, node, l), Sync(m, "ZQ", "SYNC_NODE_SLICES"), KvSyncs(m, l))
             b == Segment(FfOps(m, l), Sync(m, "ZQ", "SYNC_NODE_SLICES"), <<>>)
  <2>1. IsSegment(a) /\ IsSegment(b)
    BY SegmentOps, SegmentShape, EmptyIsSeq
  <2>2. Layer(m, node, l) = <<a, b>>
    BY DEF Layer
  <2> HIDE DEF a, b
  <2> QED
    BY <2>1, <2>2, List2
<1>3. AreSeqs(layers) /\ Len(layers) = m.nLayers
  <2>1. layers = [l \in 1 .. m.nLayers |-> layers[l]] /\ \A l \in 1 .. m.nLayers : IsSeq(layers[l])
    BY <1>2
  <2> HIDE DEF layers
  <2> QED
    BY <2>1, TableIsSeq
<1>4. \A l \in 1 .. m.nLayers : \A s \in Elems(layers[l]) : IsSegment(s)
  BY <1>2
<1>5. Segments(m, node) = (<<start>> \o FlattenSeq(layers)) \o <<end>>
  BY DEF Segments
<1> HIDE DEF start, layers, end
<1>6. IsSeq(FlattenSeq(layers)) /\ Elems(FlattenSeq(layers)) = UNION {Elems(layers[l]) : l \in 1 .. m.nLayers}
  BY <1>3, FlatElems, FlatIsSeq
<1>7. IsSeq(<<start>>) /\ IsSeq(<<end>>) /\ Elems(<<start>>) = {start} /\ Elems(<<end>>) = {end}
  BY OneIsSeq, ElemsOfOne
<1> DEFINE x == <<start>>
           y == FlattenSeq(layers)
           z == <<end>>
<1> HIDE DEF x, y, z
<1>8. IsSeq(x \o y) /\ Elems(x \o y) = Elems(x) \cup Elems(y)
  BY <1>6, <1>7, Cat, CatElems DEF x, y
<1>9. IsSeq((x \o y) \o z) /\ Elems((x \o y) \o z) = Elems(x) \cup Elems(y) \cup Elems(z)
  BY <1>7, <1>8, Cat, CatElems DEF z
<1>10. \A s \in Elems(x) \cup Elems(y) \cup Elems(z) : IsSegment(s)
  BY <1>1, <1>4, <1>6, <1>7 DEF x, y, z
<1> QED
  BY <1>5, <1>9, <1>10 DEF SegmentList, x, y, z

(* What buildLlmNet makes for a node (llm.cpp:132-447).                     *)
ConfigShape(net, node) ==
  /\ IsSeq(net.pipes) /\ net.nPipes = Len(net.pipes)
  /\ IsSeq(net.preSyncs) /\ net.nPreSyncs = Len(net.preSyncs)
  /\ IsSeq(node.buffers) /\ node.nBuffers = Len(node.buffers)
  /\ IsSeq(node.segments) /\ node.nSegments = Len(node.segments)
  /\ \A s \in 1 .. Len(node.segments) : IsSegment(node.segments[s])

(* The configurations of a network and its nodes are well formed (llm.cpp:132-447). *)
LEMMA ConfigsShape ==
  ASSUME NEW m, NEW w, m.nLayers \in Nat
  PROVE  ConfigShape(NetConfig(m), NodeConfig(m, w))
<1>1. IsSeq(Pipes(m))
  <2>1. \A a, b, c, d, e : IsSeq(<<a, b, c, d, e>>)
    BY List5
  <2> QED
    BY <2>1 DEF Pipes
<1>2. \A x : IsSeq(<<x>>) /\ Len(<<x>>) = 1
  BY OneIsSeq
<1>3. IsSeq(Buffers(m, w))
  <2> DEFINE names == BufferNames(m)
             shared == SharedBuffers(m, w)
             layers == [l \in 1 .. m.nLayers |-> LayerBuffers(m)]
  <2>1. IsSeq(names)
    <3>1. \A x : IsSeq(Quantized(m, x))
      BY EmptyIsSeq, OneIsSeq DEF Quantized
    <3> DEFINE a == <<"x", "y">>
               b == Quantized(m, "yq")
               c == <<"yq_slice", "q", "k_temp", "v_temp", "d">>
               d == Quantized(m, "dq")
               e == <<"l", "inv_rms", "rope_cache", "att", "lg">>
    <3>2. IsSeq(a) /\ IsSeq(b) /\ IsSeq(c) /\ IsSeq(d) /\ IsSeq(e)
      BY <3>1, List2, List5
    <3>3. names = (((a \o b) \o c) \o d) \o e
      BY DEF BufferNames
    <3> HIDE DEF a, b, c, d, e, names
    <3>4. IsSeq(a \o b)
      BY <3>2, Cat
    <3>5. IsSeq((a \o b) \o c)
      BY <3>2, <3>4, Cat
    <3>6. IsSeq(((a \o b) \o c) \o d)
      BY <3>2, <3>5, Cat
    <3> QED
      BY <3>2, <3>3, <3>6, Cat
  <2>2. Len(names) \in Nat /\ DOMAIN names = 1 .. Len(names)
    BY <2>1, SeqShape
  <2>3. shared = [i \in 1 .. Len(names) |-> shared[i]]
    BY <2>2 DEF SharedBuffers
  <2>4. IsSeq(shared)
    <3> HIDE DEF shared, names
    <3> QED
      BY <2>2, <2>3, SeqOfFcn
  <2>5. IsSeq(LayerBuffers(m))
    <3>1. \A a, b : IsSeq(<<a, b>>)
      BY List2
    <3> QED
      BY <3>1 DEF LayerBuffers
  <2>6. AreSeqs(layers)
    <3>1. layers = [l \in 1 .. m.nLayers |-> layers[l]] /\ \A l \in 1 .. m.nLayers : IsSeq(layers[l])
      BY <2>5
    <3> HIDE DEF layers
    <3> QED
      BY <3>1, TableIsSeq
  <2>7. IsSeq(FlattenSeq(layers))
    <3> HIDE DEF layers
    <3> QED
      BY <2>6, FlatIsSeq
  <2>8. Buffers(m, w) = shared \o FlattenSeq(layers)
    BY DEF Buffers
  <2> HIDE DEF shared, layers
  <2> QED
    BY <2>4, <2>7, <2>8, Cat
<1>4. IsSeq(Segments(m, w)) /\ \A s \in 1 .. Len(Segments(m, w)) : IsSegment(Segments(m, w)[s])
  BY SegmentsShape DEF SegmentList, Elems
<1> QED
  BY <1>1, <1>2, <1>3, <1>4 DEF ConfigShape, NetConfig, NodeConfig

-----------------------------------------------------------------------------
(* More about flattening, and the list of the weights (llm.cpp:456-492)      *)

(* Lists that are all empty are nothing one after the other.                *)
LEMMA FlatNone ==
  ASSUME NEW s, AreSeqs(s), \A i \in 1 .. Len(s) : s[i] = <<>>
  PROVE  FlattenSeq(s) = <<>>
<1>1. Len(s) \in Nat /\ (Len(s) = 0 => s = <<>>)
  BY SeqShape DEF AreSeqs
<1>2. CASE Len(s) = 0
  BY <1>1, <1>2, FlatEmpty
<1>3. CASE Len(s) # 0
  <2>1. 1 \in 1 .. Len(s)
    BY <1>1, <1>3
  <2> QED
    BY <2>1, FlatOnly
<1> QED
  BY <1>2, <1>3

(* The first list of several, and the others.                               *)
LEMMA FlatShift ==
  ASSUME NEW n \in Nat \ {0}, NEW g, \A i \in 1 .. n : IsSeq(g[i])
  PROVE  FlattenSeq([i \in 1 .. n |-> g[i]]) = g[1] \o FlattenSeq([i \in 1 .. (n - 1) |-> g[i + 1]])
<1> DEFINE s == [i \in 1 .. n |-> g[i]]
           t == [i \in 1 .. (n - 1) |-> g[i + 1]]
           one == <<g[1]>>
<1>1. AreSeqs(s) /\ Len(s) = n /\ AreSeqs(t) /\ Len(t) = n - 1
  <2>1. s = [i \in 1 .. n |-> s[i]] /\ \A i \in 1 .. n : IsSeq(s[i])
    OBVIOUS
  <2>2. t = [i \in 1 .. (n - 1) |-> t[i]] /\ (\A i \in 1 .. (n - 1) : IsSeq(t[i])) /\ n - 1 \in Nat
    OBVIOUS
  <2> HIDE DEF s, t
  <2> QED
    BY <2>1, <2>2, TableIsSeq
<1>2. \A i \in 1 .. n : s[i] = g[i]
  OBVIOUS
<1>3. \A i \in 1 .. (n - 1) : t[i] = g[i + 1]
  OBVIOUS
<1>4. 1 \in 1 .. n /\ IsSeq(g[1])
  OBVIOUS
<1> HIDE DEF s, t
<1>5. IsSeq(one) /\ Len(one) = 1 /\ one[1] = g[1] /\ FlattenSeq(one) = g[1] /\ AreSeqs(one)
  BY <1>4, FlatOne, OneIsSeq
<1> HIDE DEF one
<1>6. s = one \o t
  <2>0. IsSeq(t)
    BY <1>1 DEF AreSeqs
  <2> DEFINE u == one \o t
  <2>1. /\ IsSeq(u) /\ Len(u) = Len(one) + Len(t)
        /\ \A i \in 1 .. (Len(one) + Len(t)) : u[i] = IF i <= Len(one) THEN one[i] ELSE t[i - Len(one)]
    BY <1>5, <2>0, Cat
  <2> HIDE DEF u
  <2>2. IsSeq(u) /\ Len(u) = n /\ \A i \in 1 .. n : u[i] = IF i <= 1 THEN one[i] ELSE t[i - 1]
    BY <1>1, <1>5, <2>1
  <2>3. ASSUME NEW i \in 1 .. n PROVE s[i] = u[i]
    <3>1. CASE i = 1
      BY <1>2, <1>5, <2>2, <3>1
    <3>2. CASE i # 1
      <4>1. i - 1 \in 1 .. (n - 1) /\ (i - 1) + 1 = i /\ ~(i <= 1)
        BY <3>2
      <4>2. u[i] = t[i - 1] /\ t[i - 1] = g[(i - 1) + 1]
        BY <1>3, <2>2, <4>1
      <4> QED
        BY <1>2, <4>1, <4>2
    <3> QED
      BY <3>1, <3>2
  <2>4. s = u
    BY <1>1, <2>2, <2>3, SameSeq DEF AreSeqs
  <2> QED
    BY <2>4 DEF u
<1>7. FlattenSeq(one \o t) = FlattenSeq(one) \o FlattenSeq(t)
  BY <1>1, <1>5, FlatCat
<1> QED
  BY <1>5, <1>6, <1>7 DEF s, t

(* The weights of the file: the embedding, those of the layers, two more    *)
(* (llm.cpp:456-492).  Only the embedding stays with the root.              *)
LEMMA WeightsShape ==
  ASSUME NEW m, m.nLayers \in Nat
  PROVE  /\ IsSeq(Weights(m)) /\ Len(Weights(m)) \in Nat \ {0, 1}
         /\ Weights(m)[1].slice.how = "root" /\ Weights(m)[1].name = "embedding" /\ Weights(m)[1].index = 0
         /\ \A k \in 2 .. Len(Weights(m)) : Weights(m)[k].slice.how # "root"
<1> DEFINE first == Weight("embedding", 0, Whole("root", size2D("F_32", m.vocabSize, m.dim)))
           layers == [l \in 1 .. m.nLayers |-> LayerWeights(m, l - 1)]
           y1 == Weight("final_rms_norm", 0, Whole("all", size2D("F_32", 1, m.dim)))
           y2 == Weight("final_matmul_logits", 0, Slice(m).wcls)
           a == <<first>>
           b == FlattenSeq(layers)
           c == <<y1, y2>>
           NotRoot(x) == x.slice.how # "root"
<1>1. first.slice.how = "root" /\ first.name = "embedding" /\ first.index = 0
  BY DEF Weight, Whole
<1>2. NotRoot(y1) /\ NotRoot(y2)
  BY DEF Weight, Whole, Slice, sliceRowMatmul
<1>3. ASSUME NEW l \in 1 .. m.nLayers
      PROVE  IsSeq(layers[l]) /\ \A x \in Elems(layers[l]) : NotRoot(x)
  <2> DEFINE k == l - 1
             w1 == Weight("block_matmul_q", k, Slice(m).q)
             w2 == Weight("block_matmul_k", k, Slice(m).k)
             w3 == Weight("block_matmul_v", k, Slice(m).v)
             w4 == Weight("block_matmul_wo", k, Slice(m).wo)
             w5 == Weight("block_matmul_w1", k, Slice(m).w1)
             w6 == Weight("block_matmul_w2", k, Slice(m).w2)
             w7 == Weight("block_matmul_w3", k, Slice(m).w3)
             w8 == Weight("block_rms_norm_0", k, Whole("all", size2D("F_32", 1, m.dim)))
             w9 == Weight("block_rms_norm_1", k, Whole("all", size2D("F_32", 1, m.dim)))
  <2>1. layers[l] = <<w1, w2, w3, w4, w5, w6, w7, w8, w9>>
    BY DEF LayerWeights
  <2>2. /\ NotRoot(w1) /\ NotRoot(w2) /\ NotRoot(w3) /\ NotRoot(w4) /\ NotRoot(w5) /\ NotRoot(w6)
        /\ NotRoot(w7) /\ NotRoot(w8) /\ NotRoot(w9)
    BY DEF Weight, Whole, Slice, sliceRowMatmul, sliceColMatmul
  <2> HIDE DEF layers, NotRoot, w1, w2, w3, w4, w5, w6, w7, w8, w9
  <2>3. IsSeq(layers[l]) /\ Elems(layers[l]) = {w1, w2, w3, w4, w5, w6, w7, w8, w9}
    BY <2>1, List9
  <2> QED
    BY <2>2, <2>3
<1>4. layers = [l \in 1 .. m.nLayers |-> layers[l]]
  OBVIOUS
<1>5. Weights(m) = (a \o b) \o c
  BY DEF Weights
<1> HIDE DEF first, layers, y1, y2, NotRoot
<1>6. AreSeqs(layers) /\ Len(layers) = m.nLayers
  BY <1>3, <1>4, TableIsSeq
<1>7. IsSeq(b) /\ Elems(b) = UNION {Elems(layers[l]) : l \in 1 .. m.nLayers}
  BY <1>6, FlatIsSeq, FlatElems
<1>8. \A x \in Elems(b) : NotRoot(x)
  BY <1>3, <1>7
<1>9. IsSeq(a) /\ Len(a) = 1 /\ a[1] = first /\ IsSeq(c) /\ Len(c) = 2 /\ Elems(c) = {y1, y2}
  BY OneIsSeq, List2
<1> HIDE DEF a, b, c
<1> DEFINE t == b \o c
           s == a \o t
<1>10. IsSeq(t) /\ Elems(t) = Elems(b) \cup Elems(c) /\ Len(t) = Len(b) + 2 /\ Len(b) \in Nat
  <2>1. IsSeq(t) /\ Len(t) = Len(b) + Len(c)
    BY <1>7, <1>9, Cat
  <2>2. Elems(t) = Elems(b) \cup Elems(c)
    BY <1>7, <1>9, CatElems
  <2>3. Len(b) \in Nat
    BY <1>7, SeqShape
  <2> QED
    BY <1>9, <2>1, <2>2, <2>3
<1>11. Weights(m) = s
  BY <1>5, <1>7, <1>9, CatAssoc
<1>12. \A x \in Elems(t) : NotRoot(x)
  BY <1>2, <1>8, <1>9, <1>10
<1>13. Len(t) \in Nat \ {0}
  BY <1>10
<1> HIDE DEF t
<1>14. /\ IsSeq(s) /\ Len(s) = Len(a) + Len(t)
       /\ \A i \in 1 .. (Len(a) + Len(t)) : s[i] = IF i <= Len(a) THEN a[i] ELSE t[i - Len(a)]
  BY <1>9, <1>10, Cat
<1> HIDE DEF s
<1>15. Len(s) \in Nat \ {0, 1} /\ s[1] = first
  BY <1>9, <1>13, <1>14
<1>16. ASSUME NEW k \in 2 .. Len(s) PROVE NotRoot(s[k])
  <2>1. k - 1 \in 1 .. Len(t) /\ s[k] = t[k - 1]
    BY <1>9, <1>13, <1>14
  <2>2. t[k - 1] \in Elems(t)
    BY <2>1 DEF Elems
  <2> QED
    BY <1>12, <2>1, <2>2
<1> QED
  BY <1>1, <1>11, <1>14, <1>15, <1>16 DEF NotRoot

-----------------------------------------------------------------------------
(* Where the segments are                                                   *)

(* c is a list of p elements before a list of q.                            *)
JoinedAt(a, b, c, p, q) ==
  /\ IsSeq(c) /\ Len(c) = p + q
  /\ \A i \in 1 .. p : c[i] = a[i]
  /\ \A i \in 1 .. q : c[p + i] = b[i]

(* The elements of a concatenation, those of each list by themselves.       *)
LEMMA CatAt ==
  ASSUME NEW a, NEW b, IsSeq(a), IsSeq(b), NEW p \in Nat, NEW q \in Nat, Len(a) = p, Len(b) = q
  PROVE  JoinedAt(a, b, a \o b, p, q)
<1> DEFINE c == a \o b
<1>1. /\ IsSeq(c) /\ Len(c) = Len(a) + Len(b)
      /\ \A i \in 1 .. (Len(a) + Len(b)) : c[i] = IF i <= Len(a) THEN a[i] ELSE b[i - Len(a)]
  BY Cat
<1> HIDE DEF c
<1>2. \A i \in 1 .. (p + q) : c[i] = IF i <= p THEN a[i] ELSE b[i - p]
  BY <1>1
<1>3. ASSUME NEW i \in 1 .. p PROVE c[i] = a[i]
  <2>1. i \in 1 .. (p + q) /\ i <= p
    OBVIOUS
  <2> QED
    BY <1>2, <2>1
<1>4. ASSUME NEW i \in 1 .. q PROVE c[p + i] = b[i]
  <2>1. p + i \in 1 .. (p + q) /\ ~(p + i <= p) /\ (p + i) - p = i
    OBVIOUS
  <2> QED
    BY <1>2, <2>1
<1> QED
  BY <1>1, <1>3, <1>4 DEF JoinedAt, c

PairAt(s, all, l) == all[2 * l - 1] = s[l][1] /\ all[2 * l] = s[l][2]

(* A list of pairs, one after the other.                                    *)
LEMMA FlatPairs ==
  ASSUME NEW n \in Nat, NEW s, AreSeqs(s), Len(s) = n, \A l \in 1 .. n : Len(s[l]) = 2
  PROVE  /\ Len(FlattenSeq(s)) = 2 * n
         /\ \A l \in 1 .. n : PairAt(s, FlattenSeq(s), l)
<1> DEFINE F(k) == FlattenSeq(FrontOf(s, k))
           OK(k) == Len(F(k)) = 2 * k /\ \A l \in 1 .. k : PairAt(s, F(k), l)
           P == {k \in 0 .. n : OK(k)}
<1>1. /\ F(0) = <<>> /\ F(n) = FlattenSeq(s)
      /\ \A k \in 0 .. n : IsSeq(F(k))
      /\ \A k \in 1 .. n : F(k) = F(k - 1) \o s[k]
  BY FlatFronts
<1>2. 0 \in P
  <2>1. Len(<<>>) = 0
    OBVIOUS
  <2> QED
    BY <1>1, <2>1
<1>3. ASSUME NEW k \in 1 .. n, k - 1 \in P PROVE k \in P
  <2>1. OK(k - 1)
    BY <1>3
  <2>2. IsSeq(F(k - 1)) /\ IsSeq(s[k]) /\ Len(s[k]) = 2
    BY <1>1 DEF AreSeqs
  <2>3. Len(F(k - 1)) = 2 * k - 2
    BY <2>1
  <2>4. F(k) = F(k - 1) \o s[k]
    BY <1>1
  <2> DEFINE a == F(k - 1)
             b == s[k]
             c == F(k)
  <2>5. \A l \in 1 .. (k - 1) : PairAt(s, a, l)
    BY <2>1
  <2>6. IsSeq(a) /\ IsSeq(b) /\ Len(b) = 2 /\ Len(a) = 2 * k - 2 /\ c = a \o b /\ b = s[k]
    BY <2>2, <2>3, <2>4
  <2> HIDE DEF a, b, c
  <2>7. /\ Len(c) = (2 * k - 2) + 2
        /\ \A i \in 1 .. (2 * k - 2) : c[i] = a[i]
        /\ \A i \in 1 .. 2 : c[(2 * k - 2) + i] = b[i]
    <3>1. 2 * k - 2 \in Nat
      OBVIOUS
    <3>2. JoinedAt(a, b, c, 2 * k - 2, 2)
      BY <2>6, <3>1, CatAt
    <3> QED
      BY <3>2 DEF JoinedAt
  <2>8. Len(c) = 2 * k
    BY <2>7
  <2>9. ASSUME NEW l \in 1 .. (k - 1) PROVE PairAt(s, c, l)
    <3>1. 2 * l \in 1 .. (2 * k - 2) /\ 2 * l - 1 \in 1 .. (2 * k - 2)
      OBVIOUS
    <3>2. c[2 * l] = a[2 * l] /\ c[2 * l - 1] = a[2 * l - 1]
      BY <2>7, <3>1
    <3> QED
      BY <2>5, <3>2 DEF PairAt
  <2>10. PairAt(s, c, k)
    <3>1. (2 * k - 2) + 1 = 2 * k - 1 /\ (2 * k - 2) + 2 = 2 * k
      OBVIOUS
    <3>2. c[2 * k - 1] = b[1] /\ c[2 * k] = b[2]
      <4>1. 1 \in 1 .. 2 /\ 2 \in 1 .. 2
        OBVIOUS
      <4> QED
        BY <2>7, <3>1, <4>1
    <3> QED
      BY <2>6, <3>2 DEF PairAt
  <2>11. \A l \in 1 .. k : PairAt(s, c, l)
    BY <2>9, <2>10
  <2> QED
    BY <2>8, <2>11 DEF c
<1> HIDE DEF P
<1>4. 0 .. n \subseteq P
  BY <1>2, <1>3, UpTo
<1>5. OK(n)
  BY <1>4 DEF P
<1> QED
  BY <1>1, <1>5

EndSegment(m) == Segment(EndOps(m), Sync(m, "LG", "SYNC_NODE_SLICES_EXCEPT_ROOT"), <<>>)

AttSegment(m, node, l) == Segment(AttOps(m, node, l), Sync(m, "ZQ", "SYNC_NODE_SLICES"), KvSyncs(m, l))

FfSegment(m, l) == Segment(FfOps(m, l), Sync(m, "ZQ", "SYNC_NODE_SLICES"), <<>>)

(* The segments of a node, each at its number (llm.cpp:225-434)              *)
SegmentsAre(m, node, segments) ==
  /\ IsSeq(segments) /\ Len(segments) = 2 * m.nLayers + 2
  /\ segments[1] = Start(m, node)
  /\ \A l \in 1 .. m.nLayers :
       segments[2 * l] = AttSegment(m, node, l - 1) /\ segments[2 * l + 1] = FfSegment(m, l - 1)
  /\ segments[2 * m.nLayers + 2] = EndSegment(m)

(* buildLlmNet puts them in this order.                                     *)
LEMMA SegmentNumbers ==
  ASSUME NEW m, NEW node, m.nLayers \in Nat
  PROVE  SegmentsAre(m, node, Segments(m, node))
<1> DEFINE n == m.nLayers
           layers == [l \in 1 .. n |-> Layer(m, node, l - 1)]
           x == <<Start(m, node)>>
           y == FlattenSeq(layers)
           z == <<EndSegment(m)>>
<1>1. \A l : Layer(m, node, l) = <<AttSegment(m, node, l), FfSegment(m, l)>>
  BY DEF Layer, AttSegment, FfSegment
<1>2. \A l : /\ IsSeq(Layer(m, node, l)) /\ Len(Layer(m, node, l)) = 2
             /\ Layer(m, node, l)[1] = AttSegment(m, node, l) /\ Layer(m, node, l)[2] = FfSegment(m, l)
  BY <1>1, List2
<1>3. AreSeqs(layers) /\ Len(layers) = n
  <2>1. layers = [l \in 1 .. n |-> layers[l]] /\ \A l \in 1 .. n : IsSeq(layers[l])
    BY <1>2
  <2> HIDE DEF layers
  <2> QED
    BY <2>1, TableIsSeq
<1>4. \A l \in 1 .. n : Len(layers[l]) = 2 /\ layers[l][1] = AttSegment(m, node, l - 1) /\ layers[l][2] = FfSegment(m, l - 1)
  BY <1>2
<1>5. Segments(m, node) = (x \o y) \o z
  BY DEF Segments, EndSegment
<1>6. IsSeq(x) /\ Len(x) = 1 /\ x[1] = Start(m, node) /\ IsSeq(z) /\ Len(z) = 1 /\ z[1] = EndSegment(m)
  BY OneIsSeq
<1> HIDE DEF layers, x, z
<1>7. IsSeq(y) /\ Len(y) = 2 * n /\ \A l \in 1 .. n : PairAt(layers, y, l)
  BY <1>3, <1>4, FlatPairs, FlatIsSeq
<1> HIDE DEF y
<1> DEFINE xy == x \o y
           all == xy \o z
<1>8. /\ IsSeq(xy) /\ Len(xy) = 1 + 2 * n
      /\ \A i \in 1 .. 1 : xy[i] = x[i]
      /\ \A i \in 1 .. (2 * n) : xy[1 + i] = y[i]
  <2>1. 1 \in Nat /\ 2 * n \in Nat
    OBVIOUS
  <2>2. JoinedAt(x, y, xy, 1, 2 * n)
    BY <1>6, <1>7, <2>1, CatAt
  <2> QED
    BY <2>2 DEF JoinedAt
<1> HIDE DEF xy
<1>9. /\ IsSeq(all) /\ Len(all) = (1 + 2 * n) + 1
      /\ \A i \in 1 .. (1 + 2 * n) : all[i] = xy[i]
      /\ \A i \in 1 .. 1 : all[(1 + 2 * n) + i] = z[i]
  <2>1. 1 \in Nat /\ 1 + 2 * n \in Nat
    OBVIOUS
  <2>2. JoinedAt(xy, z, all, 1 + 2 * n, 1)
    BY <1>6, <1>8, <2>1, CatAt
  <2> QED
    BY <2>2 DEF JoinedAt
<1>10. Segments(m, node) = all
  BY <1>5 DEF xy
<1> HIDE DEF all
<1>11. all[1] = Start(m, node)
  <2>1. 1 \in 1 .. (1 + 2 * n) /\ 1 \in 1 .. 1
    OBVIOUS
  <2> QED
    BY <1>6, <1>8, <1>9, <2>1
<1>12. ASSUME NEW l \in 1 .. n
       PROVE  all[2 * l] = AttSegment(m, node, l - 1) /\ all[2 * l + 1] = FfSegment(m, l - 1)
  <2>1. /\ 2 * l \in 1 .. (1 + 2 * n) /\ 2 * l + 1 \in 1 .. (1 + 2 * n)
        /\ 2 * l - 1 \in 1 .. (2 * n) /\ 2 * l \in 1 .. (2 * n)
        /\ 1 + (2 * l - 1) = 2 * l /\ 1 + 2 * l = 2 * l + 1
    OBVIOUS
  <2>2. all[2 * l] = y[2 * l - 1]
    <3>1. all[2 * l] = xy[2 * l]
      BY <1>9, <2>1
    <3>2. xy[1 + (2 * l - 1)] = y[2 * l - 1]
      BY <1>8, <2>1
    <3> QED
      BY <2>1, <3>1, <3>2
  <2>3. all[2 * l + 1] = y[2 * l]
    <3>1. all[2 * l + 1] = xy[2 * l + 1]
      BY <1>9, <2>1
    <3>2. xy[1 + 2 * l] = y[2 * l]
      BY <1>8, <2>1
    <3> QED
      BY <2>1, <3>1, <3>2
  <2> QED
    BY <1>4, <1>7, <2>2, <2>3 DEF PairAt
<1>13. all[2 * n + 2] = EndSegment(m)
  <2>1. 1 \in 1 .. 1 /\ (1 + 2 * n) + 1 = 2 * n + 2
    OBVIOUS
  <2> QED
    BY <1>6, <1>9, <2>1
<1>14. Len(all) = 2 * n + 2
  BY <1>9
<1> QED
  BY <1>9, <1>10, <1>11, <1>12, <1>13, <1>14 DEF SegmentsAre

SegmentSync(m, syncs, nSyncs) ==
  IF m.nNodes > 1 /\ nSyncs > 0 THEN << [type |-> "STEP_SYNC_NODES", syncs |-> syncs] >> ELSE <<>>

-----------------------------------------------------------------------------
(* The weights of a model                                                   *)

LayerNames ==
  {"block_matmul_q", "block_matmul_k", "block_matmul_v", "block_matmul_wo", "block_matmul_w1",
   "block_matmul_w2", "block_matmul_w3", "block_rms_norm_0", "block_rms_norm_1"}

OnceNames == {"embedding", "final_rms_norm", "final_matmul_logits"}

(* The slice of the weight of a name (llm.cpp:456-492)                       *)
SliceOf(m, name) ==
  CASE name = "embedding"           -> Whole("root", size2D("F_32", m.vocabSize, m.dim))
    [] name = "final_matmul_logits" -> Slice(m).wcls
    [] name = "block_matmul_q"      -> Slice(m).q
    [] name = "block_matmul_k"      -> Slice(m).k
    [] name = "block_matmul_v"      -> Slice(m).v
    [] name = "block_matmul_wo"     -> Slice(m).wo
    [] name = "block_matmul_w1"     -> Slice(m).w1
    [] name = "block_matmul_w2"     -> Slice(m).w2
    [] name = "block_matmul_w3"     -> Slice(m).w3
    [] name \in {"block_rms_norm_0", "block_rms_norm_1", "final_rms_norm"} ->
         Whole("all", size2D("F_32", 1, m.dim))

WeightOf(m, name, l) == Weight(name, l, SliceOf(m, name))

LayerSet(m, l) == {WeightOf(m, name, l) : name \in LayerNames}

(* The weights of a layer                                                   *)
LEMMA LayerWeightsAre ==
  ASSUME NEW m, NEW l
  PROVE  IsSeq(LayerWeights(m, l)) /\ Elems(LayerWeights(m, l)) = LayerSet(m, l)
<1> DEFINE w1 == Weight("block_matmul_q", l, Slice(m).q)
           w2 == Weight("block_matmul_k", l, Slice(m).k)
           w3 == Weight("block_matmul_v", l, Slice(m).v)
           w4 == Weight("block_matmul_wo", l, Slice(m).wo)
           w5 == Weight("block_matmul_w1", l, Slice(m).w1)
           w6 == Weight("block_matmul_w2", l, Slice(m).w2)
           w7 == Weight("block_matmul_w3", l, Slice(m).w3)
           w8 == Weight("block_rms_norm_0", l, Whole("all", size2D("F_32", 1, m.dim)))
           w9 == Weight("block_rms_norm_1", l, Whole("all", size2D("F_32", 1, m.dim)))
<1>1. LayerWeights(m, l) = <<w1, w2, w3, w4, w5, w6, w7, w8, w9>>
  BY DEF LayerWeights
<1>2. /\ WeightOf(m, "block_matmul_q", l) = w1 /\ WeightOf(m, "block_matmul_k", l) = w2
      /\ WeightOf(m, "block_matmul_v", l) = w3 /\ WeightOf(m, "block_matmul_wo", l) = w4
      /\ WeightOf(m, "block_matmul_w1", l) = w5 /\ WeightOf(m, "block_matmul_w2", l) = w6
      /\ WeightOf(m, "block_matmul_w3", l) = w7 /\ WeightOf(m, "block_rms_norm_0", l) = w8
      /\ WeightOf(m, "block_rms_norm_1", l) = w9
  BY DEF WeightOf, SliceOf
<1> HIDE DEF w1, w2, w3, w4, w5, w6, w7, w8, w9
<1>3. LayerSet(m, l) = {w1, w2, w3, w4, w5, w6, w7, w8, w9}
  BY <1>2 DEF LayerSet, LayerNames
<1>4. IsSeq(LayerWeights(m, l)) /\ Elems(LayerWeights(m, l)) = {w1, w2, w3, w4, w5, w6, w7, w8, w9}
  BY <1>1, List9
<1> QED
  BY <1>3, <1>4

(* All the weights (llm.cpp:456-492): one for each name, in each layer.      *)
LEMMA WeightsAre ==
  ASSUME NEW m, m.nLayers \in Nat
  PROVE  Elems(Weights(m)) = (UNION {LayerSet(m, l) : l \in 0 .. (m.nLayers - 1)})
                             \cup {WeightOf(m, name, 0) : name \in OnceNames}
<1> DEFINE n == m.nLayers
           first == Weight("embedding", 0, Whole("root", size2D("F_32", m.vocabSize, m.dim)))
           y1 == Weight("final_rms_norm", 0, Whole("all", size2D("F_32", 1, m.dim)))
           y2 == Weight("final_matmul_logits", 0, Slice(m).wcls)
           layers == [l \in 1 .. n |-> LayerWeights(m, l - 1)]
           a == <<first>>
           b == FlattenSeq(layers)
           c == <<y1, y2>>
<1>1. Weights(m) = (a \o b) \o c
  BY DEF Weights
<1>2. /\ WeightOf(m, "embedding", 0) = first /\ WeightOf(m, "final_rms_norm", 0) = y1
      /\ WeightOf(m, "final_matmul_logits", 0) = y2
  BY DEF WeightOf, SliceOf
<1> HIDE DEF first, y1, y2
<1>3. {WeightOf(m, name, 0) : name \in OnceNames} = {first, y1, y2}
  BY <1>2 DEF OnceNames
<1>4. IsSeq(a) /\ Elems(a) = {first} /\ IsSeq(c) /\ Elems(c) = {y1, y2}
  BY OneIsSeq, ElemsOfOne, List2
<1>5. /\ layers = [l \in 1 .. n |-> layers[l]]
      /\ \A l \in 1 .. n : IsSeq(layers[l]) /\ Elems(layers[l]) = LayerSet(m, l - 1)
  BY LayerWeightsAre
<1> HIDE DEF layers
<1>6. AreSeqs(layers) /\ Len(layers) = n
  BY <1>5, TableIsSeq
<1>7. IsSeq(b) /\ Elems(b) = UNION {Elems(layers[l]) : l \in 1 .. n}
  BY <1>6, FlatIsSeq, FlatElems
<1>8. Elems(b) = UNION {LayerSet(m, l) : l \in 0 .. (n - 1)}
  <2>1. \A x : (\E l \in 1 .. n : x \in LayerSet(m, l - 1)) <=> (\E l \in 0 .. (n - 1) : x \in LayerSet(m, l))
    <3>1. ASSUME NEW x, NEW l \in 1 .. n, x \in LayerSet(m, l - 1)
          PROVE  \E j \in 0 .. (n - 1) : x \in LayerSet(m, j)
      <4>1. l - 1 \in 0 .. (n - 1)
        OBVIOUS
      <4> QED
        BY <3>1, <4>1
    <3>2. ASSUME NEW x, NEW l \in 0 .. (n - 1), x \in LayerSet(m, l)
          PROVE  \E j \in 1 .. n : x \in LayerSet(m, j - 1)
      <4>1. l + 1 \in 1 .. n /\ (l + 1) - 1 = l
        OBVIOUS
      <4> QED
        BY <3>2, <4>1
    <3> QED
      BY <3>1, <3>2
  <2> HIDE DEF n
  <2>2. \A x : x \in Elems(b) <=> \E l \in 1 .. n : x \in LayerSet(m, l - 1)
    BY <1>5, <1>7
  <2> QED
    BY <2>1, <2>2
<1> HIDE DEF a, b, c
<1>9. Elems((a \o b) \o c) = (Elems(a) \cup Elems(b)) \cup Elems(c)
  BY <1>4, <1>7, CatElems, CatSeq
<1> HIDE DEF n
<1> QED
  BY <1>1, <1>3, <1>4, <1>8, <1>9 DEF n

-----------------------------------------------------------------------------
(* The division of the weights                                              *)

(* A weight of a name and layer has them, and the slice of the name.         *)
LEMMA WeightOfFields ==
  ASSUME NEW m, NEW name, NEW l
  PROVE  /\ WeightOf(m, name, l).name = name
         /\ WeightOf(m, name, l).index = l
         /\ WeightOf(m, name, l).slice = SliceOf(m, name)
BY DEF WeightOf, Weight

-----------------------------------------------------------------------------
(* Operations and weights (llm.cpp:217-434, 456-492)                        *)

WeightNames == LayerNames \cup OnceNames

(* an operation that has the weight of this name, and one that has none     *)
Weighs(m, op, l, name) ==
  op.index = l /\ op.name = name /\ op.weightSize = SliceOf(m, name).sliceSize

Light(op, l) == op.index = l /\ op.name \notin WeightNames /\ op.weightSize = size0

(* Operations of layer l, one for each name and others without weights      *)
OpsFor(m, ops, l, names) ==
  /\ IsSeq(ops) /\ names \subseteq WeightNames
  /\ \A i \in 1 .. Len(ops) : Light(ops[i], l) \/ \E name \in names : Weighs(m, ops[i], l, name)
  /\ \A name \in names : \E i \in 1 .. Len(ops) :
       ops[i].name = name /\ \A j \in 1 .. Len(ops) : ops[j].name = name => j = i

(* One operation.                                                           *)
LEMMA OpsForOne ==
  ASSUME NEW m, NEW l
  PROVE  /\ OpsFor(m, <<>>, l, {})
         /\ \A op : Light(op, l) => OpsFor(m, <<op>>, l, {}) /\ OpsFor(m, Quantized(m, op), l, {})
         /\ \A op, name : name \in WeightNames /\ Weighs(m, op, l, name) => OpsFor(m, <<op>>, l, {name})
<1>1. OpsFor(m, <<>>, l, {})
  BY EmptyIsSeq DEF OpsFor
<1>2. ASSUME NEW op, Light(op, l) PROVE OpsFor(m, <<op>>, l, {})
  BY <1>2, OneIsSeq DEF OpsFor
<1>3. ASSUME NEW op, Light(op, l) PROVE OpsFor(m, Quantized(m, op), l, {})
  BY <1>1, <1>2, <1>3 DEF Quantized
<1>4. ASSUME NEW op, NEW name, name \in WeightNames, Weighs(m, op, l, name)
      PROVE  OpsFor(m, <<op>>, l, {name})
  <2> DEFINE s == <<op>>
  <2>1. IsSeq(s) /\ Len(s) = 1 /\ s[1] = op
    BY OneIsSeq
  <2>2. op.name = name
    BY <1>4 DEF Weighs
  <2> HIDE DEF s
  <2>3. \A i \in 1 .. Len(s) : i = 1 /\ s[i] = op
    BY <2>1
  <2>4. 1 \in 1 .. Len(s)
    BY <2>1
  <2>5. OpsFor(m, s, l, {name})
    BY <1>4, <2>1, <2>2, <2>3, <2>4 DEF OpsFor
  <2> QED
    BY <2>5 DEF s
<1> QED
  BY <1>1, <1>2, <1>3, <1>4

(* Operations one after the other.                                          *)
LEMMA OpsForCat ==
  ASSUME NEW m, NEW l, NEW a, NEW b, NEW A, NEW B, OpsFor(m, a, l, A), OpsFor(m, b, l, B), A \cap B = {}
  PROVE  OpsFor(m, a \o b, l, A \cup B)
<1> DEFINE c == a \o b
           p == Len(a)
           q == Len(b)
<1>1. IsSeq(a) /\ IsSeq(b) /\ A \subseteq WeightNames /\ B \subseteq WeightNames
  BY DEF OpsFor
<1>2. p \in Nat /\ q \in Nat
  BY <1>1, SeqShape
<1>3. IsSeq(c) /\ Len(c) = p + q /\ \A i \in 1 .. (p + q) : c[i] = IF i <= p THEN a[i] ELSE b[i - p]
  BY <1>1, Cat
<1>4. /\ \A i \in 1 .. p : Light(a[i], l) \/ \E name \in A : Weighs(m, a[i], l, name)
      /\ \A i \in 1 .. q : Light(b[i], l) \/ \E name \in B : Weighs(m, b[i], l, name)
  BY DEF OpsFor
<1>5. /\ \A name \in A : \E i \in 1 .. p : a[i].name = name /\ \A j \in 1 .. p : a[j].name = name => j = i
      /\ \A name \in B : \E i \in 1 .. q : b[i].name = name /\ \A j \in 1 .. q : b[j].name = name => j = i
  BY DEF OpsFor
<1> HIDE DEF c, p, q
<1>6. /\ \A i \in 1 .. p : i \in 1 .. (p + q) /\ c[i] = a[i]
      /\ \A i \in 1 .. q : p + i \in 1 .. (p + q) /\ c[p + i] = b[i]
      /\ \A i \in 1 .. (p + q) : i \in 1 .. p \/ (i - p \in 1 .. q /\ i = p + (i - p))
  <2>1. \A i \in 1 .. p : i \in 1 .. (p + q) /\ c[i] = a[i]
    BY <1>2, <1>3
  <2>2. \A i \in 1 .. q : p + i \in 1 .. (p + q) /\ c[p + i] = b[i]
    <3> SUFFICES ASSUME NEW i \in 1 .. q PROVE p + i \in 1 .. (p + q) /\ c[p + i] = b[i]
      OBVIOUS
    <3>1. p + i \in 1 .. (p + q) /\ ~(p + i <= p) /\ (p + i) - p = i
      BY <1>2
    <3> QED
      BY <1>3, <3>1
  <2>3. \A i \in 1 .. (p + q) : i \in 1 .. p \/ (i - p \in 1 .. q /\ i = p + (i - p))
    BY <1>2
  <2> QED
    BY <2>1, <2>2, <2>3
<1>7. ASSUME NEW i \in 1 .. (p + q)
      PROVE  Light(c[i], l) \/ \E name \in A \cup B : Weighs(m, c[i], l, name)
  <2>1. CASE i \in 1 .. p
    BY <1>4, <1>6, <2>1
  <2>2. CASE i - p \in 1 .. q /\ i = p + (i - p)
    <3>1. c[i] = b[i - p]
      BY <1>6, <2>2
    <3> QED
      BY <1>4, <2>2, <3>1
  <2> QED
    BY <1>6, <2>1, <2>2
<1>8. /\ \A i \in 1 .. q : b[i].name \in B \/ b[i].name \notin WeightNames
      /\ \A i \in 1 .. p : a[i].name \in A \/ a[i].name \notin WeightNames
  BY <1>4 DEF Light, Weighs
<1>9. ASSUME NEW name \in A
      PROVE  \E i \in 1 .. (p + q) : c[i].name = name /\ \A j \in 1 .. (p + q) : c[j].name = name => j = i
  <2>1. PICK i \in 1 .. p : a[i].name = name /\ \A j \in 1 .. p : a[j].name = name => j = i
    BY <1>5
  <2>2. i \in 1 .. (p + q) /\ c[i].name = name
    BY <1>6, <2>1
  <2>3. ASSUME NEW j \in 1 .. (p + q), c[j].name = name PROVE j = i
    <3>1. CASE j \in 1 .. p
      BY <1>6, <2>1, <2>3, <3>1
    <3>2. CASE j - p \in 1 .. q /\ j = p + (j - p)
      <4>1. b[j - p].name = name
        BY <1>6, <2>3, <3>2
      <4> QED
        BY <1>1, <1>8, <3>2, <4>1
    <3> QED
      BY <1>6, <3>1, <3>2
  <2> QED
    BY <2>2, <2>3
<1>10. ASSUME NEW name \in B
       PROVE  \E i \in 1 .. (p + q) : c[i].name = name /\ \A j \in 1 .. (p + q) : c[j].name = name => j = i
  <2>1. PICK i \in 1 .. q : b[i].name = name /\ \A j \in 1 .. q : b[j].name = name => j = i
    BY <1>5
  <2>2. p + i \in 1 .. (p + q) /\ c[p + i].name = name
    BY <1>6, <2>1
  <2>3. ASSUME NEW j \in 1 .. (p + q), c[j].name = name PROVE j = p + i
    <3>1. CASE j \in 1 .. p
      <4>1. a[j].name = name
        BY <1>6, <2>3, <3>1
      <4> QED
        BY <1>1, <1>8, <3>1, <4>1
    <3>2. CASE j - p \in 1 .. q /\ j = p + (j - p)
      <4>1. b[j - p].name = name
        BY <1>6, <2>3, <3>2
      <4>2. j - p = i
        BY <2>1, <3>2, <4>1
      <4> QED
        BY <3>2, <4>2
    <3> QED
      BY <1>6, <3>1, <3>2
  <2> QED
    BY <2>2, <2>3
<1> QED
  BY <1>1, <1>3, <1>7, <1>9, <1>10 DEF OpsFor, c

(* The operations of the builder: their layer, name and weight              *)
(* (llm.cpp:217-434, nn-config-builder.hpp).                                *)
LEMMA OpKinds ==
  ASSUME NEW m, NEW l
  PROVE  /\ \A name, input, output : name \notin WeightNames => Light(Cast(name, l, input, output), l)
         /\ \A name : name \notin WeightNames => Light(MergeAdd(m, name, l), l)
         /\ \A node, name, buffer, isQ : name \notin WeightNames => Light(Rope(m, node, name, l, buffer, isQ), l)
         /\ \A name, input, buffer : name \notin WeightNames => Light(Shift(m, name, l, input, buffer), l)
         /\ \A code, name, input, output, config :
              name \notin WeightNames => Light(Op(code, name, l, input, output, size0, config), l)
         /\ Light(MultiHeadAtt(m, l), l)
         /\ \A name, input, output : Weighs(m, Matmul(m, name, l, SliceOf(m, name), input, output), l, name)
         /\ \A a, b : a \notin WeightNames /\ b \in {"block_rms_norm_0", "block_rms_norm_1", "final_rms_norm"}
                      => OpsFor(m, Norm(m, a, b, l), l, {b})
<1>1. /\ \A code, name, input, output, size, config :
           LET op == Op(code, name, l, input, output, size, config)
           IN  op.index = l /\ op.name = name /\ op.weightSize = size
  BY DEF Op
<1>2. \A code, name, input, output, config :
        name \notin WeightNames => Light(Op(code, name, l, input, output, size0, config), l)
  BY <1>1 DEF Light
<1>3. "block_multihead_att" \notin WeightNames
  BY DEF WeightNames, LayerNames, OnceNames
<1>4. Light(MultiHeadAtt(m, l), l)
  BY <1>2, <1>3 DEF MultiHeadAtt
<1>5. \A name, input, output : Weighs(m, Matmul(m, name, l, SliceOf(m, name), input, output), l, name)
  BY <1>1 DEF Weighs, Matmul
<1>6. ASSUME NEW a, NEW b, a \notin WeightNames, b \in {"block_rms_norm_0", "block_rms_norm_1", "final_rms_norm"}
      PROVE  OpsFor(m, Norm(m, a, b, l), l, {b})
  <2> DEFINE x == Op("OP_INV_RMS", a, l, InBuffer(m, "x"), InBuffer(m, "inv_rms"), size0, <<>>)
             y == Op("OP_RMS_NORM", b, l, InBuffer(m, "x"), InBuffer(m, "y"),
                     size2D("F_32", 1, m.dim), <<BufferIndex(m, "inv_rms")>>)
  <2>1. Norm(m, a, b, l) = <<x, y>>
    BY DEF Norm
  <2>2. Light(x, l)
    BY <1>2, <1>6
  <2>3. SliceOf(m, b).sliceSize = size2D("F_32", 1, m.dim) /\ b \in WeightNames
    BY <1>6 DEF SliceOf, Whole, WeightNames, LayerNames, OnceNames
  <2>4. Weighs(m, y, l, b)
    BY <1>1, <2>3 DEF Weighs
  <2> HIDE DEF x, y
  <2>5. OpsFor(m, <<x>>, l, {}) /\ OpsFor(m, <<y>>, l, {b})
    BY <2>2, <2>3, <2>4, OpsForOne
  <2>6. OpsFor(m, <<x>> \o <<y>>, l, {} \cup {b})
    BY <2>5, OpsForCat
  <2>7. <<x, y>> = <<x>> \o <<y>> /\ {} \cup {b} = {b}
    BY Split2
  <2> QED
    BY <2>1, <2>6, <2>7
<1>7. \A name, input, output : name \notin WeightNames => Light(Cast(name, l, input, output), l)
  BY <1>2 DEF Cast
<1>8. \A name : name \notin WeightNames => Light(MergeAdd(m, name, l), l)
  BY <1>2 DEF MergeAdd
<1>9. \A node, name, buffer, isQ : name \notin WeightNames => Light(Rope(m, node, name, l, buffer, isQ), l)
  BY <1>2 DEF Rope
<1>10. \A name, input, buffer : name \notin WeightNames => Light(Shift(m, name, l, input, buffer), l)
  BY <1>2 DEF Shift
<1> QED
  BY <1>2, <1>4, <1>5, <1>6, <1>7, <1>8, <1>9, <1>10

AttNames == {"block_matmul_q", "block_matmul_k", "block_matmul_v", "block_matmul_wo", "block_rms_norm_0"}
FfNames == {"block_matmul_w1", "block_matmul_w2", "block_matmul_w3", "block_rms_norm_1"}
EndNames == {"final_rms_norm", "final_matmul_logits"}

(* The operations of the attention of a layer (llm.cpp:231-331)              *)
LEMMA AttOpsFor ==
  ASSUME NEW m, NEW node, NEW l
  PROVE  OpsFor(m, AttOps(m, node, l), l, AttNames)
<1> DEFINE a == IF l = 0 THEN Cast("block_cast_x", l, InPipe(m, "X"), InBuffer(m, "x"))
                         ELSE MergeAdd(m, "block_merge_add", l)
           b == Norm(m, "block_inv_rms_0", "block_rms_norm_0", l)
           x == Cast("block_cast_y", l, InBuffer(m, "y"), InBuffer(m, "yq"))
           c == Quantized(m, x)
           d1 == Matmul(m, "block_matmul_q", l, Slice(m).q, "yq", "q")
           d2 == Matmul(m, "block_matmul_k", l, Slice(m).k, "yq", "k_temp")
           d3 == Matmul(m, "block_matmul_v", l, Slice(m).v, "yq", "v_temp")
           d4 == Rope(m, node, "block_rope_q", l, "q", TRUE)
           d5 == Rope(m, node, "block_rope_k", l, "k_temp", FALSE)
           d6 == Shift(m, "block_shift_k", l, "k_temp", KBuffer(m, l))
           d7 == Shift(m, "block_shift_v", l, "v_temp", VBuffer(m, l))
           d8 == MultiHeadAtt(m, l)
           d9 == Cast("block_cast_y2", l, Part(InBuffer(m, "y")), InBuffer(m, "yq_slice"))
           d10 == Matmul(m, "block_matmul_wo", l, Slice(m).wo, "yq_slice", "y")
           d11 == Cast("block_cast_d", l, InBuffer(m, "y"), Part(InPipe(m, "ZQ")))
           d == <<d1, d2, d3, d4, d5, d6, d7, d8, d9, d10, d11>>
<1>1. /\ {"block_cast_x", "block_merge_add", "block_inv_rms_0", "block_cast_y", "block_rope_q", "block_rope_k",
          "block_shift_k", "block_shift_v", "block_cast_y2", "block_cast_d"} \cap WeightNames = {}
      /\ AttNames \subseteq WeightNames
  BY DEF WeightNames, LayerNames, OnceNames, AttNames
<1>2. /\ SliceOf(m, "block_matmul_q") = Slice(m).q /\ SliceOf(m, "block_matmul_k") = Slice(m).k
      /\ SliceOf(m, "block_matmul_v") = Slice(m).v /\ SliceOf(m, "block_matmul_wo") = Slice(m).wo
  BY DEF SliceOf
<1>3. Light(a, l) /\ Light(x, l) /\ OpsFor(m, b, l, {"block_rms_norm_0"})
  BY <1>1, OpKinds
<1>4. /\ Light(d4, l) /\ Light(d5, l) /\ Light(d6, l) /\ Light(d7, l) /\ Light(d8, l) /\ Light(d9, l)
      /\ Light(d11, l)
  BY <1>1, OpKinds
<1>5. /\ Weighs(m, d1, l, "block_matmul_q") /\ Weighs(m, d2, l, "block_matmul_k")
      /\ Weighs(m, d3, l, "block_matmul_v") /\ Weighs(m, d10, l, "block_matmul_wo")
  <2>1. \A name, input, output : Weighs(m, Matmul(m, name, l, SliceOf(m, name), input, output), l, name)
    BY OpKinds
  <2> QED
    BY <1>2, <2>1
<1>6. AttOps(m, node, l) = ((<<a>> \o b) \o c) \o d
  BY DEF AttOps
<1>7. IsSeq(d)
  BY List11
<1>8. /\ Len(d) = 11 /\ d[1] = d1 /\ d[2] = d2 /\ d[3] = d3 /\ d[4] = d4 /\ d[5] = d5 /\ d[6] = d6
      /\ d[7] = d7 /\ d[8] = d8 /\ d[9] = d9 /\ d[10] = d10 /\ d[11] = d11
  <2> HIDE DEF d1, d2, d3, d4, d5, d6, d7, d8, d9, d10, d11
  <2> QED
    OBVIOUS
<1> HIDE DEF a, b, x, d, d1, d2, d3, d4, d5, d6, d7, d8, d9, d10, d11
<1> DEFINE four == {"block_matmul_q", "block_matmul_k", "block_matmul_v", "block_matmul_wo"}
<1>9. OpsFor(m, d, l, four)
  <2>1. four \subseteq WeightNames
    BY <1>1 DEF AttNames
  <2>2. /\ d[1].name = "block_matmul_q" /\ d[2].name = "block_matmul_k" /\ d[3].name = "block_matmul_v"
        /\ d[10].name = "block_matmul_wo"
        /\ \A i \in {4, 5, 6, 7, 8, 9, 11} : d[i].name \notin four
    BY <1>4, <1>5, <1>8, <2>1 DEF Light, Weighs
  <2>3. 1 .. Len(d) = {1, 2, 3, 4, 5, 6, 7, 8, 9, 10, 11}
    BY <1>8
  <2>4. \A i \in 1 .. Len(d) : Light(d[i], l) \/ \E name \in four : Weighs(m, d[i], l, name)
    BY <1>4, <1>5, <1>8, <2>3
  <2>5. ASSUME NEW name \in four
        PROVE  \E i \in 1 .. Len(d) : d[i].name = name /\ \A j \in 1 .. Len(d) : d[j].name = name => j = i
    <3>1. \A j \in 1 .. Len(d) : j \in {1, 2, 3, 10} \/ d[j].name \notin four
      BY <2>2, <2>3
    <3>2. \A i \in {1, 2, 3, 10} : i \in 1 .. Len(d)
      BY <2>3
    <3>3. \E i \in {1, 2, 3, 10} : d[i].name = name /\ \A j \in {1, 2, 3, 10} : d[j].name = name => j = i
      BY <2>2
    <3> QED
      BY <3>1, <3>2, <3>3
  <2> QED
    BY <1>7, <2>1, <2>4, <2>5 DEF OpsFor
<1>10. OpsFor(m, <<a>>, l, {}) /\ OpsFor(m, c, l, {})
  BY <1>3, OpsForOne
<1> HIDE DEF c
<1>11. OpsFor(m, <<a>> \o b, l, {} \cup {"block_rms_norm_0"})
  BY <1>3, <1>10, OpsForCat
<1>12. OpsFor(m, (<<a>> \o b) \o c, l, ({} \cup {"block_rms_norm_0"}) \cup {})
  BY <1>10, <1>11, OpsForCat
<1>13. (({} \cup {"block_rms_norm_0"}) \cup {}) \cap four = {}
  OBVIOUS
<1>14. OpsFor(m, ((<<a>> \o b) \o c) \o d, l, (({} \cup {"block_rms_norm_0"}) \cup {}) \cup four)
  BY <1>9, <1>12, <1>13, OpsForCat
<1>15. (({} \cup {"block_rms_norm_0"}) \cup {}) \cup four = AttNames
  BY DEF AttNames
<1> QED
  BY <1>6, <1>14, <1>15

(* The operations of the feed-forward network of a layer (llm.cpp:332-401)   *)
LEMMA FfOpsFor ==
  ASSUME NEW m, NEW l
  PROVE  OpsFor(m, FfOps(m, l), l, FfNames)
<1> DEFINE a == MergeAdd(m, "block_merge_add2", l)
           b == Norm(m, "block_inv_rms_1", "block_rms_norm_1", l)
           x == Cast("block_cast_y3", l, InBuffer(m, "y"), InBuffer(m, "yq"))
           c == Quantized(m, x)
           d1 == Matmul(m, "block_matmul_w1", l, Slice(m).w1, "yq", "d")
           d2 == Matmul(m, "block_matmul_w3", l, Slice(m).w3, "yq", "l")
           d3 == Op("OP_SILU", "block_act", l, InBuffer(m, "d"), InBuffer(m, "d"), size0, <<>>)
           d4 == Op("OP_MUL", "block_mul", l, InBuffer(m, "d"), InBuffer(m, "d"), size0,
                    <<BufferIndex(m, "l")>>)
           d == <<d1, d2, d3, d4>>
           y == Cast("block_cast_d2", l, InBuffer(m, "d"), InBuffer(m, "dq"))
           e == Quantized(m, y)
           f1 == Matmul(m, "block_matmul_w2", l, Slice(m).w2, "dq", "y")
           f2 == Cast("block_cast_d3", l, InBuffer(m, "y"), Part(InPipe(m, "ZQ")))
           f == <<f1, f2>>
<1>1. /\ {"block_merge_add2", "block_inv_rms_1", "block_cast_y3", "block_act", "block_mul", "block_cast_d2",
          "block_cast_d3"} \cap WeightNames = {}
      /\ FfNames \subseteq WeightNames
  BY DEF WeightNames, LayerNames, OnceNames, FfNames
<1>2. /\ SliceOf(m, "block_matmul_w1") = Slice(m).w1 /\ SliceOf(m, "block_matmul_w2") = Slice(m).w2
      /\ SliceOf(m, "block_matmul_w3") = Slice(m).w3
  BY DEF SliceOf
<1>3. Light(a, l) /\ Light(x, l) /\ Light(y, l) /\ OpsFor(m, b, l, {"block_rms_norm_1"})
  BY <1>1, OpKinds
<1>4. Light(d3, l) /\ Light(d4, l) /\ Light(f2, l)
  BY <1>1, OpKinds
<1>5. /\ Weighs(m, d1, l, "block_matmul_w1") /\ Weighs(m, d2, l, "block_matmul_w3")
      /\ Weighs(m, f1, l, "block_matmul_w2")
  <2>1. \A name, input, output : Weighs(m, Matmul(m, name, l, SliceOf(m, name), input, output), l, name)
    BY OpKinds
  <2> QED
    BY <1>2, <2>1
<1>6. FfOps(m, l) = ((((<<a>> \o b) \o c) \o d) \o e) \o f
  BY DEF FfOps
<1> HIDE DEF a, b, x, y, d1, d2, d3, d4, f1, f2
<1>7. OpsFor(m, <<a>>, l, {}) /\ OpsFor(m, c, l, {}) /\ OpsFor(m, e, l, {})
  BY <1>3, OpsForOne
<1> HIDE DEF c, e
<1>8. OpsFor(m, d, l, {"block_matmul_w1", "block_matmul_w3"})
  <2>1. /\ OpsFor(m, <<d1>>, l, {"block_matmul_w1"}) /\ OpsFor(m, <<d2>>, l, {"block_matmul_w3"})
        /\ OpsFor(m, <<d3>>, l, {}) /\ OpsFor(m, <<d4>>, l, {})
    BY <1>1, <1>4, <1>5, OpsForOne DEF FfNames
  <2>2. OpsFor(m, <<d1>> \o <<d2>>, l, {"block_matmul_w1"} \cup {"block_matmul_w3"})
    <3>1. {"block_matmul_w1"} \cap {"block_matmul_w3"} = {}
      OBVIOUS
    <3> QED
      BY <2>1, <3>1, OpsForCat
  <2> DEFINE w == {"block_matmul_w1"} \cup {"block_matmul_w3"}
  <2>3. OpsFor(m, (<<d1>> \o <<d2>>) \o <<d3>>, l, w \cup {})
    BY <2>1, <2>2, OpsForCat
  <2>4. OpsFor(m, ((<<d1>> \o <<d2>>) \o <<d3>>) \o <<d4>>, l, (w \cup {}) \cup {})
    BY <2>1, <2>3, OpsForCat
  <2>5. d = ((<<d1>> \o <<d2>>) \o <<d3>>) \o <<d4>>
    <3>1. d = <<d1, d2, d3>> \o <<d4>>
      BY Split4
    <3>2. <<d1, d2, d3>> = <<d1, d2>> \o <<d3>>
      BY Split3
    <3>3. <<d1, d2>> = <<d1>> \o <<d2>>
      BY Split2
    <3> HIDE DEF d
    <3> QED
      BY <3>1, <3>2, <3>3
  <2>6. (w \cup {}) \cup {} = {"block_matmul_w1", "block_matmul_w3"}
    OBVIOUS
  <2> HIDE DEF d
  <2> QED
    BY <2>4, <2>5, <2>6
<1>9. OpsFor(m, f, l, {"block_matmul_w2"})
  <2>1. OpsFor(m, <<f1>>, l, {"block_matmul_w2"}) /\ OpsFor(m, <<f2>>, l, {})
    BY <1>1, <1>4, <1>5, OpsForOne DEF FfNames
  <2>2. OpsFor(m, <<f1>> \o <<f2>>, l, {"block_matmul_w2"} \cup {})
    BY <2>1, OpsForCat
  <2>3. f = <<f1>> \o <<f2>> /\ {"block_matmul_w2"} \cup {} = {"block_matmul_w2"}
    BY Split2
  <2> QED
    BY <2>2, <2>3
<1> HIDE DEF d, f
<1> DEFINE n == {"block_rms_norm_1"}
           w == {"block_matmul_w1", "block_matmul_w3"}
           z == {"block_matmul_w2"}
<1>10. n \cap w = {} /\ (n \cup w) \cap z = {} /\ (n \cup w) \cup z = FfNames
  BY DEF FfNames
<1>11. {} \cup n = n /\ n \cup {} = n /\ (n \cup w) \cup {} = n \cup w /\ {} \cap n = {} /\ n \cap {} = {}
       /\ (n \cup w) \cap {} = {}
  OBVIOUS
<1>12. OpsFor(m, b, l, n) /\ OpsFor(m, d, l, w) /\ OpsFor(m, f, l, z)
  BY <1>3, <1>8, <1>9
<1> HIDE DEF n, w, z
<1>13. OpsFor(m, <<a>> \o b, l, n)
  <2>1. OpsFor(m, <<a>> \o b, l, {} \cup n)
    BY <1>7, <1>11, <1>12, OpsForCat
  <2> QED
    BY <1>11, <2>1
<1>14. OpsFor(m, (<<a>> \o b) \o c, l, n)
  <2>1. OpsFor(m, (<<a>> \o b) \o c, l, n \cup {})
    BY <1>7, <1>11, <1>13, OpsForCat
  <2> QED
    BY <1>11, <2>1
<1>15. OpsFor(m, ((<<a>> \o b) \o c) \o d, l, n \cup w)
  BY <1>10, <1>12, <1>14, OpsForCat
<1>16. OpsFor(m, (((<<a>> \o b) \o c) \o d) \o e, l, n \cup w)
  <2>1. OpsFor(m, (((<<a>> \o b) \o c) \o d) \o e, l, (n \cup w) \cup {})
    BY <1>7, <1>11, <1>15, OpsForCat
  <2> QED
    BY <1>11, <2>1
<1>17. OpsFor(m, ((((<<a>> \o b) \o c) \o d) \o e) \o f, l, (n \cup w) \cup z)
  BY <1>10, <1>12, <1>16, OpsForCat
<1> QED
  BY <1>6, <1>10, <1>17

(* The last operations (llm.cpp:404-434)                                    *)
LEMMA EndOpsFor ==
  ASSUME NEW m
  PROVE  OpsFor(m, EndOps(m), 0, EndNames)
<1> DEFINE a == MergeAdd(m, "final_merge_add", 0)
           b == Norm(m, "final_inv_rms", "final_rms_norm", 0)
           x == Cast("final_cast_y", 0, InBuffer(m, "y"), InBuffer(m, "yq"))
           c == Quantized(m, x)
           f1 == Matmul(m, "final_matmul_logits", 0, Slice(m).wcls, "yq", "lg")
           f2 == Cast("final_cast_logits", 0, InBuffer(m, "lg"), Part(InPipe(m, "LG")))
           f == <<f1, f2>>
           n == {"final_rms_norm"}
           z == {"final_matmul_logits"}
<1>1. /\ {"final_merge_add", "final_inv_rms", "final_cast_y", "final_cast_logits"} \cap WeightNames = {}
      /\ EndNames \subseteq WeightNames /\ z \subseteq WeightNames
  BY DEF WeightNames, LayerNames, OnceNames, EndNames
<1>2. SliceOf(m, "final_matmul_logits") = Slice(m).wcls
  BY DEF SliceOf
<1>3. Light(a, 0) /\ Light(x, 0) /\ Light(f2, 0) /\ OpsFor(m, b, 0, n)
  BY <1>1, OpKinds
<1>4. Weighs(m, f1, 0, "final_matmul_logits")
  <2>1. \A name, input, output : Weighs(m, Matmul(m, name, 0, SliceOf(m, name), input, output), 0, name)
    BY OpKinds
  <2> QED
    BY <1>2, <2>1
<1>5. EndOps(m) = ((<<a>> \o b) \o c) \o f
  BY DEF EndOps
<1> HIDE DEF a, b, x, f1, f2
<1>6. OpsFor(m, <<a>>, 0, {}) /\ OpsFor(m, c, 0, {})
  BY <1>3, OpsForOne
<1> HIDE DEF c
<1>7. OpsFor(m, f, 0, z)
  <2>1. OpsFor(m, <<f1>>, 0, z) /\ OpsFor(m, <<f2>>, 0, {})
    BY <1>1, <1>3, <1>4, OpsForOne
  <2>2. OpsFor(m, <<f1>> \o <<f2>>, 0, z \cup {})
    BY <2>1, OpsForCat
  <2>3. f = <<f1>> \o <<f2>> /\ z \cup {} = z
    BY Split2
  <2> QED
    BY <2>2, <2>3
<1> HIDE DEF f
<1>8. n \cap z = {} /\ n \cup z = EndNames /\ {} \cup n = n /\ n \cup {} = n /\ {} \cap n = {} /\ n \cap {} = {}
  BY DEF EndNames
<1> HIDE DEF n, z
<1>9. OpsFor(m, <<a>> \o b, 0, n)
  <2>1. OpsFor(m, <<a>> \o b, 0, {} \cup n)
    BY <1>3, <1>6, <1>8, OpsForCat
  <2> QED
    BY <1>8, <2>1
<1>10. OpsFor(m, (<<a>> \o b) \o c, 0, n)
  <2>1. OpsFor(m, (<<a>> \o b) \o c, 0, n \cup {})
    BY <1>6, <1>8, <1>9, OpsForCat
  <2> QED
    BY <1>8, <2>1
<1>11. OpsFor(m, ((<<a>> \o b) \o c) \o f, 0, n \cup z)
  BY <1>7, <1>8, <1>10, OpsForCat
<1> QED
  BY <1>5, <1>8, <1>11

StartNames(node) == IF node = 0 THEN {"embedding"} ELSE {}

(* The first operation, which only the root has (llm.cpp:217-229)            *)
LEMMA StartOpsFor ==
  ASSUME NEW m, NEW node
  PROVE  OpsFor(m, StartOps(m, node), 0, StartNames(node))
<1>1. CASE node # 0
  BY <1>1, OpsForOne DEF StartOps, StartNames
<1>2. CASE node = 0
  <2> DEFINE x == Op("OP_EMBEDDING", "embedding", 0, InPipe(m, "TOK"), InPipe(m, "X"),
                     size2D("F_32", m.vocabSize, m.dim), <<>>)
  <2>1. StartOps(m, node) = <<x>> /\ StartNames(node) = {"embedding"}
    BY <1>2 DEF StartOps, StartNames
  <2>2. SliceOf(m, "embedding").sliceSize = size2D("F_32", m.vocabSize, m.dim) /\ "embedding" \in WeightNames
    BY DEF SliceOf, Whole, WeightNames, OnceNames
  <2>3. Weighs(m, x, 0, "embedding")
    BY <2>2 DEF Weighs, Op
  <2> HIDE DEF x
  <2> QED
    BY <2>1, <2>2, <2>3, OpsForOne
<1> QED
  BY <1>1, <1>2

-----------------------------------------------------------------------------
(* The operations of a node, segment by segment                             *)

(* the layer of a segment, and the names of the weights of its operations   *)
LayerOf(m, s) == IF s = 1 \/ s = 2 * m.nLayers + 2 THEN 0 ELSE (s \div 2) - 1

NamesIn(m, node, s) ==
  IF s = 1 THEN StartNames(node)
  ELSE IF s = 2 * m.nLayers + 2 THEN EndNames
  ELSE IF s % 2 = 0 THEN AttNames ELSE FfNames

(* What the operations of each segment are (llm.cpp:217-434)                *)
LEMMA SegmentOpsFor ==
  ASSUME NEW m, NEW node, m.nLayers \in Nat, NEW s \in 1 .. Len(Segments(m, node))
  PROVE  OpsFor(m, Segments(m, node)[s].ops, LayerOf(m, s), NamesIn(m, node, s))
<1> DEFINE all == Segments(m, node)
           n == m.nLayers
<1>1. /\ Len(all) = 2 * n + 2 /\ all[1] = Start(m, node) /\ all[2 * n + 2] = EndSegment(m)
      /\ \A l \in 1 .. n : all[2 * l] = AttSegment(m, node, l - 1) /\ all[2 * l + 1] = FfSegment(m, l - 1)
  BY SegmentNumbers DEF SegmentsAre
<1>2. n \in Nat /\ s \in Nat
  OBVIOUS
<1> HIDE DEF all, n
<1>3. CASE s = 1
  <2>1. all[s].ops = StartOps(m, node)
    BY <1>1, <1>3 DEF Start, Segment
  <2>2. LayerOf(m, s) = 0 /\ NamesIn(m, node, s) = StartNames(node)
    BY <1>3 DEF LayerOf, NamesIn
  <2> QED
    BY <2>1, <2>2, StartOpsFor DEF all
<1>4. CASE s # 1 /\ s = 2 * n + 2
  <2>1. all[s].ops = EndOps(m)
    BY <1>1, <1>4 DEF EndSegment, Segment
  <2>2. LayerOf(m, s) = 0 /\ NamesIn(m, node, s) = EndNames
    BY <1>4 DEF LayerOf, NamesIn, n
  <2> QED
    BY <2>1, <2>2, EndOpsFor DEF all
<1>5. CASE s # 1 /\ s # 2 * n + 2 /\ s % 2 = 0
  <2>0. s \div 2 \in 1 .. n /\ s = 2 * (s \div 2)
    BY <1>1, <1>2, <1>5 DEF all
  <2>1. PICK l \in 1 .. n : s = 2 * l /\ s \div 2 = l
    BY <2>0
  <2>2. all[s].ops = AttOps(m, node, l - 1)
    <3>1. all[s] = AttSegment(m, node, l - 1)
      BY <1>1, <2>1
    <3>2. AttSegment(m, node, l - 1).ops = AttOps(m, node, l - 1)
      BY DEF AttSegment, Segment
    <3> QED
      BY <3>1, <3>2
  <2>3. LayerOf(m, s) = (s \div 2) - 1 /\ NamesIn(m, node, s) = AttNames
    BY <1>5 DEF LayerOf, NamesIn, n
  <2> QED
    BY <2>1, <2>2, <2>3, AttOpsFor DEF all
<1>6. CASE s # 1 /\ s # 2 * n + 2 /\ s % 2 # 0
  <2>0. s \div 2 \in 1 .. n /\ s = 2 * (s \div 2) + 1
    BY <1>1, <1>2, <1>6 DEF all
  <2>1. PICK l \in 1 .. n : s = 2 * l + 1 /\ s \div 2 = l
    BY <2>0
  <2>2. all[s].ops = FfOps(m, l - 1)
    <3>1. all[s] = FfSegment(m, l - 1)
      BY <1>1, <2>1
    <3>2. FfSegment(m, l - 1).ops = FfOps(m, l - 1)
      BY DEF FfSegment, Segment
    <3> QED
      BY <3>1, <3>2
  <2>3. LayerOf(m, s) = (s \div 2) - 1 /\ NamesIn(m, node, s) = FfNames
    BY <1>6 DEF LayerOf, NamesIn, n
  <2> QED
    BY <2>1, <2>2, <2>3, FfOpsFor DEF all
<1> QED
  BY <1>3, <1>4, <1>5, <1>6

(* The names and layers of the weights that a node is given                 *)
HasWeight(m, node, name, l) ==
  \/ name \in LayerNames /\ l \in 0 .. (m.nLayers - 1)
  \/ name \in EndNames \cup StartNames(node) /\ l = 0

(* For each of them there is one segment (llm.cpp:217-434).                  *)
LEMMA OneSegment ==
  ASSUME NEW m, NEW node, m.nLayers \in Nat, NEW name, NEW l, HasWeight(m, node, name, l)
  PROVE  \E s \in 1 .. (2 * m.nLayers + 2) :
           /\ LayerOf(m, s) = l /\ name \in NamesIn(m, node, s)
           /\ \A t \in 1 .. (2 * m.nLayers + 2) : LayerOf(m, t) = l /\ name \in NamesIn(m, node, t) => t = s
<1> DEFINE n == m.nLayers
<1>1. /\ AttNames \cap FfNames = {} /\ AttNames \cap EndNames = {} /\ FfNames \cap EndNames = {}
      /\ "embedding" \notin AttNames \cup FfNames \cup EndNames
      /\ LayerNames = AttNames \cup FfNames
  BY DEF AttNames, FfNames, EndNames, LayerNames
<1>2. StartNames(node) \subseteq {"embedding"}
  BY DEF StartNames
<1>3. n \in Nat
  OBVIOUS
<1>4. \A s : /\ s = 1 => NamesIn(m, node, s) = StartNames(node)
             /\ s = 2 * n + 2 /\ s # 1 => NamesIn(m, node, s) = EndNames
             /\ s # 1 /\ s # 2 * n + 2 /\ s % 2 = 0 => NamesIn(m, node, s) = AttNames
             /\ s # 1 /\ s # 2 * n + 2 /\ s % 2 # 0 => NamesIn(m, node, s) = FfNames
  BY DEF NamesIn
<1>5. \A s : /\ s = 1 \/ s = 2 * n + 2 => LayerOf(m, s) = 0
             /\ s # 1 /\ s # 2 * n + 2 => LayerOf(m, s) = (s \div 2) - 1
  BY DEF LayerOf
<1> HIDE DEF n
<1>6. CASE name \in AttNames /\ l \in 0 .. (n - 1)
  <2> DEFINE s == 2 * l + 2
  <2>1. s \in 1 .. (2 * n + 2) /\ s # 1 /\ s # 2 * n + 2 /\ s % 2 = 0 /\ (s \div 2) - 1 = l
    BY <1>3, <1>6
  <2>2. LayerOf(m, s) = l /\ name \in NamesIn(m, node, s)
    BY <1>4, <1>5, <1>6, <2>1
  <2>3. ASSUME NEW t \in 1 .. (2 * n + 2), LayerOf(m, t) = l, name \in NamesIn(m, node, t) PROVE t = s
    <3>1. t # 1 /\ t # 2 * n + 2 /\ t % 2 = 0
      BY <1>1, <1>2, <1>4, <1>6, <2>3
    <3>2. (t \div 2) - 1 = l
      BY <1>5, <2>3, <3>1
    <3> QED
      BY <1>3, <1>6, <3>1, <3>2
  <2> QED
    BY <2>1, <2>2, <2>3 DEF n
<1>7. CASE name \in FfNames /\ l \in 0 .. (n - 1)
  <2> DEFINE s == 2 * l + 3
  <2>1. s \in 1 .. (2 * n + 2) /\ s # 1 /\ s # 2 * n + 2 /\ s % 2 # 0 /\ (s \div 2) - 1 = l
    BY <1>3, <1>7
  <2>2. LayerOf(m, s) = l /\ name \in NamesIn(m, node, s)
    BY <1>4, <1>5, <1>7, <2>1
  <2>3. ASSUME NEW t \in 1 .. (2 * n + 2), LayerOf(m, t) = l, name \in NamesIn(m, node, t) PROVE t = s
    <3>1. t # 1 /\ t # 2 * n + 2 /\ t % 2 # 0
      BY <1>1, <1>2, <1>4, <1>7, <2>3
    <3>2. (t \div 2) - 1 = l
      BY <1>5, <2>3, <3>1
    <3> QED
      BY <1>3, <1>7, <3>1, <3>2
  <2> QED
    BY <2>1, <2>2, <2>3 DEF n
<1>8. CASE name \in EndNames /\ l = 0
  <2> DEFINE s == 2 * n + 2
  <2>1. s \in 1 .. (2 * n + 2) /\ s # 1
    BY <1>3
  <2>2. LayerOf(m, s) = l /\ name \in NamesIn(m, node, s)
    BY <1>4, <1>5, <1>8, <2>1
  <2>3. ASSUME NEW t \in 1 .. (2 * n + 2), name \in NamesIn(m, node, t) PROVE t = s
    BY <1>1, <1>2, <1>4, <1>8, <2>3
  <2> QED
    BY <2>1, <2>2, <2>3 DEF n
<1>9. CASE name \in StartNames(node) /\ l = 0
  <2>1. 1 \in 1 .. (2 * n + 2)
    BY <1>3
  <2>2. LayerOf(m, 1) = l /\ name \in NamesIn(m, node, 1)
    BY <1>4, <1>5, <1>9
  <2>3. ASSUME NEW t \in 1 .. (2 * n + 2), name \in NamesIn(m, node, t) PROVE t = 1
    BY <1>1, <1>2, <1>4, <1>9, <2>3
  <2> QED
    BY <2>1, <2>2, <2>3 DEF n
<1> QED
  BY <1>1, <1>6, <1>7, <1>8, <1>9 DEF HasWeight, n

(* An operation for each weight of the node, and none twice                 *)
OneOperation(m, node, name, l) ==
  LET all == Segments(m, node)
  IN  \E s \in 1 .. Len(all) : \E i \in 1 .. Len(all[s].ops) :
        /\ Weighs(m, all[s].ops[i], l, name)
        /\ \A t \in 1 .. Len(all) : \A j \in 1 .. Len(all[t].ops) :
             all[t].ops[j].name = name /\ all[t].ops[j].index = l => t = s /\ j = i

(* loadWeight finds an operation by its name and layer (nn-executor.cpp:133-147, *)
(* llm.cpp:217-434).                                                        *)
LEMMA OperationOfWeight ==
  ASSUME NEW m, NEW node, m.nLayers \in Nat, NEW name, NEW l, HasWeight(m, node, name, l)
  PROVE  OneOperation(m, node, name, l)
<1> DEFINE all == Segments(m, node)
<1>1. Len(all) = 2 * m.nLayers + 2
  BY SegmentNumbers DEF SegmentsAre
<1>2. PICK s \in 1 .. Len(all) :
        /\ LayerOf(m, s) = l /\ name \in NamesIn(m, node, s)
        /\ \A t \in 1 .. Len(all) : LayerOf(m, t) = l /\ name \in NamesIn(m, node, t) => t = s
  BY <1>1, OneSegment
<1>3. \A t \in 1 .. Len(all) : OpsFor(m, all[t].ops, LayerOf(m, t), NamesIn(m, node, t))
  BY SegmentOpsFor
<1> HIDE DEF all
<1>4. PICK i \in 1 .. Len(all[s].ops) :
        all[s].ops[i].name = name /\ \A j \in 1 .. Len(all[s].ops) : all[s].ops[j].name = name => j = i
  BY <1>2, <1>3 DEF OpsFor
<1>5. \A t \in 1 .. Len(all) : NamesIn(m, node, t) \subseteq WeightNames
  BY <1>3 DEF OpsFor
<1>6. \A t \in 1 .. Len(all) : \A j \in 1 .. Len(all[t].ops) :
        \/ Light(all[t].ops[j], LayerOf(m, t))
        \/ \E x \in NamesIn(m, node, t) : Weighs(m, all[t].ops[j], LayerOf(m, t), x)
  BY <1>3 DEF OpsFor
<1>7. name \in WeightNames
  BY <1>2, <1>5
<1>8. Weighs(m, all[s].ops[i], l, name)
  <2>1. ~Light(all[s].ops[i], l)
    BY <1>4, <1>7 DEF Light
  <2>2. PICK x \in NamesIn(m, node, s) : Weighs(m, all[s].ops[i], l, x)
    BY <1>2, <1>6, <2>1
  <2>3. x = name
    BY <1>4, <2>2 DEF Weighs
  <2> QED
    BY <2>2, <2>3
<1>9. ASSUME NEW t \in 1 .. Len(all), NEW j \in 1 .. Len(all[t].ops),
             all[t].ops[j].name = name, all[t].ops[j].index = l
      PROVE  t = s /\ j = i
  <2>1. ~Light(all[t].ops[j], LayerOf(m, t))
    BY <1>7, <1>9 DEF Light
  <2>2. PICK x \in NamesIn(m, node, t) : Weighs(m, all[t].ops[j], LayerOf(m, t), x)
    BY <1>6, <2>1
  <2>3. x = name /\ LayerOf(m, t) = l
    BY <1>9, <2>2 DEF Weighs
  <2>4. t = s
    BY <1>2, <2>2, <2>3
  <2>5. j \in 1 .. Len(all[s].ops) /\ all[s].ops[j].name = name
    BY <1>9, <2>4
  <2> QED
    BY <1>4, <2>4, <2>5
<1> QED
  BY <1>8, <1>9 DEF OneOperation, all

(* The weight of a name and layer that a segment has is one of the node's.  *)
LEMMA SegmentHas ==
  ASSUME NEW m, NEW node, m.nLayers \in Nat, NEW s \in 1 .. (2 * m.nLayers + 2),
         NEW name \in NamesIn(m, node, s)
  PROVE  HasWeight(m, node, name, LayerOf(m, s))
<1> DEFINE n == m.nLayers
<1>1. AttNames \cup FfNames \subseteq LayerNames
  BY DEF AttNames, FfNames, LayerNames
<1>2. n \in Nat /\ s \in 1 .. (2 * n + 2)
  OBVIOUS
<1>3. CASE s = 1
  BY <1>3 DEF NamesIn, LayerOf, HasWeight
<1>4. CASE s # 1 /\ s = 2 * n + 2
  BY <1>4 DEF NamesIn, LayerOf, HasWeight
<1>5. CASE s # 1 /\ s # 2 * n + 2
  <2>1. LayerOf(m, s) = (s \div 2) - 1 /\ name \in AttNames \cup FfNames
    BY <1>5 DEF LayerOf, NamesIn
  <2> HIDE DEF n
  <2>2. (s \div 2) - 1 \in 0 .. (n - 1)
    BY <1>2, <1>5
  <2> QED
    BY <1>1, <2>1, <2>2 DEF HasWeight, n
<1> QED
  BY <1>3, <1>4, <1>5

(* Every operation has no weight or one of the node's (llm.cpp:217-434).     *)
LEMMA WeightOfOperation ==
  ASSUME NEW m, NEW node, m.nLayers \in Nat,
         NEW s \in 1 .. Len(Segments(m, node)), NEW i \in 1 .. Len(Segments(m, node)[s].ops)
  PROVE  LET op == Segments(m, node)[s].ops[i]
         IN  \/ op.weightSize = size0
             \/ \E name : Weighs(m, op, op.index, name) /\ HasWeight(m, node, name, op.index)
<1> DEFINE ops == Segments(m, node)[s].ops
           l == LayerOf(m, s)
<1>1. Len(Segments(m, node)) = 2 * m.nLayers + 2
  BY SegmentNumbers DEF SegmentsAre
<1>2. OpsFor(m, ops, l, NamesIn(m, node, s))
  BY SegmentOpsFor
<1>3. Light(ops[i], l) \/ \E name \in NamesIn(m, node, s) : Weighs(m, ops[i], l, name)
  <2> HIDE DEF l
  <2> QED
    BY <1>2 DEF OpsFor
<1>4. CASE Light(ops[i], l)
  BY <1>4 DEF Light
<1>5. CASE \E name \in NamesIn(m, node, s) : Weighs(m, ops[i], l, name)
  <2>1. PICK name \in NamesIn(m, node, s) : Weighs(m, ops[i], l, name)
    BY <1>5
  <2>2. HasWeight(m, node, name, l)
    BY <1>1, SegmentHas
  <2>3. ops[i].index = l
    BY <2>1 DEF Weighs
  <2> QED
    BY <2>1, <2>2, <2>3
<1> QED
  BY <1>3, <1>4, <1>5

-----------------------------------------------------------------------------
(* What a worker is told                                                    *)

Structure(m, w, id) == StructAt(NetConfig(m), NodeConfig(m, w), id)

Named == {"pipes", "buffers", "ops"}

(* The fields read for a structure: those it has, and the length of its name. *)
FieldsIn(id) == StructFields[id[1]] \cup IF id[1] \in Named THEN {"bytes"} ELSE {}

ConfigIds(m, w) == Ids(NetConfig(m), NodeConfig(m, w))

(* Everything a worker reads of a configuration, and the magic number       *)
Pairs(m, w) ==
  {<<Locals, "ack">>} \cup UNION {{<<id, f>> : f \in FieldsIn(id)} : id \in ConfigIds(m, w)}

NetKinds == {"locals", "net", "pipes", "preSyncs"}

NetPairs(m, w) == {p \in Pairs(m, w) : p[1][1] \in NetKinds}

(* The value that a field has *)
Told(m, w, id, field) ==
  CASE id = Locals                       -> "ACK"
    [] id # Locals /\ field = "bytes"    -> strlen(Structure(m, w, id).name) + 1
    [] id # Locals /\ field # "bytes"    -> Structure(m, w, id)[field]

PreSyncFields(p) == << UInt(p.pipeIndex) >>

(* The fields that the root writes for what an item stands for *)
Written(m, w, of, id) ==
  LET net     == NetConfig(m)
      node    == NodeConfig(m, w)
      here    == Structure(m, w, id)
  IN  CASE of = "name"       -> << Bytes(strlen(here.name) + 1, here.name) >>
        [] of = "config"     -> << Bytes(here.configSize, here.config) >>
        [] of = "pipes"      -> Each(net.pipes, BufferFields)
        [] of = "preSyncs"   -> Each(net.preSyncs, PreSyncFields)
        [] of = "buffers"    -> Each(node.buffers, BufferFields)
        [] of = "segments"   -> Each(node.segments, SegmentFields)
        [] of = "syncs"      -> Each(here.syncs, SyncFields)
        [] of = "ops"        -> Each(here.ops, OpFields)
        [] of = "cacheSyncs" -> Each(here.cacheSyncs, CacheSyncFields)

Says(m, w, item) ==
  IF item.do = "read" THEN << Field(item.size, Told(m, w, item.id, item.field)) >>
  ELSE Written(m, w, item.of, item.id)

Said(m, w, items) == FlattenSeq([i \in DOMAIN items |-> Says(m, w, items[i])])

(* The items that reading a configuration goes through                      *)
Expandable(m, w) ==
  {<<"pipes", Net>>, <<"preSyncs", Net>>, <<"buffers", Node>>, <<"segments", Node>>}
  \cup {<<"name", id>> : id \in {i \in ConfigIds(m, w) : i[1] \in Named}}
  \cup {<<"config", id>> : id \in {i \in ConfigIds(m, w) : i[1] = "ops"}}
  \cup OfSegment \X {i \in ConfigIds(m, w) : i[1] = "segments"}

ItemOK(m, w, x) ==
  x.do = "read" \/ (x.do = "expand" /\ <<x.of, x.id>> \in Expandable(m, w))

(* what an item will read *)
Covers(m, w, x) ==
  CASE x.do = "read" -> {<<x.id, x.field>>}
    [] x.do # "read" /\ x.of \in {"name", "config"} -> {<<x.id, x.of>>}
    [] x.do # "read" /\ x.of = "segments" ->
         {p \in Pairs(m, w) : p[1][1] \in {"segments"} \cup OfSegment}
    [] x.do # "read" /\ x.of \notin {"name", "config", "segments"} ->
         {p \in Pairs(m, w) : p[1][1] = x.of /\ p[1][2] = x.id[3]}

Coverage(m, w, items) == UNION {Covers(m, w, x) : x \in Elems(items)}

(* the field on which it depends what an item is expanded to *)
Needs(x) ==
  <<x.id, CASE x.of = "name"   -> "bytes"
            [] x.of = "config" -> "configSize"
            [] x.of \notin {"name", "config"} -> CountOf[x.of]>>

(* Each item is expanded after the field it depends on is read.             *)
InOrder(known, items) ==
  \A i \in 1 .. Len(items) :
    items[i].do = "expand" =>
      \/ Needs(items[i]) \in known
      \/ \E j \in 1 .. (i - 1) :
           items[j].do = "read" /\ <<items[j].id, items[j].field>> = Needs(items[i])

Known(g) == UNION {{<<id, f>> : f \in DOMAIN g[id]} : id \in DOMAIN g}

-----------------------------------------------------------------------------
(* What the root does for one node                                          *)

PartOf(n, prog) ==
  FlattenSeq([i \in DOMAIN prog |-> IF prog[i].node = n THEN << prog[i] >> ELSE <<>>])

RestOf(prog, n) == [i \in 1 .. (Len(prog) - n) |-> prog[n + i]]

WeightFields(m, w, k) ==
  LET weight == Weights(m)[k]
      n      == Cells(weight.slice.sliceSize)
  IN  String(weight.name) \o << UInt(weight.index), Field(<<"nnsize">>, n), Bytes(n, WeightPart(k, w)) >>

(* what follows weight k *)
After(m, w, k) ==
  FlattenSeq([j \in 1 .. (Len(Weights(m)) - k) |-> Write(w, WeightFields(m, w, k + j))])
  \o (Write(w, << UInt(0) >>) \o AwaitAck(w))

(* what the root still loads for itself after weight k *)
OwnAfter(m, k) == FlattenSeq([j \in 1 .. (Len(Weights(m)) - k) |-> LoadOwn(k + j)])

(* the items of the two configurations *)
NetItems ==
  Read(<<"ack">>, Locals, "ack")
  \o ReadUInt(Net, "nBatches") \o ReadUInt(Net, "nNodes")
  \o ReadUInt(Net, "nPipes") \o ReadUInt(Net, "nSlots") \o Expand("pipes", Net)
  \o ReadUInt(Net, "nPreSyncs") \o Expand("preSyncs", Net)

NodeItems ==
  Read(<<"ack">>, Locals, "ack")
  \o ReadUInt(Node, "nodeIndex") \o ReadUInt(Node, "nBuffers") \o ReadUInt(Node, "nSegments")
  \o Expand("buffers", Node) \o Expand("segments", Node)

(* what follows the configuration of the network *)
NetMore(m, w) == Write(w, writeNode(NodeConfig(m, w))) \o (AwaitAck(w) \o After(m, w, 1))

-----------------------------------------------------------------------------
(* Maps over lists of lists                                                 *)

(* What maps lists one after the other maps a list of lists.                *)
LEMMA MapsFlat ==
  ASSUME NEW s, AreSeqs(s), NEW M,
         M[<<>>] = <<>>,
         \A a, b : /\ IsSeq(a) /\ Elems(a) \subseteq Elems(FlattenSeq(s))
                   /\ IsSeq(b) /\ Elems(b) \subseteq Elems(FlattenSeq(s))
                   => IsSeq(M[a]) /\ M[a \o b] = M[a] \o M[b]
  PROVE  /\ M[FlattenSeq(s)] = FlattenSeq([i \in 1 .. Len(s) |-> M[s[i]]])
         /\ AreSeqs([i \in 1 .. Len(s) |-> M[s[i]]])
<1> DEFINE n == Len(s)
           t == [i \in 1 .. n |-> M[s[i]]]
           whole == Elems(FlattenSeq(s))
<1>1. n \in Nat /\ IsSeq(s) /\ \A i \in 1 .. n : IsSeq(s[i])
  BY SeqShape DEF AreSeqs
<1>2. whole = UNION {Elems(s[k]) : k \in 1 .. n}
  BY FlatElems
<1>3. \A i \in 1 .. n : Elems(s[i]) \subseteq whole
  BY <1>2
<1>4. \A i \in 1 .. n : t[i] = M[s[i]] /\ IsSeq(t[i])
  BY <1>1, <1>3
<1>5. IsSeq(t) /\ Len(t) = n /\ t = [i \in 1 .. n |-> t[i]]
  <2>1. t = [i \in 1 .. n |-> t[i]]
    OBVIOUS
  <2> HIDE DEF t
  <2> QED
    BY <1>1, <2>1, SeqOfFcn
<1>6. AreSeqs(t)
  BY <1>4, <1>5 DEF AreSeqs
<1>7. /\ \A k \in 0 .. n : IsSeq(FlattenSeq(FrontOf(s, k))) /\ AreSeqs(FrontOf(s, k))
      /\ FlattenSeq(FrontOf(s, 0)) = <<>> /\ FlattenSeq(FrontOf(s, n)) = FlattenSeq(s)
      /\ \A k \in 1 .. n : FlattenSeq(FrontOf(s, k)) = FlattenSeq(FrontOf(s, k - 1)) \o s[k]
  BY FlatFronts
<1>8. /\ FlattenSeq(FrontOf(t, 0)) = <<>> /\ FlattenSeq(FrontOf(t, n)) = FlattenSeq(t)
      /\ \A k \in 1 .. n : FlattenSeq(FrontOf(t, k)) = FlattenSeq(FrontOf(t, k - 1)) \o t[k]
  <2> HIDE DEF t
  <2> QED
    BY <1>5, <1>6, FlatFronts
<1>9. ASSUME NEW k \in 0 .. n PROVE Elems(FlattenSeq(FrontOf(s, k))) \subseteq whole
  <2> DEFINE f == FrontOf(s, k)
  <2>1. AreSeqs(f)
    BY <1>7
  <2>2. f = [i \in 1 .. k |-> f[i]] /\ k \in Nat /\ \A i \in 1 .. k : f[i] = s[i] /\ i \in 1 .. n
    BY <1>1 DEF FrontOf
  <2> HIDE DEF f
  <2>3. Len(f) = k
    BY <2>2, SeqOfFcn
  <2>4. Elems(FlattenSeq(f)) = UNION {Elems(f[i]) : i \in 1 .. k}
    BY <2>1, <2>3, FlatElems
  <2>5. Elems(FlattenSeq(f)) \subseteq whole
    BY <2>2, <2>4, <1>3
  <2> QED
    BY <2>5 DEF f
<1> DEFINE P == {k \in 0 .. n : M[FlattenSeq(FrontOf(s, k))] = FlattenSeq(FrontOf(t, k))}
<1>10. 0 \in P
  BY <1>1, <1>7, <1>8
<1>11. ASSUME NEW k \in 1 .. n, k - 1 \in P PROVE k \in P
  <2> DEFINE a == FlattenSeq(FrontOf(s, k - 1))
  <2>0. k - 1 \in 0 .. n /\ k \in 0 .. n
    BY <1>1
  <2>1. IsSeq(a) /\ Elems(a) \subseteq whole
    BY <1>7, <1>9, <2>0
  <2>2. IsSeq(s[k]) /\ Elems(s[k]) \subseteq whole
    BY <1>1, <1>3
  <2>3. M[a \o s[k]] = M[a] \o M[s[k]]
    BY <2>1, <2>2
  <2>4. M[a] = FlattenSeq(FrontOf(t, k - 1))
    BY <1>11
  <2>5. FlattenSeq(FrontOf(s, k)) = a \o s[k] /\ t[k] = M[s[k]]
    BY <1>7, <1>4
  <2>6. FlattenSeq(FrontOf(t, k)) = FlattenSeq(FrontOf(t, k - 1)) \o t[k]
    BY <1>8
  <2>7. M[FlattenSeq(FrontOf(s, k))] = FlattenSeq(FrontOf(t, k))
    <3> HIDE DEF a, t
    <3> QED
      BY <2>3, <2>4, <2>5, <2>6
  <2> QED
    BY <2>0, <2>7
<1>12. 0 .. n \subseteq P
  <2> HIDE DEF P
  <2> QED
    BY <1>1, <1>10, <1>11, UpTo
<1>13. n \in P
  BY <1>1, <1>12
<1> QED
  BY <1>6, <1>7, <1>8, <1>13

-----------------------------------------------------------------------------
(* What is said by items                                                    *)

(* The fields of items one after the other.                                 *)
LEMMA SaidCat ==
  ASSUME NEW m, NEW w, NEW a, NEW b, IsSeq(a), IsSeq(b),
         \A x \in Elems(a) \cup Elems(b) : IsSeq(Says(m, w, x))
  PROVE  /\ IsSeq(Said(m, w, a)) /\ Said(m, w, <<>>) = <<>>
         /\ Said(m, w, a \o b) = Said(m, w, a) \o Said(m, w, b)
<1> DEFINE f(s) == [i \in 1 .. Len(s) |-> Says(m, w, s[i])]
<1>1. Len(a) \in Nat /\ Len(b) \in Nat /\ DOMAIN a = 1 .. Len(a) /\ DOMAIN b = 1 .. Len(b)
  BY SeqShape
<1>2. ASSUME NEW s, IsSeq(s), \A x \in Elems(s) : IsSeq(Says(m, w, x))
      PROVE  AreSeqs(f(s)) /\ Len(f(s)) = Len(s) /\ \A i \in 1 .. Len(s) : f(s)[i] = Says(m, w, s[i])
  <2>1. Len(s) \in Nat
    BY <1>2, SeqShape
  <2>2. f(s) = [i \in 1 .. Len(s) |-> f(s)[i]] /\ \A i \in 1 .. Len(s) : f(s)[i] = Says(m, w, s[i])
    OBVIOUS
  <2>3. \A i \in 1 .. Len(s) : IsSeq(f(s)[i])
    BY <1>2, <2>2 DEF Elems
  <2> HIDE DEF f
  <2>4. IsSeq(f(s)) /\ Len(f(s)) = Len(s)
    BY <2>1, <2>2, SeqOfFcn
  <2> QED
    BY <2>2, <2>3, <2>4 DEF AreSeqs
<1>3. IsSeq(a \o b) /\ Len(a \o b) = Len(a) + Len(b)
      /\ Elems(a \o b) = Elems(a) \cup Elems(b)
  BY Cat, CatElems
<1>4. DOMAIN (a \o b) = 1 .. Len(a \o b)
  BY <1>3, SeqShape
<1>5. AreSeqs(f(a)) /\ AreSeqs(f(b)) /\ AreSeqs(f(a \o b))
  <2> HIDE DEF f
  <2> QED
    BY <1>2, <1>3
<1>6. f(a \o b) = f(a) \o f(b)
  <2> DEFINE fa == f(a)
             fb == f(b)
             fc == f(a \o b)
  <2>1. IsSeq(fa) /\ Len(fa) = Len(a) /\ \A i \in 1 .. Len(a) : fa[i] = Says(m, w, a[i])
    BY <1>2 DEF AreSeqs
  <2>2. IsSeq(fb) /\ Len(fb) = Len(b) /\ \A i \in 1 .. Len(b) : fb[i] = Says(m, w, b[i])
    BY <1>2 DEF AreSeqs
  <2>3. /\ IsSeq(fc) /\ Len(fc) = Len(a) + Len(b)
        /\ \A i \in 1 .. (Len(a) + Len(b)) : fc[i] = Says(m, w, (a \o b)[i])
    BY <1>2, <1>3 DEF AreSeqs
  <2> HIDE DEF fa, fb, fc
  <2>4. /\ IsSeq(fa \o fb) /\ Len(fa \o fb) = Len(a) + Len(b)
        /\ \A i \in 1 .. (Len(a) + Len(b)) :
              (fa \o fb)[i] = IF i <= Len(a) THEN fa[i] ELSE fb[i - Len(a)]
    BY <2>1, <2>2, Cat
  <2>5. \A i \in 1 .. (Len(a) + Len(b)) : (a \o b)[i] = IF i <= Len(a) THEN a[i] ELSE b[i - Len(a)]
    BY Cat
  <2>6. ASSUME NEW i \in 1 .. (Len(a) + Len(b)) PROVE fc[i] = (fa \o fb)[i]
    <3>1. CASE i <= Len(a)
      <4>1. i \in 1 .. Len(a)
        BY <3>1, <1>1
      <4> QED
        BY <4>1, <3>1, <2>1, <2>3, <2>4, <2>5
    <3>2. CASE ~(i <= Len(a))
      <4>1. i - Len(a) \in 1 .. Len(b)
        BY <3>2, <1>1
      <4> QED
        BY <4>1, <3>2, <2>2, <2>3, <2>4, <2>5
    <3> QED
      BY <3>1, <3>2
  <2>7. fc = fa \o fb
    BY <2>3, <2>4, <2>6, SameSeq
  <2> QED
    BY <2>7 DEF fa, fb, fc
<1>7. FlattenSeq(f(a) \o f(b)) = FlattenSeq(f(a)) \o FlattenSeq(f(b)) /\ IsSeq(FlattenSeq(f(a)))
  <2> HIDE DEF f
  <2> QED
    BY <1>5, FlatCat, FlatIsSeq
<1>8. /\ Said(m, w, a) = FlattenSeq(f(a)) /\ Said(m, w, b) = FlattenSeq(f(b))
      /\ Said(m, w, a \o b) = FlattenSeq(f(a \o b))
  BY <1>1, <1>4 DEF Said
<1>9. Said(m, w, <<>>) = <<>>
  <2>1. [i \in DOMAIN <<>> |-> Says(m, w, <<>>[i])] = <<>>
    OBVIOUS
  <2> QED
    BY <2>1, FlatEmpty DEF Said
<1> QED
  <2> HIDE DEF f
  <2> QED
    BY <1>6, <1>7, <1>8, <1>9

(* What one item says.                                                      *)
LEMMA SaidOne ==
  ASSUME NEW m, NEW w, NEW x, IsSeq(Says(m, w, x))
  PROVE  Said(m, w, <<x>>) = Says(m, w, x)
<1>1. [i \in DOMAIN <<x>> |-> Says(m, w, <<x>>[i])] = <<Says(m, w, x)>>
  OBVIOUS
<1> QED
  BY <1>1, FlatOne DEF Said

(* What the items of several lists say.                                     *)
LEMMA SaidFlat ==
  ASSUME NEW m, NEW w, NEW s, AreSeqs(s),
         \A x \in Elems(FlattenSeq(s)) : IsSeq(Says(m, w, x))
  PROVE  /\ Said(m, w, FlattenSeq(s)) = FlattenSeq([i \in 1 .. Len(s) |-> Said(m, w, s[i])])
         /\ AreSeqs([i \in 1 .. Len(s) |-> Said(m, w, s[i])])
<1> DEFINE U == Elems(FlattenSeq(s))
           M == [a \in Seq(U) |-> Said(m, w, a)]
<1>1. ASSUME NEW a, IsSeq(a), Elems(a) \subseteq U PROVE a \in Seq(U)
  <2>1. Len(a) \in Nat /\ a = [i \in 1 .. Len(a) |-> a[i]] /\ \A i \in 1 .. Len(a) : a[i] \in U
    BY <1>1, SeqShape DEF Elems
  <2> QED
    BY <2>1
<1>2. \A a, b : IsSeq(a) /\ Elems(a) \subseteq U /\ IsSeq(b) /\ Elems(b) \subseteq U
                => IsSeq(M[a]) /\ M[a \o b] = M[a] \o M[b]
  <2> SUFFICES ASSUME NEW a, NEW b, IsSeq(a), Elems(a) \subseteq U, IsSeq(b), Elems(b) \subseteq U
               PROVE  IsSeq(M[a]) /\ M[a \o b] = M[a] \o M[b]
    OBVIOUS
  <2>1. IsSeq(a \o b) /\ Elems(a \o b) \subseteq U
    BY Cat, CatElems
  <2>2. a \in Seq(U) /\ b \in Seq(U) /\ (a \o b) \in Seq(U)
    BY <1>1, <2>1
  <2>3. IsSeq(Said(m, w, a)) /\ Said(m, w, a \o b) = Said(m, w, a) \o Said(m, w, b)
    BY SaidCat
  <2> QED
    BY <2>2, <2>3
<1>3. M[<<>>] = <<>>
  <2>1. <<>> \in Seq(U)
    OBVIOUS
  <2>2. Said(m, w, <<>>) = <<>>
    BY EmptyIsSeq, ElemsOfNone, SaidCat
  <2> QED
    BY <2>1, <2>2
<1>4. /\ M[FlattenSeq(s)] = FlattenSeq([i \in 1 .. Len(s) |-> M[s[i]]])
      /\ AreSeqs([i \in 1 .. Len(s) |-> M[s[i]]])
  <2> HIDE DEF M
  <2> QED
    BY <1>2, <1>3, MapsFlat
<1>5. IsSeq(FlattenSeq(s)) /\ M[FlattenSeq(s)] = Said(m, w, FlattenSeq(s))
  BY <1>1, FlatIsSeq
<1>6. \A i \in 1 .. Len(s) : M[s[i]] = Said(m, w, s[i])
  <2> SUFFICES ASSUME NEW i \in 1 .. Len(s) PROVE M[s[i]] = Said(m, w, s[i])
    OBVIOUS
  <2>1. IsSeq(s[i])
    BY DEF AreSeqs
  <2>2. Elems(s[i]) \subseteq U
    BY FlatElems
  <2> QED
    BY <1>1, <2>1, <2>2
<1>7. [i \in 1 .. Len(s) |-> M[s[i]]] = [i \in 1 .. Len(s) |-> Said(m, w, s[i])]
  BY <1>6
<1> QED
  <2> HIDE DEF M, U
  <2> QED
    BY <1>4, <1>5, <1>7

-----------------------------------------------------------------------------
(* The program of the root, seen from one node                              *)

(* Writing two lists of fields is writing one after the other.              *)
LEMMA WriteCat ==
  ASSUME NEW w, NEW a, NEW b, IsSeq(a), IsSeq(b)
  PROVE  /\ IsSeq(Write(w, a)) /\ Len(Write(w, a)) = Len(a)
         /\ Write(w, a \o b) = Write(w, a) \o Write(w, b)
<1> DEFINE g(x) == [do |-> "write", node |-> w, field |-> x]
<1>1. ASSUME NEW s, IsSeq(s)
      PROVE  /\ IsSeq(Write(w, s)) /\ Len(Write(w, s)) = Len(s)
             /\ \A i \in 1 .. Len(s) : Write(w, s)[i] = g(s[i])
  <2>1. Len(s) \in Nat /\ DOMAIN s = 1 .. Len(s)
    BY <1>1, SeqShape
  <2> DEFINE t == Write(w, s)
  <2>2. t = [i \in 1 .. Len(s) |-> t[i]] /\ \A i \in 1 .. Len(s) : t[i] = g(s[i])
    BY <2>1 DEF Write
  <2> HIDE DEF t
  <2>3. IsSeq(t) /\ Len(t) = Len(s)
    BY <2>1, <2>2, SeqOfFcn
  <2> QED
    BY <2>2, <2>3 DEF t
<1> DEFINE wa == Write(w, a)
           wb == Write(w, b)
           wc == Write(w, a \o b)
<1>2. IsSeq(a \o b) /\ Len(a \o b) = Len(a) + Len(b) /\ Len(a) \in Nat /\ Len(b) \in Nat
  BY Cat, SeqShape
<1>3. IsSeq(wa) /\ Len(wa) = Len(a) /\ \A i \in 1 .. Len(a) : wa[i] = g(a[i])
  BY <1>1
<1>4. IsSeq(wb) /\ Len(wb) = Len(b) /\ \A i \in 1 .. Len(b) : wb[i] = g(b[i])
  BY <1>1
<1>5. /\ IsSeq(wc) /\ Len(wc) = Len(a) + Len(b)
      /\ \A i \in 1 .. (Len(a) + Len(b)) : wc[i] = g((a \o b)[i])
  BY <1>1, <1>2
<1> HIDE DEF wa, wb, wc
<1>6. /\ IsSeq(wa \o wb) /\ Len(wa \o wb) = Len(a) + Len(b)
      /\ \A i \in 1 .. (Len(a) + Len(b)) :
            (wa \o wb)[i] = IF i <= Len(a) THEN wa[i] ELSE wb[i - Len(a)]
  BY <1>3, <1>4, Cat
<1>7. \A i \in 1 .. (Len(a) + Len(b)) : (a \o b)[i] = IF i <= Len(a) THEN a[i] ELSE b[i - Len(a)]
  BY Cat
<1>8. ASSUME NEW i \in 1 .. (Len(a) + Len(b)) PROVE wc[i] = (wa \o wb)[i]
  <2>1. CASE i <= Len(a)
    <3>1. i \in 1 .. Len(a)
      BY <2>1, <1>2
    <3> QED
      BY <3>1, <2>1, <1>3, <1>5, <1>6, <1>7
  <2>2. CASE ~(i <= Len(a))
    <3>1. i - Len(a) \in 1 .. Len(b)
      BY <2>2, <1>2
    <3> QED
      BY <3>1, <2>2, <1>4, <1>5, <1>6, <1>7
  <2> QED
    BY <2>1, <2>2
<1>9. wc = wa \o wb
  BY <1>5, <1>6, <1>8, SameSeq
<1> QED
  BY <1>3, <1>9 DEF wa, wb, wc

(* Written fields come one by one, and are never acknowledgements.          *)
LEMMA WriteCons ==
  ASSUME NEW w, NEW x, NEW s, IsSeq(s)
  PROVE  /\ Write(w, <<>>) = <<>>
         /\ Write(w, <<x>>) = << [do |-> "write", node |-> w, field |-> x] >>
         /\ Write(w, <<x>> \o s) = << [do |-> "write", node |-> w, field |-> x] >> \o Write(w, s)
<1>1. Write(w, <<>>) = <<>> /\ Write(w, <<x>>) = << [do |-> "write", node |-> w, field |-> x] >>
  BY DEF Write
<1> DEFINE y == <<x>>
<1>2. IsSeq(y)
  BY OneIsSeq
<1>3. Write(w, y \o s) = Write(w, y) \o Write(w, s)
  <2> HIDE DEF y
  <2> QED
    BY <1>2, WriteCat
<1> QED
  BY <1>1, <1>3

(* The instructions for a node of two lists of instructions.                *)
LEMMA PartCat ==
  ASSUME NEW n, NEW a, NEW b, IsSeq(a), IsSeq(b)
  PROVE  /\ IsSeq(PartOf(n, a)) /\ PartOf(n, <<>>) = <<>>
         /\ PartOf(n, a \o b) = PartOf(n, a) \o PartOf(n, b)
<1> DEFINE h(x) == IF x.node = n THEN <<x>> ELSE <<>>
           f(s) == [i \in 1 .. Len(s) |-> h(s[i])]
<1>1. Len(a) \in Nat /\ Len(b) \in Nat /\ DOMAIN a = 1 .. Len(a) /\ DOMAIN b = 1 .. Len(b)
  BY SeqShape
<1>0. \A x : IsSeq(h(x))
  BY EmptyIsSeq, OneIsSeq
<1>2. ASSUME NEW s, IsSeq(s)
      PROVE  AreSeqs(f(s)) /\ Len(f(s)) = Len(s) /\ \A i \in 1 .. Len(s) : f(s)[i] = h(s[i])
  <2>1. Len(s) \in Nat
    BY <1>2, SeqShape
  <2>2. f(s) = [i \in 1 .. Len(s) |-> f(s)[i]] /\ \A i \in 1 .. Len(s) : f(s)[i] = h(s[i])
    OBVIOUS
  <2>3. \A i \in 1 .. Len(s) : IsSeq(f(s)[i])
    BY <1>0
  <2> HIDE DEF f, h
  <2>4. IsSeq(f(s)) /\ Len(f(s)) = Len(s)
    BY <2>1, <2>2, SeqOfFcn
  <2> QED
    BY <2>2, <2>3, <2>4 DEF AreSeqs
<1>3. IsSeq(a \o b) /\ Len(a \o b) = Len(a) + Len(b)
  BY Cat
<1>4. DOMAIN (a \o b) = 1 .. Len(a \o b)
  BY <1>3, SeqShape
<1>5. AreSeqs(f(a)) /\ AreSeqs(f(b)) /\ AreSeqs(f(a \o b))
  <2> HIDE DEF f
  <2> QED
    BY <1>2, <1>3
<1>6. f(a \o b) = f(a) \o f(b)
  <2> DEFINE fa == f(a)
             fb == f(b)
             fc == f(a \o b)
  <2> HIDE DEF h
  <2>1. IsSeq(fa) /\ Len(fa) = Len(a) /\ \A i \in 1 .. Len(a) : fa[i] = h(a[i])
    BY <1>2 DEF AreSeqs
  <2>2. IsSeq(fb) /\ Len(fb) = Len(b) /\ \A i \in 1 .. Len(b) : fb[i] = h(b[i])
    BY <1>2 DEF AreSeqs
  <2>3. /\ IsSeq(fc) /\ Len(fc) = Len(a) + Len(b)
        /\ \A i \in 1 .. (Len(a) + Len(b)) : fc[i] = h((a \o b)[i])
    BY <1>2, <1>3 DEF AreSeqs
  <2> HIDE DEF fa, fb, fc
  <2>4. /\ IsSeq(fa \o fb) /\ Len(fa \o fb) = Len(a) + Len(b)
        /\ \A i \in 1 .. (Len(a) + Len(b)) :
              (fa \o fb)[i] = IF i <= Len(a) THEN fa[i] ELSE fb[i - Len(a)]
    BY <2>1, <2>2, Cat
  <2>5. \A i \in 1 .. (Len(a) + Len(b)) : (a \o b)[i] = IF i <= Len(a) THEN a[i] ELSE b[i - Len(a)]
    BY Cat
  <2>6. ASSUME NEW i \in 1 .. (Len(a) + Len(b)) PROVE fc[i] = (fa \o fb)[i]
    <3>1. CASE i <= Len(a)
      <4>1. i \in 1 .. Len(a)
        BY <3>1, <1>1
      <4> QED
        BY <4>1, <3>1, <2>1, <2>3, <2>4, <2>5
    <3>2. CASE ~(i <= Len(a))
      <4>1. i - Len(a) \in 1 .. Len(b)
        BY <3>2, <1>1
      <4> QED
        BY <4>1, <3>2, <2>2, <2>3, <2>4, <2>5
    <3> QED
      BY <3>1, <3>2
  <2>7. fc = fa \o fb
    BY <2>3, <2>4, <2>6, SameSeq
  <2> QED
    BY <2>7 DEF fa, fb, fc
<1>7. FlattenSeq(f(a) \o f(b)) = FlattenSeq(f(a)) \o FlattenSeq(f(b)) /\ IsSeq(FlattenSeq(f(a)))
  <2> HIDE DEF f
  <2> QED
    BY <1>5, FlatCat, FlatIsSeq
<1>8. /\ PartOf(n, a) = FlattenSeq(f(a)) /\ PartOf(n, b) = FlattenSeq(f(b))
      /\ PartOf(n, a \o b) = FlattenSeq(f(a \o b))
  BY <1>1, <1>4 DEF PartOf
<1>9. PartOf(n, <<>>) = <<>>
  <2>1. [i \in DOMAIN <<>> |-> h(<<>>[i])] = <<>>
    OBVIOUS
  <2> QED
    BY <2>1, FlatEmpty DEF PartOf
<1> QED
  <2> HIDE DEF f
  <2> QED
    BY <1>6, <1>7, <1>8, <1>9

(* The instructions for a node of several lists of instructions.            *)
LEMMA PartFlat ==
  ASSUME NEW n, NEW s, AreSeqs(s)
  PROVE  /\ PartOf(n, FlattenSeq(s)) = FlattenSeq([i \in 1 .. Len(s) |-> PartOf(n, s[i])])
         /\ AreSeqs([i \in 1 .. Len(s) |-> PartOf(n, s[i])])
<1> DEFINE U == Elems(FlattenSeq(s))
           M == [a \in Seq(U) |-> PartOf(n, a)]
<1>1. ASSUME NEW a, IsSeq(a), Elems(a) \subseteq U PROVE a \in Seq(U)
  <2>1. Len(a) \in Nat /\ a = [i \in 1 .. Len(a) |-> a[i]] /\ \A i \in 1 .. Len(a) : a[i] \in U
    BY <1>1, SeqShape DEF Elems
  <2> QED
    BY <2>1
<1>2. \A a, b : IsSeq(a) /\ Elems(a) \subseteq U /\ IsSeq(b) /\ Elems(b) \subseteq U
                => IsSeq(M[a]) /\ M[a \o b] = M[a] \o M[b]
  <2> SUFFICES ASSUME NEW a, NEW b, IsSeq(a), Elems(a) \subseteq U, IsSeq(b), Elems(b) \subseteq U
               PROVE  IsSeq(M[a]) /\ M[a \o b] = M[a] \o M[b]
    OBVIOUS
  <2>1. IsSeq(a \o b) /\ Elems(a \o b) \subseteq U
    BY Cat, CatElems
  <2>2. a \in Seq(U) /\ b \in Seq(U) /\ (a \o b) \in Seq(U)
    BY <1>1, <2>1
  <2>3. IsSeq(PartOf(n, a)) /\ PartOf(n, a \o b) = PartOf(n, a) \o PartOf(n, b)
    BY PartCat
  <2> QED
    BY <2>2, <2>3
<1>3. M[<<>>] = <<>>
  <2>1. <<>> \in Seq(U)
    OBVIOUS
  <2>2. PartOf(n, <<>>) = <<>>
    BY EmptyIsSeq, PartCat
  <2> QED
    BY <2>1, <2>2
<1>4. /\ M[FlattenSeq(s)] = FlattenSeq([i \in 1 .. Len(s) |-> M[s[i]]])
      /\ AreSeqs([i \in 1 .. Len(s) |-> M[s[i]]])
  <2> HIDE DEF M
  <2> QED
    BY <1>2, <1>3, MapsFlat
<1>5. IsSeq(FlattenSeq(s)) /\ M[FlattenSeq(s)] = PartOf(n, FlattenSeq(s))
  BY <1>1, FlatIsSeq
<1>6. \A i \in 1 .. Len(s) : M[s[i]] = PartOf(n, s[i])
  <2> SUFFICES ASSUME NEW i \in 1 .. Len(s) PROVE M[s[i]] = PartOf(n, s[i])
    OBVIOUS
  <2>1. IsSeq(s[i])
    BY DEF AreSeqs
  <2>2. Elems(s[i]) \subseteq U
    BY FlatElems
  <2> QED
    BY <1>1, <2>1, <2>2
<1>7. [i \in 1 .. Len(s) |-> M[s[i]]] = [i \in 1 .. Len(s) |-> PartOf(n, s[i])]
  BY <1>6
<1> QED
  <2> HIDE DEF M, U
  <2> QED
    BY <1>4, <1>5, <1>7

(* Of one instruction.                                                      *)
LEMMA PartOne ==
  ASSUME NEW n, NEW x
  PROVE  PartOf(n, <<x>>) = IF x.node = n THEN <<x>> ELSE <<>>
<1> DEFINE h == IF x.node = n THEN <<x>> ELSE <<>>
<1>1. [i \in DOMAIN <<x>> |-> IF <<x>>[i].node = n THEN << <<x>>[i] >> ELSE <<>>] = <<h>>
  OBVIOUS
<1>2. IsSeq(h)
  BY EmptyIsSeq, OneIsSeq
<1>3. PartOf(n, <<x>>) = FlattenSeq(<<h>>)
  BY <1>1 DEF PartOf
<1> QED
  BY <1>2, <1>3, FlatOne

(* Instructions for one node are kept, or dropped, all.                     *)
LEMMA PartOfUniform ==
  ASSUME NEW n, NEW s, IsSeq(s), NEW v, \A x \in Elems(s) : x.node = v
  PROVE  PartOf(n, s) = IF v = n THEN s ELSE <<>>
<1> DEFINE P == {k \in 0 .. Len(s) : 
                   PartOf(n, FrontOf(s, k)) = IF v = n THEN FrontOf(s, k) ELSE <<>>}
<1>0. Len(s) \in Nat
  BY SeqShape
<1>1. FrontOf(s, 0) = <<>> /\ FrontOf(s, Len(s)) = s
      /\ \A k \in 1 .. Len(s) : FrontOf(s, k) = FrontOf(s, k - 1) \o <<s[k]>>
  BY FrontGrows
<1>2. 0 \in P
  <2>1. PartOf(n, <<>>) = <<>>
    BY EmptyIsSeq, PartCat
  <2> QED
    BY <1>0, <1>1, <2>1
<1>3. ASSUME NEW k \in 1 .. Len(s), k - 1 \in P PROVE k \in P
  <2> DEFINE t == FrontOf(s, k - 1)
  <2>1. k - 1 \in Nat /\ t = [i \in 1 .. (k - 1) |-> t[i]]
    BY <1>0 DEF FrontOf
  <2>2. s[k].node = v
    BY DEF Elems
  <2>3. FrontOf(s, k) = t \o <<s[k]>> /\ PartOf(n, t) = IF v = n THEN t ELSE <<>>
    BY <1>1, <1>3
  <2> HIDE DEF t
  <2>4. IsSeq(t) /\ IsSeq(<<s[k]>>)
    BY <2>1, SeqOfFcn, OneIsSeq
  <2>5. PartOf(n, t \o <<s[k]>>) = PartOf(n, t) \o PartOf(n, <<s[k]>>)
    BY <2>4, PartCat
  <2>6. PartOf(n, <<s[k]>>) = IF v = n THEN <<s[k]>> ELSE <<>>
    BY <2>2, PartOne
  <2>7. <<>> \o <<>> = <<>>
    BY EmptyIsSeq, CatEmpty
  <2>8. PartOf(n, FrontOf(s, k)) = IF v = n THEN FrontOf(s, k) ELSE <<>>
    BY <2>3, <2>5, <2>6, <2>7
  <2> QED
    BY <2>8, <1>0
<1>4. 0 .. Len(s) \subseteq P
  <2> HIDE DEF P
  <2> QED
    BY <1>0, <1>2, <1>3, UpTo
<1>5. Len(s) \in P
  BY <1>0, <1>4
<1> QED
  BY <1>1, <1>5

(* The root goes through its program an instruction at a time.              *)
LEMMA RestStep ==
  ASSUME NEW p, IsSeq(p)
  PROVE  /\ RestOf(p, 0) = p /\ RestOf(p, Len(p)) = <<>>
         /\ \A n \in 0 .. Len(p) : IsSeq(RestOf(p, n))
         /\ \A n \in 0 .. (Len(p) - 1) : RestOf(p, n) = <<p[n + 1]>> \o RestOf(p, n + 1)
<1>1. Len(p) \in Nat /\ p = [i \in 1 .. Len(p) |-> p[i]]
  BY SeqShape
<1>2. RestOf(p, 0) = p /\ RestOf(p, Len(p)) = <<>>
  BY <1>1 DEF RestOf
<1>3. ASSUME NEW n \in 0 .. Len(p)
      PROVE  /\ IsSeq(RestOf(p, n)) /\ Len(RestOf(p, n)) = Len(p) - n
             /\ \A i \in 1 .. (Len(p) - n) : RestOf(p, n)[i] = p[n + i]
  <2> DEFINE t == RestOf(p, n)
  <2>1. Len(p) - n \in Nat /\ t = [i \in 1 .. (Len(p) - n) |-> t[i]]
        /\ \A i \in 1 .. (Len(p) - n) : t[i] = p[n + i]
    BY <1>1 DEF RestOf
  <2> HIDE DEF t
  <2>2. IsSeq(t) /\ Len(t) = Len(p) - n
    BY <2>1, SeqOfFcn
  <2> QED
    BY <2>1, <2>2 DEF t
<1>4. ASSUME NEW n \in 0 .. (Len(p) - 1)
      PROVE  RestOf(p, n) = <<p[n + 1]>> \o RestOf(p, n + 1)
  <2> DEFINE t == RestOf(p, n)
             u == RestOf(p, n + 1)
             x == <<p[n + 1]>>
  <2>1. n \in 0 .. Len(p) /\ n + 1 \in 0 .. Len(p) /\ Len(p) - n \in Nat /\ Len(p) - n >= 1
    BY <1>1
  <2>2. IsSeq(t) /\ Len(t) = Len(p) - n /\ \A i \in 1 .. (Len(p) - n) : t[i] = p[n + i]
    BY <1>3, <2>1
  <2>3. IsSeq(u) /\ Len(u) = Len(p) - (n + 1) /\ \A i \in 1 .. (Len(p) - (n + 1)) : u[i] = p[(n + 1) + i]
    BY <1>3, <2>1
  <2>4. IsSeq(x) /\ Len(x) = 1 /\ x[1] = p[n + 1]
    BY OneIsSeq
  <2> HIDE DEF t, u, x
  <2>a. /\ IsSeq(x \o u) /\ Len(x \o u) = Len(x) + Len(u)
        /\ \A i \in 1 .. (Len(x) + Len(u)) :
              (x \o u)[i] = IF i <= Len(x) THEN x[i] ELSE u[i - Len(x)]
    BY <2>3, <2>4, Cat
  <2>5. /\ IsSeq(x \o u) /\ Len(x \o u) = 1 + Len(u)
        /\ \A i \in 1 .. (1 + Len(u)) : (x \o u)[i] = IF i <= 1 THEN x[i] ELSE u[i - 1]
    BY <2>4, <2>a
  <2>6. Len(x \o u) = Len(t) /\ Len(t) = 1 + Len(u)
    BY <2>1, <2>2, <2>3, <2>5
  <2>7. ASSUME NEW i \in 1 .. Len(t) PROVE t[i] = (x \o u)[i]
    <3>1. CASE i = 1
      BY <3>1, <2>1, <2>2, <2>4, <2>5, <2>6
    <3>2. CASE i # 1
      <4>1. ~(i <= 1) /\ i - 1 \in 1 .. (Len(p) - (n + 1)) /\ i \in 1 .. (Len(p) - n)
        BY <3>2, <2>1, <2>2, <1>1
      <4>2. (x \o u)[i] = u[i - 1]
        BY <4>1, <2>5, <2>6
      <4>3. u[i - 1] = p[(n + 1) + (i - 1)] /\ t[i] = p[n + i]
        BY <4>1, <2>2, <2>3
      <4>4. (n + 1) + (i - 1) = n + i
        BY <1>1
      <4> QED
        BY <4>2, <4>3, <4>4
    <3> QED
      BY <3>1, <3>2
  <2>8. t = x \o u
    BY <2>2, <2>5, <2>6, <2>7, SameSeq
  <2> QED
    BY <2>8 DEF t, u, x
<1> QED
  BY <1>2, <1>3, <1>4

-----------------------------------------------------------------------------
(* Lists of items that can be read one after the other                      *)

(* Reading or expanding the first item leaves items in order.               *)
LEMMA InOrderHead ==
  ASSUME NEW known, NEW x, NEW s, IsSeq(s), InOrder(known, <<x>> \o s)
  PROVE  /\ x.do = "read" => InOrder(known \cup {<<x.id, x.field>>}, s)
         /\ x.do = "expand" => Needs(x) \in known
         /\ x.do # "read" => InOrder(known, s)
<1> DEFINE y == <<x>>
           t == y \o s
<1>0. IsSeq(y) /\ Len(y) = 1 /\ y[1] = x /\ Len(s) \in Nat
  BY OneIsSeq, SeqShape
<1>a. InOrder(known, t)
  OBVIOUS
<1> HIDE DEF y
<1>b. Len(t) = Len(y) + Len(s) /\ \A i \in 1 .. (Len(y) + Len(s)) : t[i] = IF i <= Len(y) THEN y[i] ELSE s[i - Len(y)]
  BY <1>0, Cat
<1>1. Len(t) = 1 + Len(s) /\ t[1] = x /\ \A i \in 1 .. Len(s) : t[i + 1] = s[i]
  BY <1>0, <1>b
<1> HIDE DEF t
<1>2. x.do = "expand" => Needs(x) \in known
  <2>1. 1 \in 1 .. Len(t) /\ 1 .. (1 - 1) = {}
    BY <1>0, <1>1
  <2> QED
    BY <1>a, <1>1, <2>1 DEF InOrder
<1>3. ASSUME NEW i \in 1 .. Len(s), s[i].do = "expand"
      PROVE  \/ Needs(s[i]) \in known
             \/ x.do = "read" /\ Needs(s[i]) = <<x.id, x.field>>
             \/ \E j \in 1 .. (i - 1) : s[j].do = "read" /\ <<s[j].id, s[j].field>> = Needs(s[i])
  <2>1. i + 1 \in 1 .. Len(t) /\ t[i + 1] = s[i]
    BY <1>0, <1>1
  <2>2. CASE Needs(s[i]) \in known
    BY <2>2
  <2>3. CASE \E j \in 1 .. ((i + 1) - 1) : t[j].do = "read" /\ <<t[j].id, t[j].field>> = Needs(s[i])
    <3>1. PICK j \in 1 .. ((i + 1) - 1) : t[j].do = "read" /\ <<t[j].id, t[j].field>> = Needs(s[i])
      BY <2>3
    <3>2. CASE j = 1
      BY <3>1, <3>2, <1>1
    <3>3. CASE j # 1
      <4>1. j - 1 \in 1 .. (i - 1) /\ j - 1 \in 1 .. Len(s) /\ (j - 1) + 1 = j
        BY <3>3, <1>0
      <4>2. t[j] = s[j - 1]
        BY <4>1, <1>1
      <4> QED
        BY <3>1, <4>1, <4>2
    <3> QED
      BY <3>2, <3>3
  <2> QED
    BY <1>3, <1>a, <2>1, <2>2, <2>3 DEF InOrder
<1>4. x.do = "read" => InOrder(known \cup {<<x.id, x.field>>}, s)
  BY <1>3 DEF InOrder
<1>5. x.do # "read" => InOrder(known, s)
  BY <1>3 DEF InOrder
<1> QED
  BY <1>2, <1>4, <1>5

(* More may be known.                                                       *)
LEMMA InOrderMore ==
  ASSUME NEW known, NEW more, known \subseteq more, NEW s, InOrder(known, s)
  PROVE  InOrder(more, s)
  BY DEF InOrder

(* Lists in order, one after the other, are in order.                       *)
LEMMA InOrderCat ==
  ASSUME NEW known, NEW a, NEW b, IsSeq(a), IsSeq(b), InOrder(known, a), InOrder(known, b)
  PROVE  InOrder(known, a \o b)
<1> DEFINE t == a \o b
<1>1. /\ Len(t) = Len(a) + Len(b) /\ Len(a) \in Nat /\ Len(b) \in Nat
      /\ \A i \in 1 .. (Len(a) + Len(b)) : t[i] = IF i <= Len(a) THEN a[i] ELSE b[i - Len(a)]
  BY Cat, SeqShape
<1> HIDE DEF t
<1>2. ASSUME NEW i \in 1 .. Len(t), t[i].do = "expand"
      PROVE  \/ Needs(t[i]) \in known
             \/ \E j \in 1 .. (i - 1) : t[j].do = "read" /\ <<t[j].id, t[j].field>> = Needs(t[i])
  <2>1. CASE i <= Len(a)
    <3>1. i \in 1 .. Len(a) /\ t[i] = a[i] /\ \A j \in 1 .. (i - 1) : t[j] = a[j]
      BY <2>1, <1>1
    <3>2. \/ Needs(a[i]) \in known
          \/ \E j \in 1 .. (i - 1) : a[j].do = "read" /\ <<a[j].id, a[j].field>> = Needs(a[i])
      BY <3>1, <1>2 DEF InOrder
    <3> QED
      BY <3>1, <3>2
  <2>2. CASE ~(i <= Len(a))
    <3> DEFINE n == i - Len(a)
    <3>1. n \in 1 .. Len(b) /\ t[i] = b[n] /\ i = Len(a) + n
      BY <2>2, <1>1
    <3>2. \A j \in 1 .. (n - 1) : Len(a) + j \in 1 .. (i - 1) /\ t[Len(a) + j] = b[j]
      <4> SUFFICES ASSUME NEW j \in 1 .. (n - 1)
                   PROVE  Len(a) + j \in 1 .. (i - 1) /\ t[Len(a) + j] = b[j]
        OBVIOUS
      <4>1. Len(a) + j \in 1 .. (i - 1) /\ Len(a) + j \in 1 .. (Len(a) + Len(b)) /\ ~(Len(a) + j <= Len(a))
            /\ (Len(a) + j) - Len(a) = j
        BY <3>1, <1>1
      <4> QED
        BY <4>1, <1>1
    <3> HIDE DEF n
    <3>3. CASE Needs(b[n]) \in known
      BY <3>1, <3>3
    <3>4. CASE \E j \in 1 .. (n - 1) : b[j].do = "read" /\ <<b[j].id, b[j].field>> = Needs(b[n])
      <4>1. PICK j \in 1 .. (n - 1) : b[j].do = "read" /\ <<b[j].id, b[j].field>> = Needs(b[n])
        BY <3>4
      <4>2. Len(a) + j \in 1 .. (i - 1) /\ t[Len(a) + j] = b[j]
        BY <3>2
      <4> QED
        BY <3>1, <4>1, <4>2
    <3> QED
      BY <3>1, <3>3, <3>4, <1>2 DEF InOrder
  <2> QED
    BY <2>1, <2>2
<1> QED
  BY <1>2 DEF InOrder, t

(* An item in its place after those it depends on.                          *)
LEMMA InOrderLast ==
  ASSUME NEW known, NEW a, NEW x, IsSeq(a), InOrder(known, a),
         NEW y \in Elems(a), y.do = "read", <<y.id, y.field>> = Needs(x)
  PROVE  InOrder(known, a \o <<x>>)
<1> DEFINE b == <<x>>
           t == a \o b
<1>0. IsSeq(b) /\ Len(b) = 1 /\ b[1] = x
  BY OneIsSeq
<1> HIDE DEF b
<1>a. /\ Len(t) = Len(a) + Len(b) /\ Len(a) \in Nat
      /\ \A i \in 1 .. (Len(a) + Len(b)) : t[i] = IF i <= Len(a) THEN a[i] ELSE b[i - Len(a)]
  BY <1>0, Cat, SeqShape
<1>1. Len(t) = Len(a) + 1 /\ t[Len(a) + 1] = x /\ \A i \in 1 .. Len(a) : t[i] = a[i]
  BY <1>0, <1>a
<1> HIDE DEF t
<1>2. PICK k \in 1 .. Len(a) : a[k] = y
  BY DEF Elems
<1>3. ASSUME NEW i \in 1 .. Len(t), t[i].do = "expand"
      PROVE  \/ Needs(t[i]) \in known
             \/ \E j \in 1 .. (i - 1) : t[j].do = "read" /\ <<t[j].id, t[j].field>> = Needs(t[i])
  <2>1. CASE i \in 1 .. Len(a)
    <3>1. \A j \in 1 .. (i - 1) : t[j] = a[j]
      BY <2>1, <1>1, <1>a
    <3>2. \/ Needs(a[i]) \in known
          \/ \E j \in 1 .. (i - 1) : a[j].do = "read" /\ <<a[j].id, a[j].field>> = Needs(a[i])
      BY <2>1, <1>1, <1>3 DEF InOrder
    <3> QED
      BY <2>1, <1>1, <3>1, <3>2
  <2>2. CASE i = Len(a) + 1
    <3>1. k \in 1 .. (i - 1) /\ t[k] = y /\ t[i] = x
      BY <2>2, <1>1, <1>2, <1>a
    <3> QED
      BY <3>1
  <2>3. i \in 1 .. Len(a) \/ i = Len(a) + 1
    BY <1>1, <1>a
  <2> QED
    BY <2>1, <2>2, <2>3
<1> QED
  BY <1>3 DEF InOrder, t, b

(* What is known of a list of items that reads part of a configuration: the *)
(* fields it says, what it covers and some of what it reads itself.         *)
Built(m, w, items, fields, covers, reads) ==
  /\ IsSeq(items) /\ IsSeq(fields)
  /\ \A x \in Elems(items) : ItemOK(m, w, x)
  /\ Said(m, w, items) = fields
  /\ InOrder({}, items)
  /\ Coverage(m, w, items) = covers
  /\ \A r \in reads : \E x \in Elems(items) : x.do = "read" /\ <<x.id, x.field>> = r

(* The configurations of a model have a shape, and say lists of fields.     *)
Sound(m, w) ==
  /\ ConfigShape(NetConfig(m), NodeConfig(m, w))
  /\ \A x : ItemOK(m, w, x) => IsSeq(Says(m, w, x))

(* Reading one field of a structure.                                         *)
LEMMA BuiltRead ==
  ASSUME NEW m, NEW w, NEW size, NEW id, NEW f
  PROVE  Built(m, w, Read(size, id, f), << Field(size, Told(m, w, id, f)) >>,
               {<<id, f>>}, {<<id, f>>})
<1> DEFINE x == [do |-> "read", size |-> size, id |-> id, field |-> f]
           field == Field(size, Told(m, w, id, f))
<1>1. Read(size, id, f) = <<x>>
  BY DEF Read
<1>2. x.do = "read" /\ x.id = id /\ x.field = f /\ ItemOK(m, w, x)
  BY DEF ItemOK
<1>3. Says(m, w, x) = <<field>>
  BY <1>2 DEF Says
<1>4. Covers(m, w, x) = {<<id, f>>}
  BY <1>2 DEF Covers
<1> HIDE DEF x, field
<1>5. IsSeq(<<x>>) /\ Len(<<x>>) = 1 /\ <<x>>[1] = x /\ IsSeq(<<field>>)
  BY OneIsSeq
<1>6. Said(m, w, <<x>>) = <<field>>
  BY <1>3, <1>5, SaidOne
<1>7. Elems(<<x>>) = {x}
  BY ElemsOfOne
<1>8. InOrder({}, <<x>>)
  <2>1. \A i \in 1 .. 1 : <<x>>[i].do = "read"
    BY <1>2, <1>5
  <2>2. \A i \in 1 .. 1 : ~(<<x>>[i].do = "expand")
    BY <2>1
  <2> QED
    BY <2>2, <1>5 DEF InOrder
<1>9. Coverage(m, w, <<x>>) = {<<id, f>>}
  BY <1>4, <1>7 DEF Coverage
<1> QED
  BY <1>1, <1>2, <1>5, <1>6, <1>7, <1>8, <1>9 DEF Built, field

(* Reading one thing after the other.                                        *)
LEMMA BuiltCat ==
  ASSUME NEW m, NEW w, Sound(m, w), NEW a, NEW b, NEW fa, NEW fb, NEW ca, NEW cb, NEW ra, NEW rb,
         Built(m, w, a, fa, ca, ra), Built(m, w, b, fb, cb, rb)
  PROVE  Built(m, w, a \o b, fa \o fb, ca \cup cb, ra \cup rb)
<1>1. /\ IsSeq(a) /\ IsSeq(fa) /\ IsSeq(b) /\ IsSeq(fb)
      /\ \A x \in Elems(a) \cup Elems(b) : ItemOK(m, w, x)
  BY DEF Built
<1>2. IsSeq(a \o b) /\ IsSeq(fa \o fb) /\ Elems(a \o b) = Elems(a) \cup Elems(b)
  BY <1>1, Cat, CatElems
<1>3. \A x \in Elems(a) \cup Elems(b) : IsSeq(Says(m, w, x))
  BY <1>1 DEF Sound
<1>4. Said(m, w, a \o b) = fa \o fb
  BY <1>1, <1>3, SaidCat DEF Built
<1>5. InOrder({}, a \o b)
  BY <1>1, InOrderCat DEF Built
<1>6. Coverage(m, w, a \o b) = ca \cup cb
  BY <1>2 DEF Built, Coverage
<1>7. \A r \in ra \cup rb : \E x \in Elems(a \o b) : x.do = "read" /\ <<x.id, x.field>> = r
  BY <1>2 DEF Built
<1> QED
  BY <1>1, <1>2, <1>4, <1>5, <1>6, <1>7 DEF Built

(* Reading what was read before calls for.                                   *)
LEMMA BuiltExpand ==
  ASSUME NEW m, NEW w, Sound(m, w), NEW a, NEW fa, NEW ca, NEW ra, Built(m, w, a, fa, ca, ra),
         NEW of, NEW id, <<of, id>> \in Expandable(m, w),
         Needs([do |-> "expand", of |-> of, id |-> id]) \in ra
  PROVE  Built(m, w, a \o Expand(of, id), fa \o Written(m, w, of, id),
               ca \cup Covers(m, w, [do |-> "expand", of |-> of, id |-> id]), ra)
<1> DEFINE x == [do |-> "expand", of |-> of, id |-> id]
           b == <<x>>
<1>1. Expand(of, id) = b
  BY DEF Expand
<1>2. x.do = "expand" /\ x.do # "read" /\ x.of = of /\ x.id = id /\ ItemOK(m, w, x)
  BY DEF ItemOK
<1>3. Says(m, w, x) = Written(m, w, of, id) /\ IsSeq(Says(m, w, x)) /\ Needs(x) \in ra
  BY <1>2 DEF Says, Sound
<1> HIDE DEF x
<1>4. IsSeq(b) /\ Elems(b) = {x}
  BY OneIsSeq, ElemsOfOne
<1>5. Said(m, w, b) = Written(m, w, of, id)
  BY <1>3, SaidOne
<1>6. InOrder({}, a \o b)
  <2>1. PICK y \in Elems(a) : y.do = "read" /\ <<y.id, y.field>> = Needs(x)
    BY <1>3 DEF Built
  <2> QED
    BY <2>1, InOrderLast DEF Built
<1> HIDE DEF b
<1>7. /\ IsSeq(a) /\ IsSeq(fa) /\ \A y \in Elems(a) \cup Elems(b) : ItemOK(m, w, y)
  BY <1>2, <1>4 DEF Built
<1>8. IsSeq(a \o b) /\ IsSeq(fa \o Written(m, w, of, id)) /\ Elems(a \o b) = Elems(a) \cup {x}
  BY <1>3, <1>4, <1>7, Cat, CatElems
<1>9. Said(m, w, a \o b) = fa \o Written(m, w, of, id)
  <2>1. \A y \in Elems(a) \cup Elems(b) : IsSeq(Says(m, w, y))
    BY <1>7 DEF Sound
  <2> QED
    BY <1>4, <1>5, <1>7, <2>1, SaidCat DEF Built
<1>10. Coverage(m, w, a \o b) = ca \cup Covers(m, w, x)
  BY <1>8 DEF Built, Coverage
<1>11. \A r \in ra : \E y \in Elems(a \o b) : y.do = "read" /\ <<y.id, y.field>> = r
  BY <1>8 DEF Built
<1>12. \A y \in Elems(a \o b) : ItemOK(m, w, y)
  BY <1>4, <1>7, <1>8
<1> QED
  BY <1>1, <1>6, <1>8, <1>9, <1>10, <1>11, <1>12 DEF Built, x

(* Tables of lists of items, of fields and of what is covered.              *)
AllBuilt(m, w, n, s, f, c) ==
  /\ s = [i \in 1 .. n |-> s[i]] /\ f = [i \in 1 .. n |-> f[i]]
  /\ \A i \in 1 .. n : Built(m, w, s[i], f[i], c[i], {})

(* The elements of an array, one after the other.                           *)
LEMMA BuiltFlat ==
  ASSUME NEW m, NEW w, Sound(m, w), NEW n \in Nat, NEW s, NEW f, NEW c, AllBuilt(m, w, n, s, f, c)
  PROVE  Built(m, w, FlattenSeq(s), FlattenSeq(f), UNION {c[i] : i \in 1 .. n}, {})
<1>0. /\ s = [i \in 1 .. n |-> s[i]] /\ f = [i \in 1 .. n |-> f[i]]
      /\ \A i \in 1 .. n : Built(m, w, s[i], f[i], c[i], {})
  BY DEF AllBuilt
<1>1. AreSeqs(s) /\ Len(s) = n /\ AreSeqs(f) /\ Len(f) = n
  BY <1>0, TableIsSeq DEF Built
<1>2. /\ IsSeq(FlattenSeq(s)) /\ IsSeq(FlattenSeq(f))
      /\ Elems(FlattenSeq(s)) = UNION {Elems(s[k]) : k \in 1 .. n}
  BY <1>1, FlatIsSeq, FlatElems
<1>3. \A x \in Elems(FlattenSeq(s)) : ItemOK(m, w, x)
  BY <1>0, <1>2 DEF Built
<1>4. Said(m, w, FlattenSeq(s)) = FlattenSeq(f)
  <2>1. \A x \in Elems(FlattenSeq(s)) : IsSeq(Says(m, w, x))
    BY <1>3 DEF Sound
  <2>2. Said(m, w, FlattenSeq(s)) = FlattenSeq([i \in 1 .. Len(s) |-> Said(m, w, s[i])])
    BY <1>1, <2>1, SaidFlat
  <2>3. [i \in 1 .. Len(s) |-> Said(m, w, s[i])] = f
    BY <1>0, <1>1 DEF Built
  <2> QED
    BY <2>2, <2>3
<1>5. InOrder({}, FlattenSeq(s))
  <2> DEFINE P == {k \in 0 .. n : InOrder({}, FlattenSeq(FrontOf(s, k)))}
  <2>1. /\ FlattenSeq(FrontOf(s, 0)) = <<>> /\ FlattenSeq(FrontOf(s, n)) = FlattenSeq(s)
        /\ \A k \in 0 .. n : IsSeq(FlattenSeq(FrontOf(s, k)))
        /\ \A k \in 1 .. n : FlattenSeq(FrontOf(s, k)) = FlattenSeq(FrontOf(s, k - 1)) \o s[k]
    BY <1>1, FlatFronts
  <2>2. 0 \in P
    <3>1. InOrder({}, <<>>)
      <4>1. Len(<<>>) = 0 /\ 1 .. 0 = {}
        BY EmptyIsSeq
      <4> QED
        BY <4>1 DEF InOrder
    <3> QED
      BY <2>1, <3>1
  <2>3. ASSUME NEW k \in 1 .. n, k - 1 \in P PROVE k \in P
    <3>1. k - 1 \in 0 .. n /\ k \in 0 .. n
      OBVIOUS
    <3>2. IsSeq(s[k]) /\ InOrder({}, s[k])
      BY <1>0 DEF Built
    <3>3. InOrder({}, FlattenSeq(FrontOf(s, k - 1)) \o s[k])
      BY <2>1, <2>3, <3>1, <3>2, InOrderCat
    <3> QED
      BY <2>1, <3>1, <3>3
  <2>4. 0 .. n \subseteq P
    <3> HIDE DEF P
    <3> QED
      BY <2>2, <2>3, UpTo
  <2>5. n \in P
    BY <2>4
  <2> QED
    BY <2>1, <2>5
<1>6. Coverage(m, w, FlattenSeq(s)) = UNION {c[i] : i \in 1 .. n}
  <2>1. Coverage(m, w, FlattenSeq(s)) = UNION {Coverage(m, w, s[k]) : k \in 1 .. n}
    BY <1>2 DEF Coverage
  <2> QED
    BY <1>0, <2>1 DEF Built
<1> QED
  BY <1>2, <1>3, <1>4, <1>5, <1>6 DEF Built

-----------------------------------------------------------------------------
(* The arrays of a configuration                                            *)

Arrays == OfNet \cup OfNode \cup OfSegment

(* the items that stand for an array *)
ArrayItems(m, w) ==
  {<<"pipes", Net>>, <<"preSyncs", Net>>, <<"buffers", Node>>, <<"segments", Node>>}
  \cup OfSegment \X {i \in ConfigIds(m, w) : i[1] = "segments"}

AllOf(id) == {<<id, f>> : f \in FieldsIn(id)}

(* What a structure is known by.                                             *)
LEMMA IdForms ==
  ASSUME NEW m, NEW w, NEW id
  PROVE  id \in ConfigIds(m, w) <=>
           \/ id = Net \/ id = Node
           \/ \E i \in DOMAIN NetConfig(m).pipes : id = <<"pipes", 0, i>>
           \/ \E i \in DOMAIN NetConfig(m).preSyncs : id = <<"preSyncs", 0, i>>
           \/ \E i \in DOMAIN NodeConfig(m, w).buffers : id = <<"buffers", 0, i>>
           \/ \E i \in DOMAIN NodeConfig(m, w).segments : id = <<"segments", 0, i>>
           \/ \E s \in DOMAIN NodeConfig(m, w).segments :
                \/ \E i \in DOMAIN NodeConfig(m, w).segments[s].syncs : id = <<"syncs", s, i>>
                \/ \E i \in DOMAIN NodeConfig(m, w).segments[s].ops : id = <<"ops", s, i>>
                \/ \E i \in DOMAIN NodeConfig(m, w).segments[s].cacheSyncs : id = <<"cacheSyncs", s, i>>
<1> DEFINE net == NetConfig(m)
           node == NodeConfig(m, w)
<1> HIDE DEF net, node
<1>1. ConfigIds(m, w) = Ids(net, node)
  BY DEF ConfigIds, net, node
<1>2. id \in Ids(net, node) <=>
        \/ id = Net \/ id = Node
        \/ \E a \in OfNet : \E i \in DOMAIN net[a] : id = <<a, 0, i>>
        \/ \E a \in OfNode : \E i \in DOMAIN node[a] : id = <<a, 0, i>>
        \/ \E s \in DOMAIN node.segments : \E a \in OfSegment : \E i \in DOMAIN node.segments[s][a] : id = <<a, s, i>>
  BY DEF Ids
<1>3. (\E a \in OfNet : \E i \in DOMAIN net[a] : id = <<a, 0, i>>)
      <=> \/ \E i \in DOMAIN net.pipes : id = <<"pipes", 0, i>>
          \/ \E i \in DOMAIN net.preSyncs : id = <<"preSyncs", 0, i>>
  BY DEF OfNet
<1>4. (\E a \in OfNode : \E i \in DOMAIN node[a] : id = <<a, 0, i>>)
      <=> \/ \E i \in DOMAIN node.buffers : id = <<"buffers", 0, i>>
          \/ \E i \in DOMAIN node.segments : id = <<"segments", 0, i>>
  BY DEF OfNode
<1>5. (\E s \in DOMAIN node.segments : \E a \in OfSegment : \E i \in DOMAIN node.segments[s][a] : id = <<a, s, i>>)
      <=> \E s \in DOMAIN node.segments :
            \/ \E i \in DOMAIN node.segments[s].syncs : id = <<"syncs", s, i>>
            \/ \E i \in DOMAIN node.segments[s].ops : id = <<"ops", s, i>>
            \/ \E i \in DOMAIN node.segments[s].cacheSyncs : id = <<"cacheSyncs", s, i>>
  BY DEF OfSegment
<1> QED
  BY <1>1, <1>2, <1>3, <1>4, <1>5 DEF net, node

(* What is read as a structure is the structure itself.                      *)
LEMMA Structures ==
  ASSUME NEW m, NEW w
  PROVE  /\ Structure(m, w, Net) = NetConfig(m) /\ Structure(m, w, Node) = NodeConfig(m, w)
         /\ \A a \in OfNet : \A s, i : Structure(m, w, <<a, s, i>>) = NetConfig(m)[a][i]
         /\ \A a \in OfNode : \A s, i : Structure(m, w, <<a, s, i>>) = NodeConfig(m, w)[a][i]
         /\ \A a \in OfSegment : \A s, i : 
              Structure(m, w, <<a, s, i>>) = NodeConfig(m, w).segments[s][a][i]
<1> DEFINE net == NetConfig(m)
           node == NodeConfig(m, w)
<1> HIDE DEF net, node
<1>1. \A id : Structure(m, w, id) = StructAt(net, node, id)
  BY DEF Structure, net, node
<1>2. Net # Node /\ Net[1] = "net" /\ Node[1] = "node"
  BY DEF Net, Node
<1>3. StructAt(net, node, Net) = net /\ StructAt(net, node, Node) = node
  BY <1>2 DEF StructAt, OfNet, OfNode, OfSegment
<1>4. ASSUME NEW a \in OfNet, NEW s, NEW i PROVE StructAt(net, node, <<a, s, i>>) = net[a][i]
  <2> DEFINE id == <<a, s, i>>
  <2>1. id[1] = a /\ id[2] = s /\ id[3] = i
    OBVIOUS
  <2>2. a # "net" /\ a # "node" /\ a \notin OfNode /\ a \notin OfSegment
    BY DEF OfNet, OfNode, OfSegment
  <2>3. id # Net /\ id # Node
    BY <1>2, <2>1, <2>2
  <2> HIDE DEF id
  <2>4. StructAt(net, node, id) = net[a][i]
    BY <2>1, <2>2, <2>3 DEF StructAt
  <2> QED
    BY <2>4 DEF id
<1>5. ASSUME NEW a \in OfNode, NEW s, NEW i PROVE StructAt(net, node, <<a, s, i>>) = node[a][i]
  <2> DEFINE id == <<a, s, i>>
  <2>1. id[1] = a /\ id[2] = s /\ id[3] = i
    OBVIOUS
  <2>2. a # "net" /\ a # "node" /\ a \notin OfNet /\ a \notin OfSegment
    BY DEF OfNet, OfNode, OfSegment
  <2>3. id # Net /\ id # Node
    BY <1>2, <2>1, <2>2
  <2> HIDE DEF id
  <2>4. StructAt(net, node, id) = node[a][i]
    BY <2>1, <2>2, <2>3 DEF StructAt
  <2> QED
    BY <2>4 DEF id
<1>6. ASSUME NEW a \in OfSegment, NEW s, NEW i
      PROVE  StructAt(net, node, <<a, s, i>>) = node.segments[s][a][i]
  <2> DEFINE id == <<a, s, i>>
  <2>1. id[1] = a /\ id[2] = s /\ id[3] = i
    OBVIOUS
  <2>2. a # "net" /\ a # "node" /\ a \notin OfNet /\ a \notin OfNode
    BY DEF OfNet, OfNode, OfSegment
  <2>3. id # Net /\ id # Node
    BY <1>2, <2>1, <2>2
  <2> HIDE DEF id
  <2>4. StructAt(net, node, id) = node.segments[s][a][i]
    BY <2>1, <2>2, <2>3 DEF StructAt
  <2> QED
    BY <2>4 DEF id
<1>7. \A a \in OfNet : \A s, i : StructAt(net, node, <<a, s, i>>) = net[a][i]
  BY <1>4
<1>8. \A a \in OfNode : \A s, i : StructAt(net, node, <<a, s, i>>) = node[a][i]
  BY <1>5
<1>9. \A a \in OfSegment : \A s, i : StructAt(net, node, <<a, s, i>>) = node.segments[s][a][i]
  BY <1>6
<1> QED
  BY <1>1, <1>3, <1>7, <1>8, <1>9 DEF net, node

(* Each array is a list as long as the count before it says, and its        *)
(* elements are structures.                                                 *)
LEMMA ArrayIs ==
  ASSUME NEW m, NEW w, ConfigShape(NetConfig(m), NodeConfig(m, w)),
         NEW of, NEW id, <<of, id>> \in ArrayItems(m, w)
  PROVE  LET list == Structure(m, w, id)[of]
         IN  /\ of \in Arrays /\ IsSeq(list) /\ Len(list) \in Nat
             /\ Len(list) = Structure(m, w, id)[CountOf[of]]
             /\ \A i \in 1 .. Len(list) :
                  /\ ElementId(of, id, i) \in ConfigIds(m, w)
                  /\ ElementId(of, id, i)[1] = of
                  /\ ElementId(of, id, i)[2] = id[3]
                  /\ Structure(m, w, ElementId(of, id, i)) = list[i]
             /\ \A e \in ConfigIds(m, w) : e[1] = of /\ e[2] = id[3] =>
                  \E i \in 1 .. Len(list) : e = ElementId(of, id, i)
<1> DEFINE net == NetConfig(m)
           node == NodeConfig(m, w)
<1>0. ConfigShape(net, node)
  OBVIOUS
<1> HIDE DEF net, node
<1>1. /\ Structure(m, w, Net) = net /\ Structure(m, w, Node) = node
      /\ \A a \in OfNet : \A s, i : Structure(m, w, <<a, s, i>>) = net[a][i]
      /\ \A a \in OfNode : \A s, i : Structure(m, w, <<a, s, i>>) = node[a][i]
      /\ \A a \in OfSegment : \A s, i : Structure(m, w, <<a, s, i>>) = node.segments[s][a][i]
  BY Structures DEF net, node
<1>2. \A e : e \in ConfigIds(m, w) <=>
           \/ e = Net \/ e = Node
           \/ \E i \in DOMAIN net.pipes : e = <<"pipes", 0, i>>
           \/ \E i \in DOMAIN net.preSyncs : e = <<"preSyncs", 0, i>>
           \/ \E i \in DOMAIN node.buffers : e = <<"buffers", 0, i>>
           \/ \E i \in DOMAIN node.segments : e = <<"segments", 0, i>>
           \/ \E s \in DOMAIN node.segments :
                \/ \E i \in DOMAIN node.segments[s].syncs : e = <<"syncs", s, i>>
                \/ \E i \in DOMAIN node.segments[s].ops : e = <<"ops", s, i>>
                \/ \E i \in DOMAIN node.segments[s].cacheSyncs : e = <<"cacheSyncs", s, i>>
  BY IdForms DEF net, node
<1>3. \A s : IsSeq(s) => DOMAIN s = 1 .. Len(s) /\ Len(s) \in Nat
  BY SeqShape
<1>4. Net = <<"net", 0, 0>> /\ Node = <<"node", 0, 0>> /\ Net[1] = "net" /\ Node[1] = "node" /\ Net[3] = 0 /\ Node[3] = 0
  BY DEF Net, Node
<1>5. CountOf.pipes = "nPipes" /\ CountOf.preSyncs = "nPreSyncs" /\ CountOf.buffers = "nBuffers"
      /\ CountOf.segments = "nSegments" /\ CountOf.syncs = "nSyncs" /\ CountOf.ops = "nOps"
      /\ CountOf.cacheSyncs = "nCacheSyncs"
  BY DEF CountOf
<1>6. CASE of = "pipes" /\ id = Net
  <2>1. ASSUME NEW e \in ConfigIds(m, w), e[1] = "pipes" PROVE \E i \in DOMAIN net.pipes : e = <<"pipes", 0, i>>
    BY <1>2, <1>4, <2>1
  <2> QED
    BY <1>0, <1>1, <1>2, <1>3, <1>4, <1>5, <1>6, <2>1 DEF ConfigShape, OfNet, Arrays, ElementId
<1>7. CASE of = "preSyncs" /\ id = Net
  <2>1. ASSUME NEW e \in ConfigIds(m, w), e[1] = "preSyncs"
        PROVE \E i \in DOMAIN net.preSyncs : e = <<"preSyncs", 0, i>>
    BY <1>2, <1>4, <2>1
  <2> QED
    BY <1>0, <1>1, <1>2, <1>3, <1>4, <1>5, <1>7, <2>1 DEF ConfigShape, OfNet, Arrays, ElementId
<1>8. CASE of = "buffers" /\ id = Node
  <2>1. ASSUME NEW e \in ConfigIds(m, w), e[1] = "buffers"
        PROVE \E i \in DOMAIN node.buffers : e = <<"buffers", 0, i>>
    BY <1>2, <1>4, <2>1
  <2> QED
    BY <1>0, <1>1, <1>2, <1>3, <1>4, <1>5, <1>8, <2>1 DEF ConfigShape, OfNode, Arrays, ElementId
<1>9. CASE of = "segments" /\ id = Node
  <2>1. ASSUME NEW e \in ConfigIds(m, w), e[1] = "segments"
        PROVE \E i \in DOMAIN node.segments : e = <<"segments", 0, i>>
    BY <1>2, <1>4, <2>1
  <2> QED
    BY <1>0, <1>1, <1>2, <1>3, <1>4, <1>5, <1>9, <2>1 DEF ConfigShape, OfNode, Arrays, ElementId
<1>10. CASE of \in OfSegment /\ id \in ConfigIds(m, w) /\ id[1] = "segments"
  <2>1. PICK s \in DOMAIN node.segments : id = <<"segments", 0, s>>
    BY <1>2, <1>4, <1>10
  <2>2. id[3] = s /\ Structure(m, w, id) = node.segments[s]
    BY <1>1, <2>1 DEF OfNode
  <2>3. IsSegment(node.segments[s])
    BY <1>0, <1>3, <2>1 DEF ConfigShape
  <2> DEFINE here == node.segments[s]
  <2>4. /\ IsSeq(here[of]) /\ Len(here[of]) = here[CountOf[of]]
    BY <1>5, <1>10, <2>3 DEF IsSegment, OfSegment
  <2>5. \A i \in DOMAIN here[of] : <<of, s, i>> \in ConfigIds(m, w)
    BY <1>2, <1>10 DEF OfSegment
  <2>6. ASSUME NEW e \in ConfigIds(m, w), e[1] = of, e[2] = s
        PROVE  \E i \in DOMAIN here[of] : e = <<of, s, i>>
    BY <1>2, <1>4, <1>10, <2>6 DEF OfSegment
  <2>7. DOMAIN here[of] = 1 .. Len(here[of]) /\ Len(here[of]) \in Nat
    BY <1>3, <2>4
  <2>8. \A i : ElementId(of, id, i) = <<of, s, i>> /\ Structure(m, w, <<of, s, i>>) = here[of][i]
    BY <1>1, <1>10, <2>2 DEF ElementId
  <2> QED
    BY <1>10, <2>2, <2>4, <2>5, <2>6, <2>7, <2>8 DEF Arrays
<1>11. (of = "pipes" /\ id = Net) \/ (of = "preSyncs" /\ id = Net) \/ (of = "buffers" /\ id = Node)
       \/ (of = "segments" /\ id = Node)
       \/ (of \in OfSegment /\ id \in ConfigIds(m, w) /\ id[1] = "segments")
  BY DEF ArrayItems
<1> QED
  BY <1>6, <1>7, <1>8, <1>9, <1>10, <1>11

-----------------------------------------------------------------------------
(* The fields of structures                                                 *)

LEMMA FieldLists ==
  /\ \A x : IsSeq(BufferFields(x)) /\ IsSeq(PreSyncFields(x)) /\ IsSeq(SyncFields(x))
            /\ IsSeq(CacheSyncFields(x)) /\ IsSeq(OpFields(x))
  /\ \A list : IsSeq(list) =>
       /\ AreSeqs([i \in DOMAIN list |-> BufferFields(list[i])])
       /\ AreSeqs([i \in DOMAIN list |-> PreSyncFields(list[i])])
       /\ AreSeqs([i \in DOMAIN list |-> SyncFields(list[i])])
       /\ AreSeqs([i \in DOMAIN list |-> CacheSyncFields(list[i])])
       /\ AreSeqs([i \in DOMAIN list |-> OpFields(list[i])])
<1>1. \A a, b : IsSeq(<<a>>) /\ IsSeq(<<a, b>>)
  BY OneIsSeq, List2
<1>2. \A a, b, c, d : IsSeq(<<a, b, c, d>>)
  BY List4
<1>3. \A x : IsSeq(String(x)) /\ IsSeq(PreSyncFields(x)) /\ IsSeq(SyncFields(x)) /\ IsSeq(CacheSyncFields(x))
  BY <1>1 DEF String, PreSyncFields, SyncFields, CacheSyncFields
<1>4. \A x : IsSeq(BufferFields(x))
  <2> SUFFICES ASSUME NEW x PROVE IsSeq(BufferFields(x))
    OBVIOUS
  <2> DEFINE a == << Size2D(x.size) >>
             b == String(x.name)
  <2>1. IsSeq(a) /\ IsSeq(b)
    BY <1>1, <1>3
  <2>2. BufferFields(x) = a \o b
    BY DEF BufferFields
  <2> HIDE DEF a, b
  <2> QED
    BY <2>1, <2>2, Cat
<1>5. \A x : IsSeq(OpFields(x))
  <2> SUFFICES ASSUME NEW x PROVE IsSeq(OpFields(x))
    OBVIOUS
  <2> DEFINE a == << UInt(x.code), UInt(x.index), Size2D(x.weightSize), UInt(x.configSize) >>
             b == String(x.name)
             c == << Pointer(x.input), Pointer(x.output) >>
             d == IF x.configSize > 0 THEN << Bytes(x.configSize, x.config) >> ELSE <<>>
  <2>1. IsSeq(a) /\ IsSeq(b) /\ IsSeq(c)
    BY <1>1, <1>2, <1>3
  <2>2. IsSeq(d)
    BY <1>1, EmptyIsSeq
  <2>3. OpFields(x) = ((a \o b) \o c) \o d
    BY DEF OpFields
  <2> HIDE DEF a, b, c, d
  <2>4. IsSeq(a \o b)
    BY <2>1, Cat
  <2>5. IsSeq((a \o b) \o c)
    BY <2>1, <2>4, Cat
  <2> QED
    BY <2>2, <2>3, <2>5, Cat
<1>6. ASSUME NEW list, IsSeq(list), NEW f, f = [i \in DOMAIN list |-> f[i]],
             \A i \in DOMAIN list : IsSeq(f[i])
      PROVE  AreSeqs(f)
  <2>1. Len(list) \in Nat /\ DOMAIN list = 1 .. Len(list)
    BY <1>6, SeqShape
  <2> QED
    BY <1>6, <2>1, TableIsSeq
<1>7. ASSUME NEW list, IsSeq(list)
      PROVE  /\ AreSeqs([i \in DOMAIN list |-> BufferFields(list[i])])
             /\ AreSeqs([i \in DOMAIN list |-> PreSyncFields(list[i])])
             /\ AreSeqs([i \in DOMAIN list |-> SyncFields(list[i])])
             /\ AreSeqs([i \in DOMAIN list |-> CacheSyncFields(list[i])])
             /\ AreSeqs([i \in DOMAIN list |-> OpFields(list[i])])
  <2> DEFINE f1 == [i \in DOMAIN list |-> BufferFields(list[i])]
             f2 == [i \in DOMAIN list |-> PreSyncFields(list[i])]
             f3 == [i \in DOMAIN list |-> SyncFields(list[i])]
             f4 == [i \in DOMAIN list |-> CacheSyncFields(list[i])]
             f5 == [i \in DOMAIN list |-> OpFields(list[i])]
  <2>1. f1 = [i \in DOMAIN list |-> f1[i]] /\ f2 = [i \in DOMAIN list |-> f2[i]]
        /\ f3 = [i \in DOMAIN list |-> f3[i]] /\ f4 = [i \in DOMAIN list |-> f4[i]]
        /\ f5 = [i \in DOMAIN list |-> f5[i]]
    OBVIOUS
  <2>2. \A i \in DOMAIN list : IsSeq(f1[i]) /\ IsSeq(f2[i]) /\ IsSeq(f3[i]) /\ IsSeq(f4[i]) /\ IsSeq(f5[i])
    BY <1>3, <1>4, <1>5
  <2> HIDE DEF f1, f2, f3, f4, f5
  <2>3. AreSeqs(f1) /\ AreSeqs(f2) /\ AreSeqs(f3) /\ AreSeqs(f4) /\ AreSeqs(f5)
    BY <1>6, <1>7, <2>1, <2>2
  <2> QED
    BY <2>3 DEF f1, f2, f3, f4, f5
<1> QED
  BY <1>3, <1>4, <1>5, <1>7

(* The fields of lists of structures are sequences.                          *)
LEMMA EachIsSeq ==
  \A list : IsSeq(list) =>
    /\ IsSeq(Each(list, BufferFields)) /\ IsSeq(Each(list, PreSyncFields))
    /\ IsSeq(Each(list, SyncFields)) /\ IsSeq(Each(list, CacheSyncFields))
    /\ IsSeq(Each(list, OpFields))
<1> SUFFICES ASSUME NEW list, IsSeq(list)
             PROVE  /\ IsSeq(Each(list, BufferFields)) /\ IsSeq(Each(list, PreSyncFields))
                    /\ IsSeq(Each(list, SyncFields)) /\ IsSeq(Each(list, CacheSyncFields))
                    /\ IsSeq(Each(list, OpFields))
  OBVIOUS
<1>1. /\ AreSeqs([i \in DOMAIN list |-> BufferFields(list[i])])
      /\ AreSeqs([i \in DOMAIN list |-> PreSyncFields(list[i])])
      /\ AreSeqs([i \in DOMAIN list |-> SyncFields(list[i])])
      /\ AreSeqs([i \in DOMAIN list |-> CacheSyncFields(list[i])])
      /\ AreSeqs([i \in DOMAIN list |-> OpFields(list[i])])
  BY FieldLists
<1> QED
  BY <1>1, FlatIsSeq DEF Each

(* Segments are written as a list of fields.                                *)
LEMMA SegmentFieldList ==
  /\ \A s : IsSegment(s) => IsSeq(SegmentFields(s))
  /\ \A list : IsSeq(list) /\ (\A i \in 1 .. Len(list) : IsSegment(list[i]))
               => IsSeq(Each(list, SegmentFields))
<1>1. ASSUME NEW s, IsSegment(s) PROVE IsSeq(SegmentFields(s))
  <2> DEFINE a == << UInt(s.nSyncs), UInt(s.nOps), UInt(s.nCacheSyncs) >>
             b == Each(s.syncs, SyncFields)
             c == Each(s.ops, OpFields)
             d == Each(s.cacheSyncs, CacheSyncFields)
  <2>1. IsSeq(a) /\ IsSeq(b) /\ IsSeq(c) /\ IsSeq(d)
    BY <1>1, List3, EachIsSeq DEF IsSegment
  <2>2. SegmentFields(s) = ((a \o b) \o c) \o d
    BY DEF SegmentFields
  <2> HIDE DEF a, b, c, d
  <2>3. IsSeq(a \o b)
    BY <2>1, Cat
  <2>4. IsSeq((a \o b) \o c)
    BY <2>1, <2>3, Cat
  <2> QED
    BY <2>1, <2>2, <2>4, Cat
<1>2. ASSUME NEW list, IsSeq(list), \A i \in 1 .. Len(list) : IsSegment(list[i])
      PROVE  IsSeq(Each(list, SegmentFields))
  <2> DEFINE f == [i \in DOMAIN list |-> SegmentFields(list[i])]
  <2>1. Len(list) \in Nat /\ DOMAIN list = 1 .. Len(list)
    BY <1>2, SeqShape
  <2>2. f = [i \in 1 .. Len(list) |-> f[i]] /\ \A i \in 1 .. Len(list) : IsSeq(f[i])
    BY <1>1, <1>2, <2>1
  <2> HIDE DEF f
  <2>3. IsSeq(FlattenSeq(f))
    BY <2>1, <2>2, TableIsSeq, FlatIsSeq
  <2> QED
    BY <2>3 DEF f, Each
<1> QED
  BY <1>1, <1>2

(* What any item says is a list of fields.                                  *)
LEMMA ConfigSound ==
  ASSUME NEW m, NEW w, ConfigShape(NetConfig(m), NodeConfig(m, w))
  PROVE  Sound(m, w)
<1> SUFFICES ASSUME NEW x, ItemOK(m, w, x) PROVE IsSeq(Says(m, w, x))
  BY DEF Sound
<1>0. \A a : IsSeq(<<a>>)
  BY OneIsSeq
<1>1. CASE x.do = "read"
  BY <1>0, <1>1 DEF Says
<1>2. CASE x.do = "expand" /\ <<x.of, x.id>> \in Expandable(m, w)
  <2>1. Says(m, w, x) = Written(m, w, x.of, x.id)
    BY <1>2 DEF Says
  <2>2. CASE x.of = "name"
    BY <2>1, <2>2, <1>0 DEF Written
  <2>3. CASE x.of = "config"
    BY <2>1, <2>3, <1>0 DEF Written
  <2>4. CASE <<x.of, x.id>> \in ArrayItems(m, w)
    <3> DEFINE list == Structure(m, w, x.id)[x.of]
    <3>1. x.of \in Arrays /\ IsSeq(list)
      BY <2>4, ArrayIs
    <3>2. Structure(m, w, Net) = NetConfig(m) /\ Structure(m, w, Node) = NodeConfig(m, w)
      BY Structures
    <3>3. (x.of = "pipes" /\ x.id = Net) \/ (x.of = "preSyncs" /\ x.id = Net)
          \/ (x.of = "buffers" /\ x.id = Node) \/ (x.of = "segments" /\ x.id = Node)
          \/ x.of \in OfSegment
      BY <2>4 DEF ArrayItems
    <3>4. CASE x.of = "pipes" /\ x.id = Net
      BY <2>1, <3>1, <3>2, <3>4, EachIsSeq DEF Written
    <3>5. CASE x.of = "preSyncs" /\ x.id = Net
      BY <2>1, <3>1, <3>2, <3>5, EachIsSeq DEF Written
    <3>6. CASE x.of = "buffers" /\ x.id = Node
      BY <2>1, <3>1, <3>2, <3>6, EachIsSeq DEF Written
    <3>7. CASE x.of = "segments" /\ x.id = Node
      BY <2>1, <3>1, <3>2, <3>7, SegmentFieldList DEF Written, ConfigShape
    <3>8. CASE x.of = "syncs"
      BY <2>1, <3>1, <3>8, EachIsSeq DEF Written
    <3>9. CASE x.of = "ops"
      BY <2>1, <3>1, <3>9, EachIsSeq DEF Written
    <3>10. CASE x.of = "cacheSyncs"
      BY <2>1, <3>1, <3>10, EachIsSeq DEF Written
    <3> QED
      BY <3>3, <3>4, <3>5, <3>6, <3>7, <3>8, <3>9, <3>10 DEF OfSegment
  <2>5. x.of = "name" \/ x.of = "config" \/ <<x.of, x.id>> \in ArrayItems(m, w)
    BY <1>2 DEF Expandable, ArrayItems
  <2> QED
    BY <2>2, <2>3, <2>4, <2>5
<1> QED
  BY <1>1, <1>2 DEF ItemOK

-----------------------------------------------------------------------------
(* Reading what has been written: a structure, an array                     *)

LEMMA BuiltLess ==
  ASSUME NEW m, NEW w, NEW a, NEW f, NEW c, NEW r, NEW less, less \subseteq r, Built(m, w, a, f, c, r)
  PROVE  Built(m, w, a, f, c, less)
  BY DEF Built

(* Of structures, the value read is the value of the field.                 *)
LEMMA ToldIs ==
  ASSUME NEW m, NEW w, NEW id, id[1] # "locals"
  PROVE  /\ id # Locals
         /\ Told(m, w, id, "bytes") = strlen(Structure(m, w, id).name) + 1
         /\ \A f : f # "bytes" => Told(m, w, id, f) = Structure(m, w, id)[f]
<1>1. id # Locals
  BY DEF Locals
<1> QED
  BY <1>1 DEF Told

(* One field of a structure.                                                *)
LEMMA BuiltField ==
  ASSUME NEW m, NEW w, NEW id, id[1] # "locals", NEW f, f # "bytes"
  PROVE  /\ Built(m, w, ReadUInt(id, f), << UInt(Structure(m, w, id)[f]) >>, {<<id, f>>}, {<<id, f>>})
         /\ Built(m, w, Read(<<"size2d">>, id, f), << Size2D(Structure(m, w, id)[f]) >>, {<<id, f>>}, {<<id, f>>})
         /\ Built(m, w, Read(<<"pointer">>, id, f), << Pointer(Structure(m, w, id)[f]) >>, {<<id, f>>}, {<<id, f>>})
<1>1. Told(m, w, id, f) = Structure(m, w, id)[f]
  BY ToldIs
<1>2. \A size : Built(m, w, Read(size, id, f), << Field(size, Structure(m, w, id)[f]) >>, {<<id, f>>}, {<<id, f>>})
  BY <1>1, BuiltRead
<1> QED
  BY <1>2 DEF ReadUInt, UInt, Size2D, Pointer

(* readString reads what writeString wrote (nn-network.cpp:593-605).         *)
LEMMA BuiltName ==
  ASSUME NEW m, NEW w, Sound(m, w), NEW id \in ConfigIds(m, w), id[1] \in Named
  PROVE  Built(m, w, ReadName(id), String(Structure(m, w, id).name), {<<id, "bytes">>, <<id, "name">>}, {})
<1> DEFINE a == ReadUInt(id, "bytes")
           here == Structure(m, w, id)
           f == UInt(strlen(here.name) + 1)
           g == Bytes(strlen(here.name) + 1, here.name)
           b == <<id, "bytes">>
           c == <<id, "name">>
           x == [do |-> "expand", of |-> "name", id |-> id]
<1>1. Told(m, w, id, "bytes") = strlen(here.name) + 1
  BY ToldIs DEF Named
<1>2. Built(m, w, a, <<f>>, {b}, {b})
  BY <1>1, BuiltRead DEF ReadUInt, UInt
<1>3. <<"name", id>> \in Expandable(m, w)
  BY DEF Expandable
<1>4. Needs(x) = b
  BY DEF Needs
<1>5. Covers(m, w, x) = {c}
  <2>1. x.do # "read" /\ x.of = "name" /\ x.id = id
    OBVIOUS
  <2> QED
    BY <2>1 DEF Covers
<1>6. Written(m, w, "name", id) = <<g>>
  BY DEF Written
<1>7. ReadName(id) = a \o Expand("name", id)
  BY DEF ReadName
<1>8. String(here.name) = <<f>> \o <<g>>
  BY Split2 DEF String
<1> HIDE DEF a, f, g, b, c
<1>9. Built(m, w, a \o Expand("name", id), <<f>> \o <<g>>, {b} \cup {c}, {b})
  <2>1. Needs([do |-> "expand", of |-> "name", id |-> id]) \in {b}
    BY <1>4
  <2>2. Built(m, w, a \o Expand("name", id), <<f>> \o Written(m, w, "name", id),
              {b} \cup Covers(m, w, [do |-> "expand", of |-> "name", id |-> id]), {b})
    BY <1>2, <1>3, <2>1, BuiltExpand
  <2> QED
    BY <2>2, <1>5, <1>6
<1>10. {b} \cup {c} = {b, c}
  OBVIOUS
<1>11. Built(m, w, ReadName(id), String(here.name), {b, c}, {b})
  BY <1>7, <1>8, <1>9, <1>10
<1>12. Built(m, w, ReadName(id), String(here.name), {b, c}, {})
  <2> HIDE DEF here
  <2> QED
    BY <1>11, BuiltLess
<1> QED
  BY <1>12 DEF b, c

(* A pipe or a buffer (nn-network.cpp:620-623, 640-643, 702-706, 737-741).   *)
LEMMA BuiltBuffer ==
  ASSUME NEW m, NEW w, Sound(m, w), NEW id \in ConfigIds(m, w), id[1] \in {"pipes", "buffers"}
  PROVE  Built(m, w, Element(id), BufferFields(Structure(m, w, id)), AllOf(id), {})
<1> DEFINE here == Structure(m, w, id)
           a == Read(<<"size2d">>, id, "size")
           b == ReadName(id)
<1>1. Element(id) = a \o b
  BY DEF Element
<1>2. Built(m, w, a, <<Size2D(here.size)>>, {<<id, "size">>}, {<<id, "size">>})
  BY BuiltField
<1>3. Built(m, w, b, String(here.name), {<<id, "bytes">>, <<id, "name">>}, {})
  BY BuiltName DEF Named
<1>4. BufferFields(here) = <<Size2D(here.size)>> \o String(here.name)
  BY DEF BufferFields
<1>5. AllOf(id) = {<<id, "size">>} \cup {<<id, "bytes">>, <<id, "name">>}
  <2>1. FieldsIn(id) = {"size", "name", "bytes"}
    BY DEF FieldsIn, StructFields, Named
  <2> QED
    BY <2>1 DEF AllOf
<1> HIDE DEF a, b, here
<1>6. Built(m, w, a \o b, <<Size2D(here.size)>> \o String(here.name), AllOf(id), {<<id, "size">>} \cup {})
  BY <1>2, <1>3, <1>5, BuiltCat
<1> QED
  BY <1>1, <1>4, <1>6, BuiltLess DEF here

(* A structure of one or two numbers.                                       *)
LEMMA BuiltNumbers ==
  ASSUME NEW m, NEW w, Sound(m, w), NEW id
  PROVE  /\ id[1] = "preSyncs" =>
              Built(m, w, Element(id), PreSyncFields(Structure(m, w, id)), AllOf(id), {})
         /\ id[1] = "syncs" =>
              Built(m, w, Element(id), SyncFields(Structure(m, w, id)), AllOf(id), {})
         /\ id[1] = "cacheSyncs" =>
              Built(m, w, Element(id), CacheSyncFields(Structure(m, w, id)), AllOf(id), {})
<1> DEFINE here == Structure(m, w, id)
<1>1. CASE id[1] = "preSyncs"
  <2>1. Built(m, w, ReadUInt(id, "pipeIndex"), << UInt(here.pipeIndex) >>,
              {<<id, "pipeIndex">>}, {<<id, "pipeIndex">>})
    BY <1>1, BuiltField
  <2>2. AllOf(id) = {<<id, "pipeIndex">>}
    BY <1>1 DEF AllOf, FieldsIn, StructFields, Named
  <2>3. Element(id) = ReadUInt(id, "pipeIndex")
    BY <1>1 DEF Element
  <2>4. PreSyncFields(here) = << UInt(here.pipeIndex) >>
    BY DEF PreSyncFields
  <2> HIDE DEF here
  <2>5. Built(m, w, Element(id), PreSyncFields(here), AllOf(id), {<<id, "pipeIndex">>})
    BY <2>1, <2>2, <2>3, <2>4
  <2> QED
    BY <1>1, <2>5, BuiltLess DEF here
<1>2. CASE id[1] = "syncs"
  <2> DEFINE p == <<id, "pipeIndex">>
             q == <<id, "syncType">>
  <2>1. Built(m, w, ReadUInt(id, "pipeIndex"), << UInt(here.pipeIndex) >>, {p}, {p})
    BY <1>2, BuiltField
  <2>2. Built(m, w, ReadUInt(id, "syncType"), << UInt(here.syncType) >>, {q}, {q})
    BY <1>2, BuiltField
  <2>3. AllOf(id) = {p} \cup {q}
    <3>1. FieldsIn(id) = {"pipeIndex", "syncType"}
      BY <1>2 DEF FieldsIn, StructFields, Named
    <3> QED
      BY <3>1 DEF AllOf
  <2>4. Element(id) = ReadUInt(id, "pipeIndex") \o ReadUInt(id, "syncType")
    BY <1>2 DEF Element
  <2>5. SyncFields(here) = << UInt(here.pipeIndex) >> \o << UInt(here.syncType) >>
    BY Split2 DEF SyncFields
  <2> HIDE DEF here, p, q
  <2>6. Built(m, w, Element(id), SyncFields(here), AllOf(id), {p} \cup {q})
    BY <2>1, <2>2, <2>3, <2>4, <2>5, BuiltCat
  <2> QED
    BY <1>2, <2>6, BuiltLess DEF here
<1>3. CASE id[1] = "cacheSyncs"
  <2> DEFINE p == <<id, "cacheSyncType">>
             q == <<id, "bufferIndex">>
  <2>1. Built(m, w, ReadUInt(id, "cacheSyncType"), << UInt(here.cacheSyncType) >>, {p}, {p})
    BY <1>3, BuiltField
  <2>2. Built(m, w, ReadUInt(id, "bufferIndex"), << UInt(here.bufferIndex) >>, {q}, {q})
    BY <1>3, BuiltField
  <2>3. AllOf(id) = {p} \cup {q}
    <3>1. FieldsIn(id) = {"cacheSyncType", "bufferIndex"}
      BY <1>3 DEF FieldsIn, StructFields, Named
    <3> QED
      BY <3>1 DEF AllOf
  <2>4. Element(id) = ReadUInt(id, "cacheSyncType") \o ReadUInt(id, "bufferIndex")
    BY <1>3 DEF Element
  <2>5. CacheSyncFields(here) = << UInt(here.cacheSyncType) >> \o << UInt(here.bufferIndex) >>
    BY Split2 DEF CacheSyncFields
  <2> HIDE DEF here, p, q
  <2>6. Built(m, w, Element(id), CacheSyncFields(here), AllOf(id), {p} \cup {q})
    BY <2>1, <2>2, <2>3, <2>4, <2>5, BuiltCat
  <2> QED
    BY <1>3, <2>6, BuiltLess DEF here
<1> QED
  BY <1>1, <1>2, <1>3

(* An operation (nn-network.cpp:657-669, 753-767).                           *)
LEMMA BuiltOp ==
  ASSUME NEW m, NEW w, Sound(m, w), NEW id \in ConfigIds(m, w), id[1] = "ops",
         Structure(m, w, id).configSize > 0
  PROVE  Built(m, w, Element(id), OpFields(Structure(m, w, id)), AllOf(id), {})
<1> DEFINE here == Structure(m, w, id)
           p(f) == <<id, f>>
           a1 == ReadUInt(id, "code")
           a2 == ReadUInt(id, "index")
           a3 == Read(<<"size2d">>, id, "weightSize")
           a4 == ReadUInt(id, "configSize")
           a5 == ReadName(id)
           a6 == Read(<<"pointer">>, id, "input")
           a7 == Read(<<"pointer">>, id, "output")
           a8 == Expand("config", id)
           f1 == << UInt(here.code) >>
           f2 == << UInt(here.index) >>
           f3 == << Size2D(here.weightSize) >>
           f4 == << UInt(here.configSize) >>
           f5 == String(here.name)
           f6 == << Pointer(here.input) >>
           f7 == << Pointer(here.output) >>
           f8 == << Bytes(here.configSize, here.config) >>
           c1 == {p("code")}
           c2 == {p("index")}
           c3 == {p("weightSize")}
           c4 == {p("configSize")}
           c5 == {p("bytes"), p("name")}
           c6 == {p("input")}
           c7 == {p("output")}
           c8 == {p("config")}
<1>1. Element(id) = ((((((a1 \o a2) \o a3) \o a4) \o a5) \o a6) \o a7) \o a8
  BY DEF Element
<1>2. /\ Built(m, w, a1, f1, c1, c1) /\ Built(m, w, a2, f2, c2, c2) /\ Built(m, w, a3, f3, c3, c3)
      /\ Built(m, w, a4, f4, c4, c4) /\ Built(m, w, a6, f6, c6, c6) /\ Built(m, w, a7, f7, c7, c7)
  BY BuiltField
<1>3. Built(m, w, a5, f5, c5, {})
  BY BuiltName DEF Named
<1>4. Written(m, w, "config", id) = f8
  BY DEF Written
<1>5. <<"config", id>> \in Expandable(m, w)
  BY DEF Expandable
<1>6. LET x == [do |-> "expand", of |-> "config", id |-> id]
      IN  Needs(x) = p("configSize") /\ Covers(m, w, x) = c8
  <2> DEFINE x == [do |-> "expand", of |-> "config", id |-> id]
  <2>1. x.do # "read" /\ x.of = "config" /\ x.id = id
    OBVIOUS
  <2> HIDE DEF x
  <2>2. Needs(x) = p("configSize") /\ Covers(m, w, x) = c8
    BY <2>1 DEF Needs, Covers
  <2> QED
    BY <2>2 DEF x
<1>7. OpFields(here) = (((((f1 \o f2) \o f3) \o f4) \o f5) \o (f6 \o f7)) \o f8
  <2>1. << UInt(here.code), UInt(here.index), Size2D(here.weightSize), UInt(here.configSize) >>
        = ((f1 \o f2) \o f3) \o f4
    BY Split2, Split3, Split4
  <2>2. << Pointer(here.input), Pointer(here.output) >> = f6 \o f7
    BY Split2
  <2> QED
    BY <2>1, <2>2 DEF OpFields
<1>8. AllOf(id) = ((((((c1 \cup c2) \cup c3) \cup c4) \cup c5) \cup c6) \cup c7) \cup c8
  <2>1. FieldsIn(id) = {"code", "index", "weightSize", "configSize", "name", "input", "output", "config", "bytes"}
    BY DEF FieldsIn, StructFields, Named
  <2>2. AllOf(id) = {p("code"), p("index"), p("weightSize"), p("configSize"), p("name"), p("input"),
                     p("output"), p("config"), p("bytes")}
    BY <2>1 DEF AllOf
  <2> QED
    BY <2>2
<1>9. IsSeq(f1) /\ IsSeq(f2) /\ IsSeq(f3) /\ IsSeq(f4) /\ IsSeq(f5) /\ IsSeq(f6) /\ IsSeq(f7) /\ IsSeq(f8)
  <2>1. IsSeq(f8)
    BY OneIsSeq
  <2> HIDE DEF f1, f2, f3, f4, f5, f6, f7, f8
  <2> QED
    BY <1>2, <1>3, <2>1 DEF Built
<1>10. p("configSize") \in c4
  OBVIOUS
<1> HIDE DEF a1, a2, a3, a4, a5, a6, a7, f1, f2, f3, f4, f5, f6, f7, f8, c1, c2, c3, c4, c5, c6, c7, c8, p
<1>11. Built(m, w, a1 \o a2, f1 \o f2, c1 \cup c2, c1 \cup c2)
  BY <1>2, BuiltCat
<1>12. Built(m, w, (a1 \o a2) \o a3, (f1 \o f2) \o f3, (c1 \cup c2) \cup c3, (c1 \cup c2) \cup c3)
  BY <1>2, <1>11, BuiltCat
<1>13. Built(m, w, ((a1 \o a2) \o a3) \o a4, ((f1 \o f2) \o f3) \o f4, ((c1 \cup c2) \cup c3) \cup c4,
             ((c1 \cup c2) \cup c3) \cup c4)
  BY <1>2, <1>12, BuiltCat
<1> DEFINE b == ((a1 \o a2) \o a3) \o a4
           g == ((f1 \o f2) \o f3) \o f4
           d == ((c1 \cup c2) \cup c3) \cup c4
<1>14. Built(m, w, b, g, d, d) /\ c4 \subseteq d /\ IsSeq(g)
  BY <1>13 DEF Built
<1> HIDE DEF b, g, d
<1>15. Built(m, w, b \o a5, g \o f5, d \cup c5, d \cup {})
  BY <1>3, <1>14, BuiltCat
<1>16. Built(m, w, (b \o a5) \o a6, (g \o f5) \o f6, (d \cup c5) \cup c6, (d \cup {}) \cup c6)
  BY <1>2, <1>15, BuiltCat
<1>17. Built(m, w, ((b \o a5) \o a6) \o a7, ((g \o f5) \o f6) \o f7, ((d \cup c5) \cup c6) \cup c7,
             ((d \cup {}) \cup c6) \cup c7)
  BY <1>2, <1>16, BuiltCat
<1>18. Built(m, w, (((b \o a5) \o a6) \o a7) \o a8, (((g \o f5) \o f6) \o f7) \o f8,
             (((d \cup c5) \cup c6) \cup c7) \cup c8, ((d \cup {}) \cup c6) \cup c7)
  <2> DEFINE b7 == ((b \o a5) \o a6) \o a7
             g7 == ((g \o f5) \o f6) \o f7
             d7 == ((d \cup c5) \cup c6) \cup c7
             r7 == ((d \cup {}) \cup c6) \cup c7
  <2>1. p("configSize") \in r7
    BY <1>10, <1>14
  <2>2. Built(m, w, b7, g7, d7, r7)
    BY <1>17
  <2> HIDE DEF b7, g7, d7, r7
  <2>3. Needs([do |-> "expand", of |-> "config", id |-> id]) \in r7
    BY <1>6, <2>1
  <2>4. Built(m, w, b7 \o Expand("config", id), g7 \o Written(m, w, "config", id),
              d7 \cup Covers(m, w, [do |-> "expand", of |-> "config", id |-> id]), r7)
    BY <1>5, <2>2, <2>3, BuiltExpand
  <2>5. Built(m, w, b7 \o a8, g7 \o f8, d7 \cup c8, r7)
    BY <2>4, <1>4, <1>6
  <2> QED
    BY <2>5 DEF b7, g7, d7, r7
<1>19. (((g \o f5) \o f6) \o f7) \o f8 = OpFields(here)
  <2> DEFINE h == g \o f5
  <2>1. IsSeq(h)
    BY <1>9, <1>14, Cat
  <2>2. (h \o f6) \o f7 = h \o (f6 \o f7)
    <3> HIDE DEF h
    <3>1. IsSeq(f6) /\ IsSeq(f7)
      BY <1>9
    <3>2. \A x, y, z : IsSeq(x) /\ IsSeq(y) /\ IsSeq(z) => (x \o y) \o z = x \o (y \o z)
      BY CatAssoc
    <3> QED
      BY <3>1, <3>2, <2>1
  <2> QED
    BY <1>7, <2>2 DEF g
<1>20. Built(m, w, Element(id), OpFields(here), AllOf(id), ((d \cup {}) \cup c6) \cup c7)
  BY <1>1, <1>8, <1>18, <1>19 DEF b, d
<1> HIDE DEF here
<1>21. Built(m, w, Element(id), OpFields(here), AllOf(id), {})
  BY <1>20, BuiltLess
<1> QED
  BY <1>21 DEF here

(* What an item for an array covers: all of its elements.                   *)
LEMMA ArrayCovers ==
  ASSUME NEW m, NEW w, Sound(m, w), NEW of, NEW id, <<of, id>> \in ArrayItems(m, w), of # "segments"
  PROVE  Covers(m, w, [do |-> "expand", of |-> of, id |-> id])
           = UNION {AllOf(ElementId(of, id, i)) : i \in 1 .. Len(Structure(m, w, id)[of])}
<1> DEFINE x == [do |-> "expand", of |-> of, id |-> id]
           n == Len(Structure(m, w, id)[of])
<1>1. of \in Arrays
      /\ (\A i \in 1 .. n :
            /\ ElementId(of, id, i) \in ConfigIds(m, w)
            /\ ElementId(of, id, i)[1] = of
            /\ ElementId(of, id, i)[2] = id[3])
      /\ \A e \in ConfigIds(m, w) : e[1] = of /\ e[2] = id[3] =>
           \E i \in 1 .. n : e = ElementId(of, id, i)
  BY ArrayIs DEF Sound
<1>2. Covers(m, w, x) = {p \in Pairs(m, w) : p[1][1] = of /\ p[1][2] = id[3]}
  <2>1. x.do # "read" /\ x.of = of /\ x.id = id
    OBVIOUS
  <2>2. of \notin {"name", "config", "segments"}
    BY <1>1 DEF Arrays, OfNet, OfNode, OfSegment
  <2> HIDE DEF x
  <2> QED
    BY <2>1, <2>2 DEF Covers
<1> HIDE DEF n, x
<1>3. ASSUME NEW p, p \in Pairs(m, w), p[1][1] = of, p[1][2] = id[3]
      PROVE  \E i \in 1 .. n : p \in AllOf(ElementId(of, id, i))
  <2>1. of # "locals"
    BY <1>1 DEF Arrays, OfNet, OfNode, OfSegment
  <2>2. p # <<Locals, "ack">>
    BY <1>3, <2>1 DEF Locals
  <2>3. PICK e \in ConfigIds(m, w) : \E f \in FieldsIn(e) : p = <<e, f>>
    BY <1>3, <2>2 DEF Pairs
  <2>4. p[1] = e /\ p \in AllOf(e)
    BY <2>3 DEF AllOf
  <2> QED
    BY <1>1, <1>3, <2>4
<1>4. ASSUME NEW i \in 1 .. n, NEW p \in AllOf(ElementId(of, id, i))
      PROVE  p \in Pairs(m, w) /\ p[1][1] = of /\ p[1][2] = id[3]
  <2> DEFINE e == ElementId(of, id, i)
  <2>1. e \in ConfigIds(m, w) /\ e[1] = of /\ e[2] = id[3]
    BY <1>1
  <2> HIDE DEF e
  <2>2. PICK f \in FieldsIn(e) : p = <<e, f>>
    BY DEF AllOf, e
  <2> QED
    BY <2>1, <2>2 DEF Pairs
<1> QED
  BY <1>2, <1>3, <1>4 DEF n, x

(* An array of structures without arrays (nn-network.cpp:619-627, 639-643,   *)
(* 650-669, 700-713, 735-741, 745-772): what is read is what was written.    *)
LEMMA BuiltArray ==
  ASSUME NEW m, NEW w, Sound(m, w), NEW of, NEW id, <<of, id>> \in ArrayItems(m, w), of # "segments"
  PROVE  Built(m, w, FlattenSeq([i \in 1 .. Len(Structure(m, w, id)[of]) |-> Element(ElementId(of, id, i))]),
               Written(m, w, of, id), Covers(m, w, [do |-> "expand", of |-> of, id |-> id]), {})
<1> DEFINE list == Structure(m, w, id)[of]
           n == Len(list)
           s == [i \in 1 .. n |-> Element(ElementId(of, id, i))]
           c == [i \in 1 .. n |-> AllOf(ElementId(of, id, i))]
           F(f) == Built(m, w, FlattenSeq(s), FlattenSeq(f),
                         Covers(m, w, [do |-> "expand", of |-> of, id |-> id]), {})
<1>1. /\ of \in Arrays /\ IsSeq(list) /\ n \in Nat /\ DOMAIN list = 1 .. n
      /\ \A i \in 1 .. n :
           /\ ElementId(of, id, i) \in ConfigIds(m, w)
           /\ ElementId(of, id, i)[1] = of
           /\ Structure(m, w, ElementId(of, id, i)) = list[i]
  BY ArrayIs, SeqShape DEF Sound
<1>2. Covers(m, w, [do |-> "expand", of |-> of, id |-> id]) = UNION {c[i] : i \in 1 .. n}
  <2>1. Covers(m, w, [do |-> "expand", of |-> of, id |-> id])
          = UNION {AllOf(ElementId(of, id, i)) : i \in 1 .. n}
    BY ArrayCovers
  <2>2. \A i \in 1 .. n : c[i] = AllOf(ElementId(of, id, i))
    OBVIOUS
  <2> HIDE DEF c, n
  <2>3. UNION {AllOf(ElementId(of, id, i)) : i \in 1 .. n} = UNION {c[i] : i \in 1 .. n}
    BY <2>2
  <2> QED
    BY <2>1, <2>3
<1>3. ASSUME NEW f, f = [i \in 1 .. n |-> f[i]],
             \A i \in 1 .. n : Built(m, w, Element(ElementId(of, id, i)), f[i], AllOf(ElementId(of, id, i)), {})
      PROVE  F(f)
  <2>1. s = [i \in 1 .. n |-> s[i]] /\ \A i \in 1 .. n : Built(m, w, s[i], f[i], c[i], {})
    BY <1>3
  <2> HIDE DEF s, c, n
  <2>a. AllBuilt(m, w, n, s, f, c)
    BY <1>3, <2>1 DEF AllBuilt
  <2>2. Built(m, w, FlattenSeq(s), FlattenSeq(f), UNION {c[i] : i \in 1 .. n}, {})
    BY <1>1, <2>a, BuiltFlat
  <2> QED
    BY <1>2, <2>2
<1>4. CASE of \in {"pipes", "buffers"}
  <2> DEFINE f == [i \in 1 .. n |-> BufferFields(list[i])]
  <2>1. \A i \in 1 .. n : Built(m, w, Element(ElementId(of, id, i)), f[i], AllOf(ElementId(of, id, i)), {})
    BY <1>1, <1>4, BuiltBuffer
  <2>2. F(f)
    <3>1. f = [i \in 1 .. n |-> f[i]]
      OBVIOUS
    <3> HIDE DEF f, F
    <3> QED
      BY <2>1, <3>1, <1>3
  <2>3. Written(m, w, of, id) = FlattenSeq(f)
    <3>1. (of = "pipes" /\ id = Net) \/ (of = "buffers" /\ id = Node)
      BY <1>4 DEF ArrayItems, OfSegment
    <3>2. Structure(m, w, Net) = NetConfig(m) /\ Structure(m, w, Node) = NodeConfig(m, w)
      BY Structures
    <3>3. Written(m, w, of, id) = Each(list, BufferFields)
      BY <3>1, <3>2 DEF Written
    <3> QED
      BY <3>3, <1>1 DEF Each
  <2> QED
    BY <2>2, <2>3
<1>5. CASE of = "preSyncs"
  <2> DEFINE f == [i \in 1 .. n |-> PreSyncFields(list[i])]
  <2>1. \A i \in 1 .. n : Built(m, w, Element(ElementId(of, id, i)), f[i], AllOf(ElementId(of, id, i)), {})
    BY <1>1, <1>5, BuiltNumbers
  <2>2. F(f)
    <3>1. f = [i \in 1 .. n |-> f[i]]
      OBVIOUS
    <3> HIDE DEF f, F
    <3> QED
      BY <2>1, <3>1, <1>3
  <2>3. Written(m, w, of, id) = FlattenSeq(f)
    <3>1. id = Net
      BY <1>5 DEF ArrayItems, OfSegment
    <3>2. Structure(m, w, Net) = NetConfig(m)
      BY Structures
    <3>3. Written(m, w, of, id) = Each(list, PreSyncFields)
      BY <1>5, <3>1, <3>2 DEF Written
    <3> QED
      BY <3>3, <1>1 DEF Each
  <2> QED
    BY <2>2, <2>3
<1>6. CASE of = "syncs"
  <2> DEFINE f == [i \in 1 .. n |-> SyncFields(list[i])]
  <2>1. \A i \in 1 .. n : Built(m, w, Element(ElementId(of, id, i)), f[i], AllOf(ElementId(of, id, i)), {})
    BY <1>1, <1>6, BuiltNumbers
  <2>2. F(f)
    <3>1. f = [i \in 1 .. n |-> f[i]]
      OBVIOUS
    <3> HIDE DEF f, F
    <3> QED
      BY <2>1, <3>1, <1>3
  <2>3. Written(m, w, of, id) = Each(list, SyncFields)
    BY <1>6 DEF Written
  <2> QED
    BY <2>2, <2>3, <1>1 DEF Each
<1>7. CASE of = "cacheSyncs"
  <2> DEFINE f == [i \in 1 .. n |-> CacheSyncFields(list[i])]
  <2>1. \A i \in 1 .. n : Built(m, w, Element(ElementId(of, id, i)), f[i], AllOf(ElementId(of, id, i)), {})
    BY <1>1, <1>7, BuiltNumbers
  <2>2. F(f)
    <3>1. f = [i \in 1 .. n |-> f[i]]
      OBVIOUS
    <3> HIDE DEF f, F
    <3> QED
      BY <2>1, <3>1, <1>3
  <2>3. Written(m, w, of, id) = Each(list, CacheSyncFields)
    BY <1>7 DEF Written
  <2> QED
    BY <2>2, <2>3, <1>1 DEF Each
<1>8. CASE of = "ops"
  <2> DEFINE f == [i \in 1 .. n |-> OpFields(list[i])]
  <2>0. \A i \in 1 .. n : list[i].configSize > 0
    <3>1. id \in ConfigIds(m, w) /\ id[1] = "segments"
      BY <1>8 DEF ArrayItems
    <3>2. PICK k \in DOMAIN NodeConfig(m, w).segments : id = <<"segments", 0, k>>
      BY <3>1, IdForms DEF Net, Node
    <3>3. Structure(m, w, id) = NodeConfig(m, w).segments[k]
      BY <3>2, Structures DEF OfNode
    <3>4. IsSegment(NodeConfig(m, w).segments[k])
      BY <3>2, SeqShape DEF Sound, ConfigShape
    <3>5. \A op \in Elems(list) : op.configSize \in Nat \ {0}
      BY <1>8, <3>3, <3>4 DEF IsSegment
    <3>6. \A i \in 1 .. n : list[i].configSize \in Nat \ {0}
      BY <3>5 DEF Elems
    <3> QED
      BY <3>6
  <2>1. \A i \in 1 .. n : Built(m, w, Element(ElementId(of, id, i)), f[i], AllOf(ElementId(of, id, i)), {})
    BY <1>1, <1>8, <2>0, BuiltOp
  <2>2. F(f)
    <3>1. f = [i \in 1 .. n |-> f[i]]
      OBVIOUS
    <3> HIDE DEF f, F
    <3> QED
      BY <2>1, <3>1, <1>3
  <2>3. Written(m, w, of, id) = Each(list, OpFields)
    BY <1>8 DEF Written
  <2> QED
    BY <2>2, <2>3, <1>1 DEF Each
<1>9. of \in {"pipes", "buffers", "preSyncs", "syncs", "cacheSyncs", "ops"}
  BY <1>1 DEF Arrays, OfNet, OfNode, OfSegment
<1> QED
  BY <1>4, <1>5, <1>6, <1>7, <1>8, <1>9

(* The arrays of a segment are read with it.                                *)
WithArrays(m, w, id) ==
  AllOf(id) \cup {p \in Pairs(m, w) : p[1][1] \in OfSegment /\ p[1][2] = id[3]}

(* A segment (nn-network.cpp:644-671, 742-773).                              *)
LEMMA BuiltSegment ==
  ASSUME NEW m, NEW w, Sound(m, w), NEW id \in ConfigIds(m, w), id[1] = "segments"
  PROVE  Built(m, w, Element(id), SegmentFields(Structure(m, w, id)), WithArrays(m, w, id), {})
<1> DEFINE here == Structure(m, w, id)
           p(f) == <<id, f>>
           x(of) == [do |-> "expand", of |-> of, id |-> id]
           c(of) == Covers(m, w, x(of))
           a1 == ReadUInt(id, "nSyncs")
           a2 == ReadUInt(id, "nOps")
           a3 == ReadUInt(id, "nCacheSyncs")
           f1 == << UInt(here.nSyncs) >>
           f2 == << UInt(here.nOps) >>
           f3 == << UInt(here.nCacheSyncs) >>
           f4 == Each(here.syncs, SyncFields)
           f5 == Each(here.ops, OpFields)
           f6 == Each(here.cacheSyncs, CacheSyncFields)
           c1 == {p("nSyncs")}
           c2 == {p("nOps")}
           c3 == {p("nCacheSyncs")}
<1>1. Element(id) = ((((a1 \o a2) \o a3) \o Expand("syncs", id)) \o Expand("ops", id)) \o Expand("cacheSyncs", id)
  BY DEF Element
<1>2. /\ Built(m, w, a1, f1, c1, c1) /\ Built(m, w, a2, f2, c2, c2) /\ Built(m, w, a3, f3, c3, c3)
  BY BuiltField
<1>3. Written(m, w, "syncs", id) = f4 /\ Written(m, w, "ops", id) = f5 /\ Written(m, w, "cacheSyncs", id) = f6
  BY DEF Written
<1>4. \A of \in OfSegment : <<of, id>> \in Expandable(m, w)
  BY DEF Expandable
<1>5. Needs(x("syncs")) = p("nSyncs") /\ Needs(x("ops")) = p("nOps") /\ Needs(x("cacheSyncs")) = p("nCacheSyncs")
  BY DEF Needs, CountOf
<1>6. \A of \in OfSegment : c(of) = {q \in Pairs(m, w) : q[1][1] = of /\ q[1][2] = id[3]}
  <2> SUFFICES ASSUME NEW of \in OfSegment
               PROVE  c(of) = {q \in Pairs(m, w) : q[1][1] = of /\ q[1][2] = id[3]}
    OBVIOUS
  <2> DEFINE y == x(of)
  <2>1. y.do # "read" /\ y.of = of /\ y.id = id /\ of \notin {"name", "config", "segments"}
    BY DEF OfSegment
  <2> HIDE DEF y
  <2>2. Covers(m, w, y) = {q \in Pairs(m, w) : q[1][1] = of /\ q[1][2] = id[3]}
    BY <2>1 DEF Covers
  <2> QED
    BY <2>2 DEF y
<1>7. WithArrays(m, w, id) = ((((c1 \cup c2) \cup c3) \cup c("syncs")) \cup c("ops")) \cup c("cacheSyncs")
  <2>1. AllOf(id) = (c1 \cup c2) \cup c3
    <3>1. FieldsIn(id) = {"nSyncs", "nOps", "nCacheSyncs"}
      BY DEF FieldsIn, StructFields, Named
    <3> QED
      BY <3>1 DEF AllOf
  <2>2. {q \in Pairs(m, w) : q[1][1] \in OfSegment /\ q[1][2] = id[3]} = (c("syncs") \cup c("ops")) \cup c("cacheSyncs")
    <3> HIDE DEF c, x
    <3> QED
      BY <1>6 DEF OfSegment
  <2> HIDE DEF c, c1, c2, c3
  <2> QED
    BY <2>1, <2>2 DEF WithArrays
<1>8. SegmentFields(here) = ((((f1 \o f2) \o f3) \o f4) \o f5) \o f6
  <2>1. << UInt(here.nSyncs), UInt(here.nOps), UInt(here.nCacheSyncs) >> = (f1 \o f2) \o f3
    BY Split2, Split3
  <2> QED
    BY <2>1 DEF SegmentFields
<1> HIDE DEF a1, a2, a3, f1, f2, f3, f4, f5, f6, c1, c2, c3
<1>9. Built(m, w, a1 \o a2, f1 \o f2, c1 \cup c2, c1 \cup c2)
  BY <1>2, BuiltCat
<1>10. Built(m, w, (a1 \o a2) \o a3, (f1 \o f2) \o f3, (c1 \cup c2) \cup c3, (c1 \cup c2) \cup c3)
  BY <1>2, <1>9, BuiltCat
<1> DEFINE r == (c1 \cup c2) \cup c3
           b == (a1 \o a2) \o a3
           g == (f1 \o f2) \o f3
<1>11. p("nSyncs") \in r /\ p("nOps") \in r /\ p("nCacheSyncs") \in r
  BY DEF c1, c2, c3
<1>12. Built(m, w, b, g, r, r)
  BY <1>10
<1> HIDE DEF r, b, g
<1>13. "syncs" \in OfSegment /\ "ops" \in OfSegment /\ "cacheSyncs" \in OfSegment
  BY DEF OfSegment
<1>14. ASSUME NEW bb, NEW gg, NEW cc, NEW of \in OfSegment, Needs(x(of)) \in r, Built(m, w, bb, gg, cc, r)
       PROVE  Built(m, w, bb \o Expand(of, id), gg \o Written(m, w, of, id), cc \cup c(of), r)
  BY <1>4, <1>14, BuiltExpand
<1> HIDE DEF c
<1>15. Built(m, w, b \o Expand("syncs", id), g \o f4, r \cup c("syncs"), r)
  BY <1>3, <1>5, <1>11, <1>12, <1>13, <1>14
<1>16. Built(m, w, (b \o Expand("syncs", id)) \o Expand("ops", id), (g \o f4) \o f5, (r \cup c("syncs")) \cup c("ops"), r)
  BY <1>3, <1>5, <1>11, <1>13, <1>14, <1>15
<1>17. Built(m, w, ((b \o Expand("syncs", id)) \o Expand("ops", id)) \o Expand("cacheSyncs", id),
             ((g \o f4) \o f5) \o f6, ((r \cup c("syncs")) \cup c("ops")) \cup c("cacheSyncs"), r)
  BY <1>3, <1>5, <1>11, <1>13, <1>14, <1>16
<1>18. Built(m, w, Element(id), SegmentFields(here), WithArrays(m, w, id), r)
  BY <1>1, <1>7, <1>8, <1>17 DEF r, b, g
<1> HIDE DEF here
<1>19. Built(m, w, Element(id), SegmentFields(here), WithArrays(m, w, id), {})
  BY <1>18, BuiltLess
<1> QED
  BY <1>19 DEF here

(* All segments.                                                            *)
LEMMA BuiltSegments ==
  ASSUME NEW m, NEW w, Sound(m, w)
  PROVE  Built(m, w, FlattenSeq([i \in 1 .. Len(Structure(m, w, Node)["segments"]) |-> Element(ElementId("segments", Node, i))]),
               Written(m, w, "segments", Node), Covers(m, w, [do |-> "expand", of |-> "segments", id |-> Node]), {})
<1> DEFINE list == Structure(m, w, Node)["segments"]
           n == Len(list)
           x == [do |-> "expand", of |-> "segments", id |-> Node]
           s == [i \in 1 .. n |-> Element(ElementId("segments", Node, i))]
           f == [i \in 1 .. n |-> SegmentFields(list[i])]
           c == [i \in 1 .. n |-> WithArrays(m, w, ElementId("segments", Node, i))]
<1>0. <<"segments", Node>> \in ArrayItems(m, w)
  BY DEF ArrayItems
<1>1. /\ IsSeq(list) /\ n \in Nat /\ DOMAIN list = 1 .. n
      /\ \A i \in 1 .. n :
           /\ ElementId("segments", Node, i) \in ConfigIds(m, w)
           /\ ElementId("segments", Node, i)[1] = "segments"
           /\ Structure(m, w, ElementId("segments", Node, i)) = list[i]
  BY <1>0, ArrayIs, SeqShape DEF Sound
<1>2. \A i : ElementId("segments", Node, i) = <<"segments", 0, i>>
  BY DEF ElementId, Node
<1>3. list = NodeConfig(m, w).segments
  BY Structures
<1>4. Covers(m, w, x) = {p \in Pairs(m, w) : p[1][1] \in {"segments"} \cup OfSegment}
  <2>1. x.do # "read" /\ x.of = "segments" /\ x.id = Node
    OBVIOUS
  <2> HIDE DEF x
  <2> QED
    BY <2>1 DEF Covers
<1>5. ASSUME NEW p \in Pairs(m, w), p[1][1] \in {"segments"} \cup OfSegment
      PROVE  \E i \in 1 .. n : p \in WithArrays(m, w, <<"segments", 0, i>>)
  <2>1. p # <<Locals, "ack">>
    BY <1>5 DEF Locals, OfSegment
  <2>2. PICK e \in ConfigIds(m, w) : \E h \in FieldsIn(e) : p = <<e, h>>
    BY <2>1 DEF Pairs
  <2>3. p[1] = e /\ p \in AllOf(e)
    BY <2>2 DEF AllOf
  <2> HIDE DEF list, n
  <2>4. \/ \E i \in DOMAIN list : e = <<"segments", 0, i>>
        \/ \E k \in DOMAIN list :
             \/ \E i \in DOMAIN list[k].syncs : e = <<"syncs", k, i>>
             \/ \E i \in DOMAIN list[k].ops : e = <<"ops", k, i>>
             \/ \E i \in DOMAIN list[k].cacheSyncs : e = <<"cacheSyncs", k, i>>
    BY <1>3, <1>5, <2>3, IdForms DEF Net, Node, OfSegment
  <2>5. CASE \E i \in DOMAIN list : e = <<"segments", 0, i>>
    BY <1>1, <2>3, <2>5 DEF WithArrays
  <2>6. CASE \E k \in DOMAIN list : e[1] \in OfSegment /\ e[2] = k
    <3>1. PICK k \in DOMAIN list : e[1] \in OfSegment /\ e[2] = k
      BY <2>6
    <3>2. <<"segments", 0, k>>[3] = k
      OBVIOUS
    <3> QED
      BY <1>1, <2>3, <3>1, <3>2 DEF WithArrays
  <2> QED
    BY <2>4, <2>5, <2>6 DEF OfSegment
<1>6. ASSUME NEW i \in 1 .. n, NEW p \in WithArrays(m, w, <<"segments", 0, i>>)
      PROVE  p \in Pairs(m, w) /\ p[1][1] \in {"segments"} \cup OfSegment
  <2> DEFINE e == <<"segments", 0, i>>
  <2>1. e \in ConfigIds(m, w) /\ e[1] = "segments"
    BY <1>1, <1>2
  <2> HIDE DEF e
  <2>2. CASE p \in AllOf(e)
    BY <2>1, <2>2 DEF AllOf, Pairs
  <2>3. CASE p \in Pairs(m, w) /\ p[1][1] \in OfSegment
    BY <2>3
  <2> QED
    BY <2>2, <2>3 DEF WithArrays, e
<1>7. Covers(m, w, x) = UNION {c[i] : i \in 1 .. n}
  <2>1. \A i \in 1 .. n : c[i] = WithArrays(m, w, <<"segments", 0, i>>)
    BY <1>2
  <2>2. \A p \in Pairs(m, w) : p[1][1] \in {"segments"} \cup OfSegment => \E i \in 1 .. n : p \in c[i]
    <3> HIDE DEF c, n, x
    <3> QED
      BY <1>5, <2>1
  <2>3. \A i \in 1 .. n : \A p \in c[i] : p \in Pairs(m, w) /\ p[1][1] \in {"segments"} \cup OfSegment
    <3> HIDE DEF c, n, x
    <3> QED
      BY <1>6, <2>1
  <2> HIDE DEF c, n, x
  <2> QED
    BY <1>4, <2>2, <2>3
<1>8. \A i \in 1 .. n : Built(m, w, s[i], f[i], c[i], {})
  <2> SUFFICES ASSUME NEW i \in 1 .. n PROVE Built(m, w, s[i], f[i], c[i], {})
    OBVIOUS
  <2> DEFINE e == ElementId("segments", Node, i)
  <2>1. e \in ConfigIds(m, w) /\ e[1] = "segments" /\ Structure(m, w, e) = list[i]
    BY <1>1
  <2>2. s[i] = Element(e) /\ f[i] = SegmentFields(list[i]) /\ c[i] = WithArrays(m, w, e)
    OBVIOUS
  <2> HIDE DEF e, s, f, c
  <2> QED
    BY <2>1, <2>2, BuiltSegment
<1>9. AllBuilt(m, w, n, s, f, c)
  <2>1. s = [i \in 1 .. n |-> s[i]] /\ f = [i \in 1 .. n |-> f[i]]
    OBVIOUS
  <2> HIDE DEF s, f, c, n
  <2> QED
    BY <1>8, <2>1 DEF AllBuilt
<1>10. Built(m, w, FlattenSeq(s), FlattenSeq(f), UNION {c[i] : i \in 1 .. n}, {})
  <2> HIDE DEF s, f, c, n
  <2> QED
    BY <1>1, <1>9, BuiltFlat
<1>11. Written(m, w, "segments", Node) = FlattenSeq(f)
  BY <1>1, <1>3 DEF Written, Each
<1> QED
  <2> HIDE DEF f, c, x
  <2>1. Built(m, w, FlattenSeq(s), Written(m, w, "segments", Node), Covers(m, w, x), {})
    BY <1>7, <1>10, <1>11
  <2> QED
    BY <2>1 DEF x

(* What an item is expanded to reads what the item stands for, when the     *)
(* field it depends on has been read as it was written.                     *)
LEMMA BuiltExpansion ==
  ASSUME NEW m, NEW w, Sound(m, w), NEW of, NEW id, <<of, id>> \in Expandable(m, w), NEW g,
         LET need == Needs([do |-> "expand", of |-> of, id |-> id])
         IN  g[need[1]][need[2]] = Told(m, w, need[1], need[2])
  PROVE  Built(m, w, Expansion(of, id, g), Written(m, w, of, id),
               Covers(m, w, [do |-> "expand", of |-> of, id |-> id]), {})
<1> DEFINE x == [do |-> "expand", of |-> of, id |-> id]
           here == Structure(m, w, id)
<1>0. x.do # "read" /\ x.of = of /\ x.id = id /\ g[Needs(x)[1]][Needs(x)[2]] = Told(m, w, Needs(x)[1], Needs(x)[2])
  OBVIOUS
<1> HIDE DEF x
<1>1. CASE of = "name" /\ id \in ConfigIds(m, w) /\ id[1] \in Named
  <2> DEFINE n == strlen(here.name) + 1
  <2>1. Needs(x) = <<id, "bytes">>
    BY <1>0, <1>1 DEF Needs
  <2>2. g[id].bytes = Told(m, w, id, "bytes")
    BY <1>0, <2>1
  <2>3. Told(m, w, id, "bytes") = n /\ Told(m, w, id, "name") = here.name
    BY <1>1, ToldIs DEF Named
  <2>4. Expansion(of, id, g) = Read(<<"bytes", n>>, id, "name")
    <3>1. of \notin DOMAIN CountOf
      BY <1>1 DEF CountOf
    <3>2. Expansion(of, id, g) = Read(<<"bytes", g[id].bytes>>, id, "name")
      BY <1>1, <3>1 DEF Expansion
    <3> QED
      BY <2>2, <2>3, <3>2
  <2>5. Written(m, w, of, id) = << Field(<<"bytes", n>>, here.name) >>
    BY <1>1 DEF Written, Bytes
  <2>6. Covers(m, w, x) = {<<id, "name">>}
    BY <1>0, <1>1 DEF Covers
  <2> HIDE DEF n, here
  <2>7. Built(m, w, Read(<<"bytes", n>>, id, "name"), << Field(<<"bytes", n>>, Told(m, w, id, "name")) >>,
              {<<id, "name">>}, {<<id, "name">>})
    BY BuiltRead
  <2>8. Built(m, w, Expansion(of, id, g), Written(m, w, of, id), Covers(m, w, x), {<<id, "name">>})
    BY <2>3, <2>4, <2>5, <2>6, <2>7
  <2> QED
    BY <2>8, BuiltLess DEF x
<1>2. CASE of = "config" /\ id \in ConfigIds(m, w) /\ id[1] = "ops"
  <2> DEFINE n == here.configSize
  <2>1. Needs(x) = <<id, "configSize">>
    BY <1>0, <1>2 DEF Needs
  <2>2. g[id].configSize = Told(m, w, id, "configSize")
    BY <1>0, <2>1
  <2>3. Told(m, w, id, "configSize") = n /\ Told(m, w, id, "config") = here.config
    BY <1>2, ToldIs
  <2>a. n > 0
    <3>1. PICK k \in DOMAIN NodeConfig(m, w).segments :
            \E i \in DOMAIN NodeConfig(m, w).segments[k].ops : id = <<"ops", k, i>>
      BY <1>2, IdForms DEF Net, Node
    <3>2. PICK i \in DOMAIN NodeConfig(m, w).segments[k].ops : id = <<"ops", k, i>>
      BY <3>1
    <3>3. here = NodeConfig(m, w).segments[k].ops[i]
      BY <3>2, Structures DEF OfSegment
    <3>4. IsSegment(NodeConfig(m, w).segments[k])
      BY <3>1, SeqShape DEF Sound, ConfigShape
    <3>5. here \in Elems(NodeConfig(m, w).segments[k].ops)
      BY <3>2, <3>3, <3>4, SeqShape DEF Elems, IsSegment
    <3>6. n \in Nat \ {0}
      BY <3>4, <3>5 DEF IsSegment
    <3> HIDE DEF n
    <3> QED
      BY <3>6
  <2>4. Expansion(of, id, g) = Read(<<"bytes", n>>, id, "config")
    <3>1. of \notin DOMAIN CountOf
      BY <1>2 DEF CountOf
    <3>2. g[id].configSize = n /\ g[id].configSize > 0
      BY <2>2, <2>3, <2>a
    <3>3. Expansion(of, id, g) = Read(<<"bytes", g[id].configSize>>, id, "config")
      BY <1>2, <3>1, <3>2 DEF Expansion
    <3> QED
      BY <3>2, <3>3
  <2>5. Written(m, w, of, id) = << Field(<<"bytes", n>>, here.config) >>
    BY <1>2 DEF Written, Bytes
  <2>6. Covers(m, w, x) = {<<id, "config">>}
    BY <1>0, <1>2 DEF Covers
  <2> HIDE DEF n, here
  <2>7. Built(m, w, Read(<<"bytes", n>>, id, "config"), << Field(<<"bytes", n>>, Told(m, w, id, "config")) >>,
              {<<id, "config">>}, {<<id, "config">>})
    BY BuiltRead
  <2>8. Built(m, w, Expansion(of, id, g), Written(m, w, of, id), Covers(m, w, x), {<<id, "config">>})
    BY <2>3, <2>4, <2>5, <2>6, <2>7
  <2> QED
    BY <2>8, BuiltLess DEF x
<1>3. CASE <<of, id>> \in ArrayItems(m, w)
  <2>1. of \in Arrays /\ Len(here[of]) = here[CountOf[of]]
    BY <1>3, ArrayIs DEF Sound
  <2>2. of \in DOMAIN CountOf /\ of \notin {"name", "config", "weight", "data"} /\ CountOf[of] # "bytes"
    BY <2>1 DEF Arrays, OfNet, OfNode, OfSegment, CountOf
  <2>3. Needs(x) = <<id, CountOf[of]>>
    BY <1>0, <2>2 DEF Needs
  <2>4. id[1] # "locals"
    BY <1>3 DEF ArrayItems, Net, Node
  <2>5. g[id][CountOf[of]] = here[CountOf[of]]
    BY <1>0, <2>2, <2>3, <2>4, ToldIs
  <2>6. Expansion(of, id, g) = FlattenSeq([i \in 1 .. Len(here[of]) |-> Element(ElementId(of, id, i))])
    BY <2>1, <2>2, <2>5 DEF Expansion
  <2>7. CASE of # "segments"
    BY <1>3, <2>6, <2>7, BuiltArray DEF x
  <2>8. CASE of = "segments"
    <3>1. id = Node
      BY <1>3, <2>8 DEF ArrayItems, OfSegment
    <3> QED
      BY <2>6, <2>8, <3>1, BuiltSegments DEF x
  <2> QED
    BY <2>7, <2>8
<1>4. \/ of = "name" /\ id \in ConfigIds(m, w) /\ id[1] \in Named
      \/ of = "config" /\ id \in ConfigIds(m, w) /\ id[1] = "ops"
      \/ <<of, id>> \in ArrayItems(m, w)
  BY DEF Expandable, ArrayItems
<1> QED
  BY <1>1, <1>2, <1>3, <1>4

-----------------------------------------------------------------------------
(* Reading a configuration                                                  *)

(* The magic number before a configuration (nn-network.cpp:612, 691).       *)
LEMMA BuiltAck ==
  ASSUME NEW m, NEW w
  PROVE  Built(m, w, Read(<<"ack">>, Locals, "ack"), <<Ack>>, {<<Locals, "ack">>}, {<<Locals, "ack">>})
<1>1. Told(m, w, Locals, "ack") = "ACK"
  BY DEF Told
<1>2. Built(m, w, Read(<<"ack">>, Locals, "ack"), << Field(<<"ack">>, Told(m, w, Locals, "ack")) >>,
            {<<Locals, "ack">>}, {<<Locals, "ack">>})
  BY BuiltRead
<1> QED
  BY <1>1, <1>2 DEF Ack

(* What belongs to the configuration that all nodes share.                  *)
LEMMA NetPairsAre ==
  ASSUME NEW m, NEW w
  PROVE  NetPairs(m, w) =
           {<<Locals, "ack">>} \cup {<<Net, f>> : f \in StructFields.net}
           \cup {p \in Pairs(m, w) : p[1][1] = "pipes" /\ p[1][2] = 0}
           \cup {p \in Pairs(m, w) : p[1][1] = "preSyncs" /\ p[1][2] = 0}
<1> DEFINE other == {<<Locals, "ack">>} \cup {<<Net, f>> : f \in StructFields.net}
                    \cup {p \in Pairs(m, w) : p[1][1] = "pipes" /\ p[1][2] = 0}
                    \cup {p \in Pairs(m, w) : p[1][1] = "preSyncs" /\ p[1][2] = 0}
<1>1. FieldsIn(Net) = StructFields.net /\ Net[1] = "net"
  BY DEF FieldsIn, Named, Net
<1>2. Net \in ConfigIds(m, w)
  BY IdForms
<1>3. ASSUME NEW p \in NetPairs(m, w) PROVE p \in other
  <2>1. CASE p = <<Locals, "ack">>
    BY <2>1
  <2>2. CASE p # <<Locals, "ack">>
    <3>1. p \in Pairs(m, w) /\ p[1][1] \in NetKinds
      BY DEF NetPairs
    <3>2. PICK e \in ConfigIds(m, w) : \E h \in FieldsIn(e) : p = <<e, h>>
      BY <2>2, <3>1 DEF Pairs
    <3>3. p[1] = e
      BY <3>2
    <3>4. \/ e = Net
          \/ \E i \in DOMAIN NetConfig(m).pipes : e = <<"pipes", 0, i>>
          \/ \E i \in DOMAIN NetConfig(m).preSyncs : e = <<"preSyncs", 0, i>>
      BY <3>1, <3>3, IdForms DEF NetKinds, Node
    <3>5. CASE e = Net
      BY <1>1, <3>2, <3>5
    <3>6. CASE e # Net
      <4>1. e[1] \in {"pipes", "preSyncs"} /\ e[2] = 0
        BY <3>4, <3>6
      <4> QED
        BY <3>1, <3>3, <4>1
    <3> QED
      BY <3>5, <3>6
  <2> QED
    BY <2>1, <2>2
<1>4. ASSUME NEW p \in other PROVE p \in NetPairs(m, w)
  <2>1. CASE p = <<Locals, "ack">>
    BY <2>1 DEF NetPairs, Pairs, Locals, NetKinds
  <2>2. CASE p \in {<<Net, f>> : f \in StructFields.net}
    <3>1. p \in Pairs(m, w)
      BY <1>1, <1>2, <2>2 DEF Pairs
    <3>2. p[1] = Net
      BY <2>2
    <3> QED
      BY <1>1, <3>1, <3>2 DEF NetPairs, NetKinds
  <2>3. CASE p \in Pairs(m, w) /\ p[1][1] \in {"pipes", "preSyncs"}
    BY <2>3 DEF NetPairs, NetKinds
  <2> QED
    BY <2>1, <2>2, <2>3
<1> HIDE DEF other
<1>5. NetPairs(m, w) = other
  BY <1>3, <1>4
<1> QED
  BY <1>5 DEF other

(* A worker reads the configuration of the network that the root wrote      *)
(* (nn-network.cpp:611-630, 690-716).                                       *)
LEMMA BuiltNet ==
  ASSUME NEW m, NEW w, Sound(m, w)
  PROVE  Built(m, w, NetItems, writeNet(NetConfig(m)), NetPairs(m, w), {})
<1> DEFINE here == NetConfig(m)
           p(f) == <<Net, f>>
           x(of) == [do |-> "expand", of |-> of, id |-> Net]
           c(of) == Covers(m, w, x(of))
           ack == Read(<<"ack">>, Locals, "ack")
           a1 == ReadUInt(Net, "nBatches")
           a2 == ReadUInt(Net, "nNodes")
           a3 == ReadUInt(Net, "nPipes")
           a4 == ReadUInt(Net, "nSlots")
           a5 == ReadUInt(Net, "nPreSyncs")
           f0 == <<Ack>>
           f1 == << UInt(here.nBatches) >>
           f2 == << UInt(here.nNodes) >>
           f3 == << UInt(here.nPipes) >>
           f4 == << UInt(here.nSlots) >>
           f5 == << UInt(here.nPreSyncs) >>
           e1 == Each(here.pipes, BufferFields)
           e2 == Each(here.preSyncs, PreSyncFields)
           c0 == {<<Locals, "ack">>}
           c1 == {p("nBatches")}
           c2 == {p("nNodes")}
           c3 == {p("nPipes")}
           c4 == {p("nSlots")}
           c5 == {p("nPreSyncs")}
<1>1. NetItems = ((((((ack \o a1) \o a2) \o a3) \o a4) \o Expand("pipes", Net)) \o a5) \o Expand("preSyncs", Net)
  BY DEF NetItems
<1>2. /\ Built(m, w, ack, f0, c0, c0)
      /\ Built(m, w, a1, f1, c1, c1) /\ Built(m, w, a2, f2, c2, c2) /\ Built(m, w, a3, f3, c3, c3)
      /\ Built(m, w, a4, f4, c4, c4) /\ Built(m, w, a5, f5, c5, c5)
  <2>1. Net[1] # "locals" /\ Structure(m, w, Net) = here
    BY Structures DEF Net
  <2> HIDE DEF here
  <2> QED
    BY <2>1, BuiltAck, BuiltField
<1>3. Written(m, w, "pipes", Net) = e1 /\ Written(m, w, "preSyncs", Net) = e2
  BY DEF Written
<1>4. <<"pipes", Net>> \in Expandable(m, w) /\ <<"preSyncs", Net>> \in Expandable(m, w)
  BY DEF Expandable
<1>5. Needs(x("pipes")) = p("nPipes") /\ Needs(x("preSyncs")) = p("nPreSyncs")
  BY DEF Needs, CountOf
<1>6. /\ c("pipes") = {q \in Pairs(m, w) : q[1][1] = "pipes" /\ q[1][2] = 0}
      /\ c("preSyncs") = {q \in Pairs(m, w) : q[1][1] = "preSyncs" /\ q[1][2] = 0}
  <2> SUFFICES ASSUME NEW of \in {"pipes", "preSyncs"}
               PROVE  c(of) = {q \in Pairs(m, w) : q[1][1] = of /\ q[1][2] = 0}
    OBVIOUS
  <2> DEFINE y == x(of)
  <2>1. y.do # "read" /\ y.of = of /\ y.id[3] = 0 /\ of \notin {"name", "config", "segments"}
    BY DEF Net
  <2> HIDE DEF y
  <2>2. Covers(m, w, y) = {q \in Pairs(m, w) : q[1][1] = of /\ q[1][2] = 0}
    BY <2>1 DEF Covers
  <2> QED
    BY <2>2 DEF y
<1>7. NetPairs(m, w) = ((((((c0 \cup c1) \cup c2) \cup c3) \cup c4) \cup c("pipes")) \cup c5) \cup c("preSyncs")
  <2>1. {<<Net, f>> : f \in StructFields.net} = c1 \cup c2 \cup c3 \cup c4 \cup c5
    BY DEF StructFields
  <2> HIDE DEF c, c0, c1, c2, c3, c4, c5
  <2>2. NetPairs(m, w) = c0 \cup (c1 \cup c2 \cup c3 \cup c4 \cup c5) \cup c("pipes") \cup c("preSyncs")
    BY <1>6, <2>1, NetPairsAre DEF c0
  <2> QED
    BY <2>2
<1>8. writeNet(here) = ((((((f0 \o f1) \o f2) \o f3) \o f4) \o e1) \o f5) \o e2
  <2>1. << Ack, UInt(here.nBatches), UInt(here.nNodes), UInt(here.nPipes), UInt(here.nSlots) >>
          = (((f0 \o f1) \o f2) \o f3) \o f4
    BY Split2, Split3, Split4, Split5
  <2>2. writeNet(here) =
          ((<< Ack, UInt(here.nBatches), UInt(here.nNodes), UInt(here.nPipes), UInt(here.nSlots) >> \o e1) \o f5) \o e2
    BY DEF writeNet, Each, PreSyncFields
  <2> HIDE DEF f0, f1, f2, f3, f4, f5, e1, e2, here
  <2> QED
    BY <2>1, <2>2
<1> DEFINE b1 == (((ack \o a1) \o a2) \o a3) \o a4
           g1 == (((f0 \o f1) \o f2) \o f3) \o f4
           r1 == (((c0 \cup c1) \cup c2) \cup c3) \cup c4
           r2 == r1 \cup c5
<1>9. p("nPipes") \in r1 /\ p("nPreSyncs") \in r2
  OBVIOUS
<1> HIDE DEF ack, a1, a2, a3, a4, a5, f0, f1, f2, f3, f4, f5, c0, c1, c2, c3, c4, c5, e1, e2
<1>10. Built(m, w, b1, g1, r1, r1)
  <2>1. Built(m, w, ack \o a1, f0 \o f1, c0 \cup c1, c0 \cup c1)
    BY <1>2, BuiltCat
  <2>2. Built(m, w, (ack \o a1) \o a2, (f0 \o f1) \o f2, (c0 \cup c1) \cup c2, (c0 \cup c1) \cup c2)
    BY <1>2, <2>1, BuiltCat
  <2>3. Built(m, w, ((ack \o a1) \o a2) \o a3, ((f0 \o f1) \o f2) \o f3,
              ((c0 \cup c1) \cup c2) \cup c3, ((c0 \cup c1) \cup c2) \cup c3)
    BY <1>2, <2>2, BuiltCat
  <2> QED
    BY <1>2, <2>3, BuiltCat
<1> DEFINE b2 == b1 \o Expand("pipes", Net)
           g2 == g1 \o e1
           k2 == r1 \cup c("pipes")
<1> HIDE DEF b1, g1, r1
<1>11. Built(m, w, b2, g2, k2, r1)
  <2>1. Built(m, w, b1 \o Expand("pipes", Net), g1 \o Written(m, w, "pipes", Net), r1 \cup c("pipes"), r1)
    BY <1>4, <1>5, <1>9, <1>10, BuiltExpand
  <2> HIDE DEF c
  <2> QED
    BY <1>3, <2>1
<1> DEFINE b3 == b2 \o a5
           g3 == g2 \o f5
           k3 == k2 \cup c5
<1>12. Built(m, w, b3, g3, k3, r2)
  <2> HIDE DEF b2, g2, k2
  <2> QED
    BY <1>2, <1>11, BuiltCat
<1>13. Built(m, w, b3 \o Expand("preSyncs", Net), g3 \o e2, k3 \cup c("preSyncs"), r2)
  <2> HIDE DEF b3, g3, k3, r2
  <2>1. Built(m, w, b3 \o Expand("preSyncs", Net), g3 \o Written(m, w, "preSyncs", Net), k3 \cup c("preSyncs"), r2)
    BY <1>4, <1>5, <1>9, <1>12, BuiltExpand
  <2> HIDE DEF c
  <2> QED
    BY <1>3, <2>1
<1>14. Built(m, w, NetItems, writeNet(here), NetPairs(m, w), r2)
  BY <1>1, <1>7, <1>8, <1>13 DEF b1, g1, r1
<1> HIDE DEF r2, here
<1>15. Built(m, w, NetItems, writeNet(here), NetPairs(m, w), {})
  BY <1>14, BuiltLess
<1> QED
  BY <1>15 DEF here

NodePairs(m, w) == {p \in Pairs(m, w) : p[1][1] \notin {"net", "pipes", "preSyncs"}}

(* What belongs to the configuration of one node.                           *)
LEMMA NodePairsAre ==
  ASSUME NEW m, NEW w
  PROVE  /\ NodePairs(m, w) =
              {<<Locals, "ack">>} \cup {<<Node, f>> : f \in StructFields.node}
              \cup {p \in Pairs(m, w) : p[1][1] = "buffers" /\ p[1][2] = 0}
              \cup {p \in Pairs(m, w) : p[1][1] \in {"segments"} \cup OfSegment}
         /\ NetPairs(m, w) \cup NodePairs(m, w) = Pairs(m, w)
<1> DEFINE other == {<<Locals, "ack">>} \cup {<<Node, f>> : f \in StructFields.node}
                    \cup {p \in Pairs(m, w) : p[1][1] = "buffers" /\ p[1][2] = 0}
                    \cup {p \in Pairs(m, w) : p[1][1] \in {"segments"} \cup OfSegment}
<1>1. FieldsIn(Node) = StructFields.node /\ Node[1] = "node"
  BY DEF FieldsIn, Named, Node
<1>2. Node \in ConfigIds(m, w)
  BY IdForms
<1>3. ASSUME NEW p \in NodePairs(m, w) PROVE p \in other
  <2>1. CASE p = <<Locals, "ack">>
    BY <2>1
  <2>2. CASE p # <<Locals, "ack">>
    <3>1. p \in Pairs(m, w) /\ p[1][1] \notin {"net", "pipes", "preSyncs"}
      BY DEF NodePairs
    <3>2. PICK e \in ConfigIds(m, w) : \E h \in FieldsIn(e) : p = <<e, h>>
      BY <2>2, <3>1 DEF Pairs
    <3>3. p[1] = e
      BY <3>2
    <3>4. \/ e = Node
          \/ \E i \in DOMAIN NodeConfig(m, w).buffers : e = <<"buffers", 0, i>>
          \/ e[1] \in {"segments"} \cup OfSegment
      BY <3>1, <3>3, IdForms DEF OfSegment, Net
    <3>5. CASE e = Node
      BY <1>1, <3>2, <3>5
    <3>6. CASE e # Node
      <4>1. (e[1] = "buffers" /\ e[2] = 0) \/ e[1] \in {"segments"} \cup OfSegment
        BY <3>4, <3>6
      <4> QED
        BY <3>1, <3>3, <4>1
    <3> QED
      BY <3>5, <3>6
  <2> QED
    BY <2>1, <2>2
<1>4. ASSUME NEW p \in other PROVE p \in NodePairs(m, w)
  <2>1. CASE p = <<Locals, "ack">>
    BY <2>1 DEF NodePairs, Pairs, Locals
  <2>2. CASE p \in {<<Node, f>> : f \in StructFields.node}
    <3>1. p \in Pairs(m, w)
      BY <1>1, <1>2, <2>2 DEF Pairs
    <3>2. p[1] = Node
      BY <2>2
    <3> QED
      BY <1>1, <3>1, <3>2 DEF NodePairs
  <2>3. CASE p \in Pairs(m, w) /\ p[1][1] \in {"buffers", "segments"} \cup OfSegment
    BY <2>3 DEF NodePairs, OfSegment
  <2> QED
    BY <2>1, <2>2, <2>3
<1> HIDE DEF other
<1>5. NodePairs(m, w) = other
  BY <1>3, <1>4
<1>6. NetPairs(m, w) \cup NodePairs(m, w) = Pairs(m, w)
  BY DEF NetPairs, NodePairs, NetKinds
<1> QED
  BY <1>5, <1>6 DEF other

(* A worker reads the configuration of its node that the root wrote         *)
(* (nn-network.cpp:632-680, 718-773).                                       *)
LEMMA BuiltNode ==
  ASSUME NEW m, NEW w, Sound(m, w)
  PROVE  Built(m, w, NodeItems, writeNode(NodeConfig(m, w)), NodePairs(m, w), {})
<1> DEFINE here == NodeConfig(m, w)
           p(f) == <<Node, f>>
           x(of) == [do |-> "expand", of |-> of, id |-> Node]
           c(of) == Covers(m, w, x(of))
           ack == Read(<<"ack">>, Locals, "ack")
           a1 == ReadUInt(Node, "nodeIndex")
           a2 == ReadUInt(Node, "nBuffers")
           a3 == ReadUInt(Node, "nSegments")
           f0 == <<Ack>>
           f1 == << UInt(here.nodeIndex) >>
           f2 == << UInt(here.nBuffers) >>
           f3 == << UInt(here.nSegments) >>
           e1 == Each(here.buffers, BufferFields)
           e2 == Each(here.segments, SegmentFields)
           c0 == {<<Locals, "ack">>}
           c1 == {p("nodeIndex")}
           c2 == {p("nBuffers")}
           c3 == {p("nSegments")}
<1>1. NodeItems = ((((ack \o a1) \o a2) \o a3) \o Expand("buffers", Node)) \o Expand("segments", Node)
  BY DEF NodeItems
<1>2. /\ Built(m, w, ack, f0, c0, c0)
      /\ Built(m, w, a1, f1, c1, c1) /\ Built(m, w, a2, f2, c2, c2) /\ Built(m, w, a3, f3, c3, c3)
  <2>1. Node[1] # "locals" /\ Structure(m, w, Node) = here
    BY Structures DEF Node
  <2> HIDE DEF here
  <2> QED
    BY <2>1, BuiltAck, BuiltField
<1>3. Written(m, w, "buffers", Node) = e1 /\ Written(m, w, "segments", Node) = e2
  BY DEF Written
<1>4. <<"buffers", Node>> \in Expandable(m, w) /\ <<"segments", Node>> \in Expandable(m, w)
  BY DEF Expandable
<1>5. Needs(x("buffers")) = p("nBuffers") /\ Needs(x("segments")) = p("nSegments")
  BY DEF Needs, CountOf
<1>6. /\ c("buffers") = {q \in Pairs(m, w) : q[1][1] = "buffers" /\ q[1][2] = 0}
      /\ c("segments") = {q \in Pairs(m, w) : q[1][1] \in {"segments"} \cup OfSegment}
  <2> DEFINE y == x("buffers")
             z == x("segments")
  <2>1. y.do # "read" /\ y.of = "buffers" /\ y.id[3] = 0
    BY DEF Node
  <2>2. z.do # "read" /\ z.of = "segments"
    OBVIOUS
  <2> HIDE DEF y, z
  <2>3. Covers(m, w, y) = {q \in Pairs(m, w) : q[1][1] = "buffers" /\ q[1][2] = 0}
    BY <2>1 DEF Covers
  <2>4. Covers(m, w, z) = {q \in Pairs(m, w) : q[1][1] \in {"segments"} \cup OfSegment}
    BY <2>2 DEF Covers
  <2> QED
    BY <2>3, <2>4 DEF y, z
<1>7. NodePairs(m, w) = ((((c0 \cup c1) \cup c2) \cup c3) \cup c("buffers")) \cup c("segments")
  <2>1. {<<Node, f>> : f \in StructFields.node} = c1 \cup c2 \cup c3
    BY DEF StructFields
  <2> HIDE DEF c, c0, c1, c2, c3
  <2>2. NodePairs(m, w) = c0 \cup (c1 \cup c2 \cup c3) \cup c("buffers") \cup c("segments")
    BY <1>6, <2>1, NodePairsAre DEF c0
  <2> QED
    BY <2>2
<1>8. writeNode(here) = ((((f0 \o f1) \o f2) \o f3) \o e1) \o e2
  <2>1. << Ack, UInt(here.nodeIndex), UInt(here.nBuffers), UInt(here.nSegments) >> = ((f0 \o f1) \o f2) \o f3
    BY Split2, Split3, Split4
  <2>2. writeNode(here) =
          (<< Ack, UInt(here.nodeIndex), UInt(here.nBuffers), UInt(here.nSegments) >> \o e1) \o e2
    BY DEF writeNode
  <2> HIDE DEF f0, f1, f2, f3, e1, e2, here
  <2> QED
    BY <2>1, <2>2
<1> DEFINE b1 == ((ack \o a1) \o a2) \o a3
           g1 == ((f0 \o f1) \o f2) \o f3
           r1 == ((c0 \cup c1) \cup c2) \cup c3
<1>9. p("nBuffers") \in r1 /\ p("nSegments") \in r1
  OBVIOUS
<1> HIDE DEF ack, a1, a2, a3, f0, f1, f2, f3, c0, c1, c2, c3, e1, e2
<1>10. Built(m, w, b1, g1, r1, r1)
  <2>1. Built(m, w, ack \o a1, f0 \o f1, c0 \cup c1, c0 \cup c1)
    BY <1>2, BuiltCat
  <2>2. Built(m, w, (ack \o a1) \o a2, (f0 \o f1) \o f2, (c0 \cup c1) \cup c2, (c0 \cup c1) \cup c2)
    BY <1>2, <2>1, BuiltCat
  <2> QED
    BY <1>2, <2>2, BuiltCat
<1> DEFINE b2 == b1 \o Expand("buffers", Node)
           g2 == g1 \o e1
           k2 == r1 \cup c("buffers")
<1> HIDE DEF b1, g1, r1
<1>11. Built(m, w, b2, g2, k2, r1)
  <2>1. Built(m, w, b1 \o Expand("buffers", Node), g1 \o Written(m, w, "buffers", Node), r1 \cup c("buffers"), r1)
    BY <1>4, <1>5, <1>9, <1>10, BuiltExpand
  <2> HIDE DEF c
  <2> QED
    BY <1>3, <2>1
<1>12. Built(m, w, b2 \o Expand("segments", Node), g2 \o e2, k2 \cup c("segments"), r1)
  <2> HIDE DEF b2, g2, k2
  <2>1. Built(m, w, b2 \o Expand("segments", Node), g2 \o Written(m, w, "segments", Node), k2 \cup c("segments"), r1)
    BY <1>4, <1>5, <1>9, <1>11, BuiltExpand
  <2> HIDE DEF c
  <2> QED
    BY <1>3, <2>1
<1>13. Built(m, w, NodeItems, writeNode(here), NodePairs(m, w), r1)
  BY <1>1, <1>7, <1>8, <1>12 DEF b1, g1, r1
<1> HIDE DEF r1, here
<1>14. Built(m, w, NodeItems, writeNode(here), NodePairs(m, w), {})
  BY <1>13, BuiltLess
<1> QED
  BY <1>14 DEF here

(* Instructions that are all for one node.                                  *)
ForNode(s, v) == IsSeq(s) /\ \A x \in Elems(s) : x.node = v

(* Instructions of the root that concern one node.                           *)
LEMMA ForNodeLists ==
  /\ \A v, fields : IsSeq(fields) => ForNode(Write(v, fields), v)
  /\ \A v : ForNode(AwaitAck(v), v)
  /\ \A k : ForNode(LoadOwn(k), 0)
  /\ \A v, a, b : ForNode(a, v) /\ ForNode(b, v) => ForNode(a \o b, v)
<1>1. ASSUME NEW v, NEW fields, IsSeq(fields) PROVE ForNode(Write(v, fields), v)
  <2>1. IsSeq(Write(v, fields)) /\ Len(Write(v, fields)) = Len(fields) /\ DOMAIN fields = 1 .. Len(fields)
    BY <1>1, WriteCat, EmptyIsSeq, SeqShape
  <2>2. \A i \in 1 .. Len(fields) : Write(v, fields)[i].node = v
    BY <2>1 DEF Write
  <2> QED
    BY <2>1, <2>2 DEF ForNode, Elems
<1>2. \A v : ForNode(AwaitAck(v), v)
  BY OneIsSeq, ElemsOfOne DEF ForNode, AwaitAck
<1>3. \A k : ForNode(LoadOwn(k), 0)
  BY OneIsSeq, ElemsOfOne DEF ForNode, LoadOwn
<1>4. \A v, a, b : ForNode(a, v) /\ ForNode(b, v) => ForNode(a \o b, v)
  BY Cat, CatElems DEF ForNode
<1> QED
  BY <1>1, <1>2, <1>3, <1>4

(* Of a table of instructions for nodes, a node has the entry for it.       *)
LEMMA PartOfTable ==
  ASSUME NEW n \in Nat, NEW f, f = [v \in 1 .. n |-> f[v]], \A v \in 1 .. n : ForNode(f[v], v)
  PROVE  /\ IsSeq(FlattenSeq(f))
         /\ \A w \in 1 .. n : PartOf(w, FlattenSeq(f)) = f[w]
         /\ PartOf(0, FlattenSeq(f)) = <<>>
<1>1. AreSeqs(f) /\ Len(f) = n
  BY TableIsSeq DEF ForNode
<1>2. IsSeq(FlattenSeq(f))
  BY <1>1, FlatIsSeq
<1> DEFINE part(w) == [i \in 1 .. n |-> PartOf(w, f[i])]
<1>3. ASSUME NEW w PROVE PartOf(w, FlattenSeq(f)) = FlattenSeq(part(w)) /\ AreSeqs(part(w)) /\ Len(part(w)) = n
  <2>1. PartOf(w, FlattenSeq(f)) = FlattenSeq(part(w)) /\ AreSeqs(part(w))
    BY <1>1, PartFlat
  <2>2. part(w) = [i \in 1 .. n |-> part(w)[i]]
    OBVIOUS
  <2> DEFINE p == part(w)
  <2>3. p = [i \in 1 .. n |-> p[i]]
    BY <2>2
  <2> HIDE DEF p
  <2>4. Len(p) = n
    BY <2>3, SeqOfFcn
  <2> QED
    BY <2>1, <2>4 DEF p
<1>4. \A w : \A i \in 1 .. n : part(w)[i] = IF i = w THEN f[i] ELSE <<>>
  BY PartOfUniform DEF ForNode
<1> HIDE DEF part
<1>5. ASSUME NEW w \in 1 .. n PROVE PartOf(w, FlattenSeq(f)) = f[w]
  <2>1. FlattenSeq(part(w)) = part(w)[w]
    BY <1>3, <1>4, FlatOnly
  <2> QED
    BY <1>3, <1>4, <2>1
<1>6. PartOf(0, FlattenSeq(f)) = <<>>
  <2>1. \A i \in 1 .. n : part(0)[i] = <<>>
    <3>1. \A i \in 1 .. n : i # 0
      OBVIOUS
    <3> QED
      BY <1>4, <3>1
  <2> QED
    BY <1>3, <2>1, FlatNone
<1> QED
  BY <1>2, <1>5, <1>6

(* The fields of a weight are a list.                                       *)
LEMMA FieldsAreLists ==
  ASSUME NEW m
  PROVE  /\ \A str : IsSeq(String(str))
         /\ \A w, k : IsSeq(WeightFields(m, w, k)) /\ Len(WeightFields(m, w, k)) = 5
         /\ \A w, k : writeWeight(m, k, w) = Write(w, WeightFields(m, w, k))
         /\ \A w : /\ Sound(m, w) => IsSeq(writeNet(NetConfig(m))) /\ IsSeq(writeNode(NodeConfig(m, w)))
<1>1. \A str : IsSeq(String(str)) /\ Len(String(str)) = 2
  BY List2 DEF String
<1>2. ASSUME NEW w, NEW k PROVE IsSeq(WeightFields(m, w, k)) /\ Len(WeightFields(m, w, k)) = 5
  <2> DEFINE weight == Weights(m)[k]
             n == Cells(weight.slice.sliceSize)
             a == String(weight.name)
             b == << UInt(weight.index), Field(<<"nnsize">>, n), Bytes(n, WeightPart(k, w)) >>
  <2>1. WeightFields(m, w, k) = a \o b
    BY DEF WeightFields
  <2>2. IsSeq(a) /\ Len(a) = 2 /\ IsSeq(b) /\ Len(b) = 3
    BY <1>1, List3
  <2> HIDE DEF a, b
  <2>3. IsSeq(a \o b) /\ Len(a \o b) = Len(a) + Len(b)
    BY <2>2, Cat
  <2> QED
    BY <2>1, <2>2, <2>3
<1>3. \A w, k : writeWeight(m, k, w) = Write(w, WeightFields(m, w, k))
  BY DEF writeWeight, WeightFields
<1>4. \A w : Sound(m, w) => IsSeq(writeNet(NetConfig(m))) /\ IsSeq(writeNode(NodeConfig(m, w)))
  BY BuiltNet, BuiltNode DEF Built
<1> QED
  BY <1>1, <1>2, <1>3, <1>4

(* Weight by weight.                                                        *)
LEMMA AfterStep ==
  ASSUME NEW m, m.nLayers \in Nat, NEW w
  PROVE  /\ \A k \in 1 .. Len(Weights(m)) : IsSeq(After(m, w, k))
         /\ \A k \in 1 .. (Len(Weights(m)) - 1) :
              After(m, w, k) = Write(w, WeightFields(m, w, k + 1)) \o After(m, w, k + 1)
         /\ After(m, w, Len(Weights(m))) = Write(w, << UInt(0) >>) \o AwaitAck(w)
<1> DEFINE L == Len(Weights(m))
           end == Write(w, << UInt(0) >>) \o AwaitAck(w)
           g(k) == [j \in 1 .. (L - k) |-> Write(w, WeightFields(m, w, k + j))]
<1>1. L \in Nat \ {0, 1}
  BY WeightsShape
<1>2. IsSeq(end)
  <2>1. IsSeq(Write(w, << UInt(0) >>)) /\ IsSeq(AwaitAck(w))
    BY OneIsSeq, WriteCat DEF AwaitAck
  <2> QED
    BY <2>1, CatSeq
<1>3. \A k : IsSeq(Write(w, WeightFields(m, w, k)))
  BY FieldsAreLists, WriteCat
<1>4. \A k : After(m, w, k) = FlattenSeq(g(k)) \o end
  BY DEF After
<1> HIDE DEF L, end
<1>5. ASSUME NEW k \in 1 .. L PROVE AreSeqs(g(k)) /\ IsSeq(FlattenSeq(g(k)))
  <2> DEFINE t == g(k)
  <2>1. t = [j \in 1 .. (L - k) |-> t[j]] /\ (\A j \in 1 .. (L - k) : IsSeq(t[j])) /\ L - k \in Nat
    BY <1>1, <1>3
  <2> HIDE DEF t
  <2>2. AreSeqs(t)
    BY <2>1, TableIsSeq
  <2>3. IsSeq(FlattenSeq(t))
    BY <2>2, FlatIsSeq
  <2> QED
    BY <2>2, <2>3 DEF t
<1>6. \A k \in 1 .. L : IsSeq(After(m, w, k))
  <2> HIDE DEF g
  <2> QED
    BY <1>2, <1>4, <1>5, CatSeq
<1>7. ASSUME NEW k \in 1 .. (L - 1)
      PROVE  After(m, w, k) = Write(w, WeightFields(m, w, k + 1)) \o After(m, w, k + 1)
  <2> DEFINE n == L - k
             h == [j \in 1 .. n |-> Write(w, WeightFields(m, w, k + j))]
             one == Write(w, WeightFields(m, w, k + 1))
  <2>1. n \in Nat \ {0} /\ k + 1 \in 1 .. L /\ L - (k + 1) = n - 1
    BY <1>1
  <2>2. h[1] = one /\ (\A j \in 1 .. n : IsSeq(h[j])) /\ h = [j \in 1 .. n |-> h[j]]
    BY <1>3, <2>1
  <2>3. [j \in 1 .. (n - 1) |-> h[j + 1]] = g(k + 1)
    <3>1. \A j \in 1 .. (n - 1) : h[j + 1] = Write(w, WeightFields(m, w, (k + 1) + j))
      <4> SUFFICES ASSUME NEW j \in 1 .. (n - 1) 
                   PROVE h[j + 1] = Write(w, WeightFields(m, w, (k + 1) + j))
        OBVIOUS
      <4>1. j + 1 \in 1 .. n /\ k + (j + 1) = (k + 1) + j
        BY <2>1
      <4> QED
        BY <4>1
    <3>2. [j \in 1 .. (n - 1) |-> h[j + 1]] = [j \in 1 .. (n - 1) |-> Write(w, WeightFields(m, w, (k + 1) + j))]
      BY <3>1
    <3> QED
      BY <2>1, <3>2
  <2>4. g(k) = h
    OBVIOUS
  <2> HIDE DEF h, g, n
  <2>5. FlattenSeq([j \in 1 .. n |-> h[j]]) = h[1] \o FlattenSeq([j \in 1 .. (n - 1) |-> h[j + 1]])
    BY <2>1, <2>2, FlatShift
  <2>6. FlattenSeq(g(k)) = one \o FlattenSeq(g(k + 1))
    BY <2>2, <2>3, <2>4, <2>5
  <2>7. IsSeq(one) /\ IsSeq(FlattenSeq(g(k + 1)))
    BY <1>3, <1>5, <2>1
  <2> HIDE DEF one
  <2>8. (one \o FlattenSeq(g(k + 1))) \o end = one \o (FlattenSeq(g(k + 1)) \o end)
    BY <1>2, <2>7, CatAssoc
  <2> QED
    BY <1>4, <2>6, <2>8 DEF one
<1>8. After(m, w, L) = end
  <2>1. g(L) = <<>>
    <3>1. 1 .. (L - L) = {}
      BY <1>1
    <3> DEFINE t == g(L)
    <3>2. t = [j \in 1 .. 0 |-> t[j]]
      BY <1>1, <3>1
    <3> HIDE DEF t
    <3>3. IsSeq(t) /\ Len(t) = 0
      BY <3>2, SeqOfFcn
    <3> QED
      BY <3>3, SeqShape DEF t
  <2> HIDE DEF g
  <2> QED
    BY <1>2, <1>4, <2>1, FlatEmpty, CatEmpty
<1> QED
  BY <1>6, <1>7, <1>8 DEF L, end

(* What the root still loads for itself, weight by weight.                   *)
LEMMA OwnStep ==
  ASSUME NEW m, m.nLayers \in Nat
  PROVE  /\ \A k \in 0 .. Len(Weights(m)) : IsSeq(OwnAfter(m, k))
         /\ \A k \in 0 .. (Len(Weights(m)) - 1) : OwnAfter(m, k) = LoadOwn(k + 1) \o OwnAfter(m, k + 1)
         /\ OwnAfter(m, Len(Weights(m))) = <<>>
<1> DEFINE L == Len(Weights(m))
           g(k) == [j \in 1 .. (L - k) |-> LoadOwn(k + j)]
<1>1. L \in Nat \ {0, 1}
  BY WeightsShape
<1>2. \A k : IsSeq(LoadOwn(k))
  BY OneIsSeq DEF LoadOwn
<1>3. \A k : OwnAfter(m, k) = FlattenSeq(g(k))
  BY DEF OwnAfter
<1> HIDE DEF L
<1>4. ASSUME NEW k \in 0 .. L PROVE IsSeq(FlattenSeq(g(k)))
  <2> DEFINE t == g(k)
  <2>1. t = [j \in 1 .. (L - k) |-> t[j]] /\ (\A j \in 1 .. (L - k) : IsSeq(t[j])) /\ L - k \in Nat
    BY <1>1, <1>2
  <2> HIDE DEF t
  <2>2. AreSeqs(t)
    BY <2>1, TableIsSeq
  <2>3. IsSeq(FlattenSeq(t))
    BY <2>2, FlatIsSeq
  <2> QED
    BY <2>3 DEF t
<1>5. ASSUME NEW k \in 0 .. (L - 1) PROVE OwnAfter(m, k) = LoadOwn(k + 1) \o OwnAfter(m, k + 1)
  <2> DEFINE n == L - k
             h == [j \in 1 .. n |-> LoadOwn(k + j)]
  <2>1. n \in Nat \ {0} /\ k + 1 \in 1 .. L /\ L - (k + 1) = n - 1
    BY <1>1
  <2>2. h[1] = LoadOwn(k + 1) /\ (\A j \in 1 .. n : IsSeq(h[j])) /\ h = [j \in 1 .. n |-> h[j]]
    BY <1>2, <2>1
  <2>3. [j \in 1 .. (n - 1) |-> h[j + 1]] = g(k + 1)
    <3>1. \A j \in 1 .. (n - 1) : h[j + 1] = LoadOwn((k + 1) + j)
      <4> SUFFICES ASSUME NEW j \in 1 .. (n - 1) PROVE h[j + 1] = LoadOwn((k + 1) + j)
        OBVIOUS
      <4>1. j + 1 \in 1 .. n /\ k + (j + 1) = (k + 1) + j
        BY <2>1
      <4> QED
        BY <4>1
    <3>2. [j \in 1 .. (n - 1) |-> h[j + 1]] = [j \in 1 .. (n - 1) |-> LoadOwn((k + 1) + j)]
      BY <3>1
    <3> QED
      BY <2>1, <3>2
  <2>4. g(k) = h
    OBVIOUS
  <2> HIDE DEF h, g, n
  <2>5. FlattenSeq([j \in 1 .. n |-> h[j]]) = h[1] \o FlattenSeq([j \in 1 .. (n - 1) |-> h[j + 1]])
    BY <2>1, <2>2, FlatShift
  <2> QED
    BY <1>3, <2>2, <2>3, <2>4, <2>5
<1>6. OwnAfter(m, L) = <<>>
  <2> DEFINE t == g(L)
  <2>1. t = [j \in 1 .. 0 |-> t[j]]
    BY <1>1
  <2> HIDE DEF t
  <2>2. IsSeq(t) /\ Len(t) = 0
    BY <2>1, SeqOfFcn
  <2>3. t = <<>>
    BY <2>2, SeqShape
  <2>4. OwnAfter(m, L) = FlattenSeq(t)
    BY <1>3 DEF t
  <2> QED
    BY <2>3, <2>4, FlatEmpty
<1>7. \A k \in 0 .. L : IsSeq(OwnAfter(m, k))
  BY <1>3, <1>4
<1> QED
  BY <1>5, <1>6, <1>7 DEF L

(* Configurations: the part of one worker (nn-network.cpp:682-688).          *)
Handshake1(m, w) ==
  Write(w, writeNet(NetConfig(m))) \o AwaitAck(w) \o Write(w, writeNode(NodeConfig(m, w))) \o AwaitAck(w)

(* What the root does with one node while it hands out configurations.       *)
LEMMA ConfigPart ==
  ASSUME NEW m, m.nNodes \in Nat \ {0}, \A w : Sound(m, w)
  PROVE  /\ IsSeq(writeToWorkers(m)) /\ PartOf(0, writeToWorkers(m)) = <<>>
         /\ \A w \in 1 .. (m.nNodes - 1) : PartOf(w, writeToWorkers(m)) = Handshake1(m, w)
<1> DEFINE n == m.nNodes - 1
           f == [w \in 1 .. n |-> Handshake1(m, w)]
<1>1. writeToWorkers(m) = FlattenSeq(f)
  BY DEF writeToWorkers, Handshake1
<1>2. ASSUME NEW w PROVE ForNode(Handshake1(m, w), w)
  <2>1. IsSeq(writeNet(NetConfig(m))) /\ IsSeq(writeNode(NodeConfig(m, w)))
    BY FieldsAreLists
  <2> DEFINE a == Write(w, writeNet(NetConfig(m)))
             b == Write(w, writeNode(NodeConfig(m, w)))
             c == AwaitAck(w)
  <2>2. ForNode(a, w) /\ ForNode(b, w) /\ ForNode(c, w)
    BY <2>1, ForNodeLists
  <2>3. Handshake1(m, w) = ((a \o c) \o b) \o c
    BY DEF Handshake1
  <2> HIDE DEF a, b, c
  <2>4. ForNode(a \o c, w)
    BY <2>2, ForNodeLists
  <2>5. ForNode((a \o c) \o b, w)
    BY <2>2, <2>4, ForNodeLists
  <2> QED
    BY <2>2, <2>3, <2>5, ForNodeLists
<1>3. n \in Nat /\ f = [w \in 1 .. n |-> f[w]] /\ \A w \in 1 .. n : ForNode(f[w], w) /\ f[w] = Handshake1(m, w)
  BY <1>2
<1> HIDE DEF f, n
<1>4. /\ IsSeq(FlattenSeq(f)) /\ PartOf(0, FlattenSeq(f)) = <<>>
      /\ \A w \in 1 .. n : PartOf(w, FlattenSeq(f)) = f[w]
  BY <1>3, PartOfTable
<1> QED
  BY <1>1, <1>3, <1>4 DEF n

(* Weight k: what a worker is sent, and what the root keeps                 *)
(* (nn-network.cpp:820-863).                                                *)
Sent(m, w, k) ==
  IF Weights(m)[k].slice.how = "root" THEN <<>> ELSE Write(w, WeightFields(m, w, k))

(* What the root does with one node for one weight.                          *)
LEMMA WeightPartOf ==
  ASSUME NEW m, m.nNodes \in Nat \ {0}, NEW k
  PROVE  /\ IsSeq(HandOut(m, k)) /\ PartOf(0, HandOut(m, k)) = LoadOwn(k)
         /\ \A w \in 1 .. (m.nNodes - 1) : PartOf(w, HandOut(m, k)) = Sent(m, w, k)
<1> DEFINE n == m.nNodes - 1
           f == [w \in 1 .. n |-> writeWeight(m, k, w)]
           own == LoadOwn(k)
           isRoot == Weights(m)[k].slice.how = "root"
           rest == IF isRoot THEN <<>> ELSE FlattenSeq(f)
<1>1. HandOut(m, k) = own \o rest
  BY DEF HandOut
<1>2. \A w \in 1 .. n : ForNode(f[w], w) /\ f[w] = Write(w, WeightFields(m, w, k))
  <2>1. \A w : IsSeq(WeightFields(m, w, k)) /\ writeWeight(m, k, w) = Write(w, WeightFields(m, w, k))
    BY FieldsAreLists
  <2>2. \A w : ForNode(Write(w, WeightFields(m, w, k)), w)
    BY <2>1, ForNodeLists
  <2> QED
    BY <2>1, <2>2
<1>3. n \in Nat /\ f = [w \in 1 .. n |-> f[w]]
  OBVIOUS
<1> HIDE DEF f, n, isRoot
<1>4. /\ IsSeq(FlattenSeq(f)) /\ PartOf(0, FlattenSeq(f)) = <<>>
      /\ \A w \in 1 .. n : PartOf(w, FlattenSeq(f)) = f[w]
  BY <1>2, <1>3, PartOfTable
<1>5. \A w : PartOf(w, <<>>) = <<>>
  BY PartCat, EmptyIsSeq
<1>6. /\ IsSeq(rest) /\ PartOf(0, rest) = <<>>
      /\ \A w \in 1 .. n : PartOf(w, rest) = IF isRoot THEN <<>> ELSE Write(w, WeightFields(m, w, k))
  BY <1>2, <1>4, <1>5, EmptyIsSeq
<1>7. ForNode(own, 0)
  BY ForNodeLists
<1> HIDE DEF rest, own
<1>8. IsSeq(own) /\ \A w : PartOf(w, own) = IF 0 = w THEN own ELSE <<>>
  BY <1>7, PartOfUniform DEF ForNode
<1>9. IsSeq(own \o rest) /\ \A w : PartOf(w, own \o rest) = PartOf(w, own) \o PartOf(w, rest)
  BY <1>6, <1>8, PartCat, CatSeq
<1>10. PartOf(0, own \o rest) = own
  BY <1>6, <1>8, <1>9, CatEmpty
<1>11. ASSUME NEW w \in 1 .. n PROVE PartOf(w, own \o rest) = PartOf(w, rest)
  <2>1. 0 # w
    BY <1>3
  <2>2. PartOf(w, own) = <<>> /\ IsSeq(PartOf(w, rest))
    BY <1>6, <1>8, <2>1, PartCat
  <2> QED
    BY <1>9, <2>2, CatEmpty
<1>12. \A w \in 1 .. n : PartOf(w, own \o rest) = Sent(m, w, k)
  BY <1>6, <1>11 DEF Sent, isRoot
<1> QED
  BY <1>1, <1>9, <1>10, <1>12 DEF own, n

(* The end (nn-network.cpp:787-792).                                        *)
LEMMA EndPart ==
  ASSUME NEW m, m.nNodes \in Nat \ {0}
  PROVE  /\ IsSeq(finish(m)) /\ PartOf(0, finish(m)) = <<>>
         /\ \A w \in 1 .. (m.nNodes - 1) : PartOf(w, finish(m)) = Write(w, << UInt(0) >>) \o AwaitAck(w)
<1> DEFINE n == m.nNodes - 1
           f == [w \in 1 .. n |-> Write(w, << UInt(0) >>) \o AwaitAck(w)]
<1>1. finish(m) = FlattenSeq(f)
  BY DEF finish
<1>2. \A w \in 1 .. n : ForNode(f[w], w) /\ f[w] = Write(w, << UInt(0) >>) \o AwaitAck(w)
  BY OneIsSeq, ForNodeLists
<1>3. n \in Nat /\ f = [w \in 1 .. n |-> f[w]]
  OBVIOUS
<1> HIDE DEF f, n
<1>4. /\ IsSeq(FlattenSeq(f)) /\ PartOf(0, FlattenSeq(f)) = <<>>
      /\ \A w \in 1 .. n : PartOf(w, FlattenSeq(f)) = f[w]
  BY <1>2, <1>3, PartOfTable
<1> QED
  BY <1>1, <1>2, <1>4 DEF n

(* A concatenation of six lists, from the left or from the right.           *)
Regroups(a, b, c, d, e, f) ==
  ((((a \o b) \o c) \o d) \o e) \o f = a \o (b \o (c \o (d \o (e \o f))))

(* Parentheses of concatenations can be moved.                               *)
LEMMA Regroup ==
  ASSUME NEW a, NEW b, NEW c, NEW d, NEW e, NEW f,
         IsSeq(a), IsSeq(b), IsSeq(c), IsSeq(d), IsSeq(e), IsSeq(f)
  PROVE  Regroups(a, b, c, d, e, f)
<1> DEFINE ab == a \o b
           abc == ab \o c
           abcd == abc \o d
           ef == e \o f
           d2 == d \o ef
           c2 == c \o d2
<1>1. IsSeq(ab) /\ IsSeq(ef)
  BY CatSeq
<1>2. IsSeq(abc) /\ IsSeq(d2)
  <2> HIDE DEF ab, ef
  <2> QED
    BY <1>1, CatSeq
<1>3. IsSeq(abcd) /\ IsSeq(c2)
  <2> HIDE DEF abc, d2
  <2> QED
    BY <1>2, CatSeq
<1> HIDE DEF ab, abc, abcd, ef, d2, c2
<1>4. /\ Associates(abcd, e, f) /\ Associates(abc, d, ef) /\ Associates(ab, c, d2) /\ Associates(a, b, c2)
  BY <1>1, <1>2, <1>3, CatAssociates
<1>5. (abcd \o e) \o f = abcd \o ef
  BY <1>4 DEF Associates, ef
<1>6. abcd \o ef = abc \o d2
  BY <1>4 DEF Associates, abcd, d2
<1>7. abc \o d2 = ab \o c2
  BY <1>4 DEF Associates, abc, c2
<1>8. ab \o c2 = a \o (b \o c2)
  BY <1>4 DEF Associates, ab
<1>9. (abcd \o e) \o f = a \o (b \o c2)
  BY <1>5, <1>6, <1>7, <1>8
<1> QED
  BY <1>9 DEF abcd, abc, ab, c2, d2, ef, Regroups

(* What the root's program is for each node.                                *)
LEMMA ProgramParts ==
  ASSUME NEW m, m.nNodes \in Nat \ {0}, m.nLayers \in Nat, \A w : Sound(m, w)
  PROVE  /\ IsSeq(Program(m)) /\ PartOf(0, Program(m)) = OwnAfter(m, 0)
         /\ \A w \in 1 .. (m.nNodes - 1) :
              PartOf(w, Program(m)) = Write(w, writeNet(NetConfig(m))) \o (AwaitAck(w) \o NetMore(m, w))
<1> DEFINE L == Len(Weights(m))
           n == m.nNodes - 1
           out == [k \in 1 .. L |-> HandOut(m, k)]
           a == writeToWorkers(m)
           b == FlattenSeq(out)
           c == finish(m)
<1>1. L \in Nat \ {0, 1} /\ DOMAIN Weights(m) = 1 .. L
  BY WeightsShape, SeqShape
<1>2. Program(m) = (a \o b) \o c
  BY <1>1 DEF Program
<1>3. AreSeqs(out) /\ Len(out) = L
  <2>1. out = [k \in 1 .. L |-> out[k]] /\ \A k \in 1 .. L : IsSeq(out[k])
    BY WeightPartOf
  <2> HIDE DEF out
  <2> QED
    BY <1>1, <2>1, TableIsSeq
<1>4. \A k \in 1 .. L : out[k] = HandOut(m, k)
  OBVIOUS
<1> HIDE DEF out, a, c, L, n
<1>5. IsSeq(b) /\ \A w : PartOf(w, b) = FlattenSeq([k \in 1 .. L |-> PartOf(w, HandOut(m, k))])
  <2>1. IsSeq(b)
    BY <1>3, FlatIsSeq
  <2>2. ASSUME NEW w PROVE PartOf(w, b) = FlattenSeq([k \in 1 .. L |-> PartOf(w, HandOut(m, k))])
    <3>1. PartOf(w, b) = FlattenSeq([k \in 1 .. L |-> PartOf(w, out[k])])
      BY <1>3, PartFlat
    <3>2. [k \in 1 .. L |-> PartOf(w, out[k])] = [k \in 1 .. L |-> PartOf(w, HandOut(m, k))]
      BY <1>4
    <3> QED
      BY <3>1, <3>2
  <2> QED
    BY <2>1, <2>2
<1> HIDE DEF b
<1>6. IsSeq(a) /\ IsSeq(c)
  BY ConfigPart, EndPart DEF a, c
<1>7. IsSeq(a \o b) /\ IsSeq(Program(m))
  BY <1>2, <1>5, <1>6, CatSeq
<1>8. ASSUME NEW w PROVE PartOf(w, Program(m)) = (PartOf(w, a) \o PartOf(w, b)) \o PartOf(w, c)
  <2>1. PartOf(w, a \o b) = PartOf(w, a) \o PartOf(w, b)
    BY <1>5, <1>6, PartCat
  <2> DEFINE ab == a \o b
  <2>2. IsSeq(ab) /\ Program(m) = ab \o c
    BY <1>2, <1>7
  <2> HIDE DEF ab
  <2>3. PartOf(w, ab \o c) = PartOf(w, ab) \o PartOf(w, c)
    BY <1>6, <2>2, PartCat
  <2> QED
    BY <2>1, <2>2, <2>3 DEF ab
<1>9. PartOf(0, Program(m)) = OwnAfter(m, 0)
  <2>1. PartOf(0, a) = <<>> /\ PartOf(0, c) = <<>>
    BY ConfigPart, EndPart DEF a, c
  <2>2. [k \in 1 .. L |-> PartOf(0, HandOut(m, k))] = [k \in 1 .. (L - 0) |-> LoadOwn(0 + k)]
    <3>1. \A k \in 1 .. L : PartOf(0, HandOut(m, k)) = LoadOwn(k) /\ 0 + k = k
      BY WeightPartOf
    <3> QED
      BY <1>1, <3>1
  <2>3. PartOf(0, b) = OwnAfter(m, 0) /\ IsSeq(PartOf(0, b))
    <3>1. PartOf(0, b) = FlattenSeq([k \in 1 .. (L - 0) |-> LoadOwn(0 + k)])
      BY <1>5, <2>2
    <3> QED
      BY <1>5, <3>1, PartCat, EmptyIsSeq DEF OwnAfter, L
  <2> HIDE DEF OwnAfter
  <2> QED
    BY <1>8, <2>1, <2>3, CatEmpty
<1>10. ASSUME NEW w \in 1 .. n
       PROVE  PartOf(w, Program(m)) = Write(w, writeNet(NetConfig(m))) \o (AwaitAck(w) \o NetMore(m, w))
  <2> DEFINE end == Write(w, << UInt(0) >>) \o AwaitAck(w)
             sent == [k \in 1 .. L |-> Sent(m, w, k)]
             more == [k \in 1 .. (L - 1) |-> Write(w, WeightFields(m, w, 1 + k))]
             x == Write(w, writeNet(NetConfig(m)))
             y == Write(w, writeNode(NodeConfig(m, w)))
             z == AwaitAck(w)
             v == FlattenSeq(more)
  <2>1. PartOf(w, a) = ((x \o z) \o y) \o z /\ PartOf(w, c) = end
    BY ConfigPart, EndPart DEF a, c, n, Handshake1
  <2>2. [k \in 1 .. L |-> PartOf(w, HandOut(m, k))] = sent
    <3>1. \A k \in 1 .. L : PartOf(w, HandOut(m, k)) = Sent(m, w, k)
      BY WeightPartOf DEF n
    <3> QED
      BY <3>1
  <2>3. \A k \in 1 .. L : IsSeq(sent[k])
    <3>1. \A k : IsSeq(Sent(m, w, k))
      BY FieldsAreLists, WriteCat, EmptyIsSeq DEF Sent
    <3> QED
      BY <3>1
  <2>4. sent[1] = <<>>
    <3>1. Weights(m)[1].slice.how = "root" /\ 1 \in 1 .. L
      BY <1>1, WeightsShape
    <3> QED
      BY <3>1 DEF Sent
  <2>5. [k \in 1 .. (L - 1) |-> sent[k + 1]] = more
    <3>1. ASSUME NEW k \in 1 .. (L - 1) PROVE sent[k + 1] = Write(w, WeightFields(m, w, 1 + k))
      <4>1. k + 1 \in 2 .. L /\ k + 1 \in 1 .. L /\ k + 1 = 1 + k
        BY <1>1
      <4>2. Weights(m)[k + 1].slice.how # "root"
        BY <4>1, WeightsShape DEF L
      <4>3. sent[k + 1] = Sent(m, w, k + 1)
        BY <4>1
      <4> HIDE DEF sent
      <4> QED
        BY <4>1, <4>2, <4>3 DEF Sent
    <3> QED
      BY <3>1
  <2>6. sent = [k \in 1 .. L |-> sent[k]]
    OBVIOUS
  <2>7. AreSeqs(more) /\ IsSeq(v)
    <3>0. \A k : IsSeq(Write(w, WeightFields(m, w, k)))
      BY FieldsAreLists, WriteCat
    <3>1. more = [k \in 1 .. (L - 1) |-> more[k]] /\ (\A k \in 1 .. (L - 1) : IsSeq(more[k])) /\ L - 1 \in Nat
      BY <1>1, <3>0
    <3> HIDE DEF more
    <3> QED
      BY <3>1, TableIsSeq, FlatIsSeq
  <2>8. After(m, w, 1) = v \o end
    BY DEF After, L
  <2> HIDE DEF sent, more
  <2>9. FlattenSeq(sent) = v
    <3>1. FlattenSeq([k \in 1 .. L |-> sent[k]])
            = sent[1] \o FlattenSeq([k \in 1 .. (L - 1) |-> sent[k + 1]])
      BY <1>1, <2>3, FlatShift
    <3> QED
      BY <2>4, <2>5, <2>6, <2>7, <3>1, CatEmpty
  <2>10. PartOf(w, b) = v
    BY <1>5, <2>2, <2>9
  <2>11. IsSeq(x) /\ IsSeq(y) /\ IsSeq(z) /\ IsSeq(end)
    <3>1. IsSeq(writeNet(NetConfig(m))) /\ IsSeq(writeNode(NodeConfig(m, w)))
      BY FieldsAreLists
    <3>2. IsSeq(x) /\ IsSeq(y) /\ IsSeq(z) /\ IsSeq(Write(w, << UInt(0) >>))
      BY <3>1, WriteCat, OneIsSeq DEF AwaitAck
    <3> QED
      BY <3>2, CatSeq
  <2>12. NetMore(m, w) = y \o (z \o (v \o end))
    BY <2>8 DEF NetMore
  <2> HIDE DEF x, y, z, v, end
  <2>13. PartOf(w, Program(m)) = ((((x \o z) \o y) \o z) \o v) \o end
    BY <1>8, <2>1, <2>10
  <2>14. Regroups(x, z, y, z, v, end)
    BY <2>7, <2>11, Regroup
  <2> QED
    BY <2>12, <2>13, <2>14 DEF x, z, Regroups
<1> QED
  BY <1>7, <1>9, <1>10 DEF n

-----------------------------------------------------------------------------
(* What a worker has read                                                   *)

(* put is g with another field                                              *)
HasPut(g, put, id, f, v) ==
  /\ Known(put) = Known(g) \cup {<<id, f>>}
  /\ put[id][f] = v
  /\ \A p \in Known(g) : p # <<id, f>> => put[p[1]][p[2]] = g[p[1]][p[2]]
  /\ (\A j \in DOMAIN g : DOMAIN g[j] # {}) => \A j \in DOMAIN put : DOMAIN put[j] # {}
  /\ DOMAIN put = DOMAIN g \cup {id}
  /\ f \in DOMAIN put[id]
  /\ id \in DOMAIN g => \A h \in DOMAIN g[id] : h \in DOMAIN put[id] /\ (h # f => put[id][h] = g[id][h])

(* A field that is read is known, and no other field is disturbed           *)
(* (nn-network.cpp:696-773).                                                *)
LEMMA PutKnown ==
  ASSUME NEW g, NEW id, NEW f, NEW v
  PROVE  HasPut(g, Put(g, id, f, v), id, f, v)
<1> DEFINE before == IF id \in DOMAIN g THEN g[id] ELSE <<>>
           entry == With(before, f, v)
           put == Put(g, id, f, v)
<1>1. entry = [h \in DOMAIN before \cup {f} |-> IF h = f THEN v ELSE before[h]]
  BY DEF With
<1>2. put = [j \in DOMAIN g \cup {id} |-> IF j = id THEN entry ELSE g[j]]
  BY DEF Put, With
<1>3. id \notin DOMAIN g => DOMAIN before = {}
  OBVIOUS
<1>4. id \in DOMAIN g => before = g[id]
  OBVIOUS
<1> HIDE DEF before, entry, put
<1>5. /\ DOMAIN put = DOMAIN g \cup {id} /\ put[id] = entry
      /\ \A j \in DOMAIN g : j # id => put[j] = g[j]
  BY <1>2
<1>6. /\ DOMAIN entry = DOMAIN before \cup {f} /\ entry[f] = v
      /\ \A h \in DOMAIN before : h # f => entry[h] = before[h]
  BY <1>1
<1>7. Known(put) = Known(g) \cup {<<id, f>>}
  <2>1. ASSUME NEW p \in Known(put) PROVE p \in Known(g) \cup {<<id, f>>}
    <3>1. PICK j \in DOMAIN put : \E h \in DOMAIN put[j] : p = <<j, h>>
      BY DEF Known
    <3>2. PICK h \in DOMAIN put[j] : p = <<j, h>>
      BY <3>1
    <3>3. CASE j = id
      <4>1. h = f \/ h \in DOMAIN before
        BY <1>5, <1>6, <3>2, <3>3
      <4>2. CASE h # f
        <5>1. id \in DOMAIN g /\ h \in DOMAIN g[id]
          BY <1>3, <1>4, <4>1, <4>2
        <5> QED
          BY <3>2, <3>3, <5>1 DEF Known
      <4> QED
        BY <3>2, <3>3, <4>2
    <3>4. CASE j # id
      <4>1. j \in DOMAIN g /\ h \in DOMAIN g[j]
        BY <1>5, <3>1, <3>2, <3>4
      <4> QED
        BY <3>2, <4>1 DEF Known
    <3> QED
      BY <3>3, <3>4
  <2>2. ASSUME NEW p \in Known(g) PROVE p \in Known(put)
    <3>1. PICK j \in DOMAIN g : \E h \in DOMAIN g[j] : p = <<j, h>>
      BY DEF Known
    <3>2. PICK h \in DOMAIN g[j] : p = <<j, h>>
      BY <3>1
    <3>3. j \in DOMAIN put /\ h \in DOMAIN put[j]
      BY <1>4, <1>5, <1>6
    <3> QED
      BY <3>2, <3>3 DEF Known
  <2>3. <<id, f>> \in Known(put)
    BY <1>5, <1>6 DEF Known
  <2> QED
    BY <2>1, <2>2, <2>3
<1>8. ASSUME NEW p \in Known(g), p # <<id, f>>
      PROVE  put[p[1]][p[2]] = g[p[1]][p[2]]
  <2>1. PICK j \in DOMAIN g : \E h \in DOMAIN g[j] : p = <<j, h>>
    BY DEF Known
  <2>2. PICK h \in DOMAIN g[j] : p = <<j, h>>
    BY <2>1
  <2>3. put[j][h] = g[j][h]
    <3>1. CASE j = id
      <4>1. h # f /\ before = g[id]
        BY <1>4, <1>8, <2>2, <3>1
      <4> QED
        BY <1>5, <1>6, <3>1, <4>1
    <3>2. CASE j # id
      BY <1>5, <3>2
    <3> QED
      BY <3>1, <3>2
  <2> QED
    BY <2>2, <2>3
<1>9. (\A j \in DOMAIN g : DOMAIN g[j] # {}) => \A j \in DOMAIN put : DOMAIN put[j] # {}
  BY <1>5, <1>6
<1>10. id \in DOMAIN g => \A h \in DOMAIN g[id] : h \in DOMAIN put[id] /\ (h # f => put[id][h] = g[id][h])
  BY <1>4, <1>5, <1>6
<1>11. HasPut(g, put, id, f, v)
  BY <1>5, <1>6, <1>7, <1>8, <1>9, <1>10 DEF HasPut
<1> QED
  BY <1>11 DEF put

(* Nothing is known at first.                                               *)
LEMMA KnownNothing == Known(<<>>) = {}
BY DEF Known

=============================================================================
