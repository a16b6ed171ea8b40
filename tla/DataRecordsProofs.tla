-------------------------- MODULE DataRecordsProofs --------------------------
(***************************************************************************)
(* Theorems about DataRecords, for any number of records, any heap that    *)
(* has room for them, any strings and routes, and any number of calls: the *)
(* blocks of the heap are owned, copies stand alone, records arrive as     *)
(* they were sent or are refused, and settings are accepted.               *)
(***************************************************************************)
EXTENDS DataRecords, FiniteSetTheorems, SequenceTheorems, TLAPS

(***************************************************************************)
(* A memory (m, as in DataRecords: objects and heap) in order.             *)
(***************************************************************************)
LiveIn(m) == {o \in Objects : m.object[o] # None}

Typed(m) == m \in [object : [Objects -> Records(kind) \cup {None}],
                   heap   : [Blocks -> Seq(Bytes) \cup {None}]]

(* A part is nothing, or a block that is in use and of the known size.     *)
Pointed(m) ==
    \A o \in LiveIn(m), p \in Parts(kind) :
        LET b == m.object[o].block[p]
        IN b = None \/ (m.heap[b] # None /\ m.object[o].size[p] = Len(m.heap[b]))

(* No two parts, of one record or of two, are in one block.                *)
Alone(m) ==
    \A o, q \in LiveIn(m) : \A p, r \in Parts(kind) :
        m.object[o].block[p] = m.object[q].block[r] /\ m.object[o].block[p] # None
            => o = q /\ p = r

(* Every block in use is some part.                                        *)
Reached(m) ==
    \A b \in Blocks : m.heap[b] # None =>
        \E o \in LiveIn(m), p \in Parts(kind) : m.object[o].block[p] = b

Sane(m) == Typed(m) /\ Pointed(m) /\ Alone(m) /\ Reached(m)

(* What becomes of one record (o) is nobody else's business.               *)
Apart(m, after, o) ==
    /\ Sane(after) /\ LiveIn(after) \ {o} = LiveIn(m) \ {o}
    /\ \A q \in LiveIn(m) \ {o} :
          after.object[q] = m.object[q] /\ \A p \in Parts(kind) : Text(after, q, p) = Text(m, q, p)
-----------------------------------------------------------------------------
LEMMA PartsAreKnown ==
  ASSUME NEW k \in Kinds
  PROVE  /\ Parts(k) \subseteq {"route", "routerName", "routerPassword", "routerIp", "clientIp"}
         /\ IsFiniteSet(Parts(k))
<1>1. Parts(k) \subseteq {"route", "routerName", "routerPassword", "routerIp", "clientIp"}
  BY StringsAssumption DEF Parts, Kinds
<1>2. IsFiniteSet({"route", "routerName", "routerPassword", "routerIp", "clientIp"})
  <2>1. IsFiniteSet({}) BY FS_EmptySet
  <2>2. IsFiniteSet({} \cup {"route"}) BY <2>1, FS_AddElement
  <2>3. IsFiniteSet(({} \cup {"route"}) \cup {"routerName"}) BY <2>2, FS_AddElement
  <2>4. IsFiniteSet((({} \cup {"route"}) \cup {"routerName"}) \cup {"routerPassword"})
    BY <2>3, FS_AddElement
  <2>5. IsFiniteSet(((({} \cup {"route"}) \cup {"routerName"}) \cup {"routerPassword"})
                    \cup {"routerIp"})
    BY <2>4, FS_AddElement
  <2>6. IsFiniteSet((((({} \cup {"route"}) \cup {"routerName"}) \cup {"routerPassword"})
                     \cup {"routerIp"}) \cup {"clientIp"})
    BY <2>5, FS_AddElement
  <2>7. (((({} \cup {"route"}) \cup {"routerName"}) \cup {"routerPassword"})
         \cup {"routerIp"}) \cup {"clientIp"}
        = {"route", "routerName", "routerPassword", "routerIp", "clientIp"}
    OBVIOUS
  <2> QED BY <2>6, <2>7
<1> QED BY <1>1, <1>2, FS_Subset

LEMMA RecordsAre ==
  ASSUME NEW m, Typed(m), NEW o \in LiveIn(m)
  PROVE  /\ m.object[o] \in Records(kind)
         /\ m.object[o].block \in [Parts(kind) -> Blocks \cup {None}]
         /\ m.object[o].size \in [Parts(kind) -> Nat \cup {Unset}]
         /\ m.object[o].field \in Fillings(kind) /\ m.object[o].crc \in Checksums(kind)
<1>1. m.object[o] \in Records(kind)
  BY DEF Typed, LiveIn
<1> QED BY <1>1 DEF Records

(* While a part of a record has no block there is a free one: every block  *)
(* in use is another part, and the heap has room for all of them.          *)
LEMMA ThereIsRoom ==
  ASSUME kind \in Kinds, NEW m, Typed(m), Reached(m),
         NEW o \in LiveIn(m), NEW p \in Parts(kind), m.object[o].block[p] = None
  PROVE  \E b \in Blocks : m.heap[b] = None
<1> DEFINE used == {b \in Blocks : m.heap[b] # None}
           places == Objects \X Parts(kind)
           others == places \ {<<o, p>>}
           BlockOf(w) == m.object[w[1]].block[w[2]]
           f == [b \in used |-> CHOOSE w \in others : BlockOf(w) = b]
<1>1. /\ IsFiniteSet(others) /\ Cardinality(others) = Cardinality(places) - 1
      /\ Cardinality(places) = Cardinality(Objects) * Cardinality(Parts(kind))
  <2>1. IsFiniteSet(places) /\ Cardinality(places) = Cardinality(Objects) * Cardinality(Parts(kind))
    BY FS_Product, HeapAssumption, PartsAreKnown
  <2>2. <<o, p>> \in places
    BY DEF LiveIn
  <2> QED BY <2>1, <2>2, FS_RemoveElement
<1>2. \A b \in used : f[b] \in others /\ BlockOf(f[b]) = b
  <2> SUFFICES ASSUME NEW b \in used PROVE f[b] \in others /\ BlockOf(f[b]) = b
    OBVIOUS
  <2>1. PICK q \in LiveIn(m), r \in Parts(kind) : m.object[q].block[r] = b
    BY DEF Reached
  <2>2. b # None
    BY NoneAssumption
  <2>3. <<q, r>> \in others /\ BlockOf(<<q, r>>) = b
    BY <2>1, <2>2 DEF LiveIn
  <2> QED BY <2>3
<1>3. f \in Injection(used, others)
  <2> HIDE DEF used, others, BlockOf
  <2>1. f = [b \in used |-> f[b]]
    OBVIOUS
  <2> HIDE DEF f
  <2>2. f \in [used -> others] /\ \A a, b \in used : f[a] = f[b] => a = b
    BY <1>2, <2>1
  <2> QED BY <2>2 DEF Injection, IsInjective
<1> HIDE DEF used, places, others, f
<1>4. used \subseteq Blocks
  BY DEF used
<1>5. IsFiniteSet(used) /\ Cardinality(used) <= Cardinality(others)
  BY <1>1, <1>3, FS_Injection
<1>6. /\ Cardinality(used) \in Nat /\ Cardinality(others) \in Nat
      /\ Cardinality(places) <= Cardinality(Blocks) /\ Cardinality(Blocks) \in Nat
  BY <1>1, <1>5, FS_CardinalityType, HeapAssumption
<1>8. Cardinality(places) \in Nat
  BY <1>1, FS_CardinalityType, FS_Product, HeapAssumption, PartsAreKnown DEF places
<1>9. used # Blocks
  BY <1>1, <1>5, <1>6, <1>8
<1>10. PICK b \in Blocks : b \notin used
  BY <1>4, <1>9
<1> QED BY <1>10 DEF used
-----------------------------------------------------------------------------
(***************************************************************************)
(* Setting a part of a record.                                             *)
(***************************************************************************)
(* What a part reads as is the block it is in.                             *)
LEMMA TextIs ==
  ASSUME NEW m, Typed(m), Pointed(m), NEW o \in LiveIn(m), NEW p \in Parts(kind)
  PROVE  /\ Text(m, o, p) = IF m.object[o].block[p] = None THEN <<>>
                            ELSE m.heap[m.object[o].block[p]]
         /\ Text(m, o, p) \in Seq(Bytes)
<1> DEFINE b == m.object[o].block[p]
           n == m.object[o].size[p]
<1>1. CASE b = None
  BY <1>1 DEF Text
<1>2. CASE b # None
  <2>1. b \in Blocks
    BY <1>2, RecordsAre
  <2>2. m.heap[b] # None /\ n = Len(m.heap[b])
    BY <1>2 DEF Pointed
  <2>3. m.heap[b] \in Seq(Bytes)
    BY <2>1, <2>2 DEF Typed
  <2> HIDE DEF b, n
  <2>4. Len(m.heap[b]) \in Nat
    BY <2>3, LenProperties
  <2>5. SubSeq(m.heap[b], 1, n) = m.heap[b]
    BY <2>2, <2>3, <2>4, SubSeqFull
  <2>6. Text(m, o, p) = IF b = None THEN <<>>
                        ELSE IF m.heap[b] = None \/ Len(m.heap[b]) < n THEN <<Unset>>
                        ELSE SubSeq(m.heap[b], 1, n)
    BY DEF Text, b, n
  <2>7. ~(m.heap[b] = None \/ Len(m.heap[b]) < n)
    BY <2>2, <2>4
  <2>8. Text(m, o, p) = m.heap[b]
    BY <1>2, <2>5, <2>6, <2>7, Zenon
  <2> QED BY <1>2, <2>3, <2>8 DEF b
<1> QED BY <1>1, <1>2

(* The record alone is written, in a block that was free or its own.       *)
Written(m, after, o, p, text, b) ==
    /\ b \in Blocks /\ (m.heap[b] = None \/ b = m.object[o].block[p])
    /\ Typed(after)
    /\ \A c \in Blocks : after.heap[c] = IF c = b THEN text
                                         ELSE IF c = m.object[o].block[p] THEN None
                                         ELSE m.heap[c]
    /\ \A q \in Objects \ {o} : after.object[q] = m.object[q]
    /\ after.object[o] # None
    /\ \A r \in Parts(kind) :
          /\ after.object[o].block[r] = IF r = p THEN b ELSE m.object[o].block[r]
          /\ after.object[o].size[r] = IF r = p THEN Len(text) ELSE m.object[o].size[r]

LEMMA SetPartWrites ==
  ASSUME kind \in Kinds, NEW m, Sane(m), NEW o \in LiveIn(m), NEW p \in Parts(kind),
         NEW text \in Seq(Bytes)
  PROVE  \E b \in Blocks : Written(m, SetPart(m, o, p, text), o, p, text, b)
<1> DEFINE rec == m.object[o]
           old == rec.block[p]
           released == Release(m, old)
           bare == [object |-> [m.object EXCEPT ![o].block[p] = None], heap |-> released.heap]
           b == Free(released)
           after == SetPart(m, o, p, text)
<1>0. /\ m = [object |-> m.object, heap |-> m.heap]
      /\ m.object \in [Objects -> Records(kind) \cup {None}]
      /\ m.heap \in [Blocks -> Seq(Bytes) \cup {None}]
      /\ o \in Objects /\ rec \in Records(kind) /\ old \in Blocks \cup {None}
  BY RecordsAre DEF Sane, Typed, LiveIn
<1>1. /\ released = [object |-> m.object, heap |-> released.heap]
      /\ released.heap \in [Blocks -> Seq(Bytes) \cup {None}]
      /\ \A c \in Blocks : released.heap[c] = IF c = old THEN None ELSE m.heap[c]
  BY <1>0, NoneAssumption DEF Release
<1> HIDE DEF released
<1>2. /\ bare.object \in [Objects -> Records(kind) \cup {None}]
      /\ \A q \in Objects \ {o} : bare.object[q] = m.object[q]
      /\ bare.object[o] \in Records(kind)
      /\ \A r \in Parts(kind) : bare.object[o].block[r] = IF r = p THEN None ELSE rec.block[r]
  <2>1. [rec EXCEPT !.block[p] = None] \in Records(kind)
    BY <1>0 DEF Records
  <2>2. bare.object[o] = [rec EXCEPT !.block[p] = None]
    BY <1>0
  <2>3. \A q \in Objects \ {o} : bare.object[q] = m.object[q]
    BY <1>0
  <2>4. \A r \in Parts(kind) : [rec EXCEPT !.block[p] = None].block[r]
                                 = IF r = p THEN None ELSE rec.block[r]
    BY <1>0 DEF Records
  <2>5. bare.object = [q \in Objects |-> bare.object[q]]
    BY <1>0
  <2> HIDE DEF bare, rec
  <2> QED BY <1>0, <2>1, <2>2, <2>3, <2>4, <2>5
<1>3. Typed(bare) /\ o \in LiveIn(bare) /\ Reached(bare)
  <2>1. Typed(bare)
    BY <1>1, <1>2 DEF Typed
  <2>2. LiveIn(bare) = LiveIn(m)
    <3>1. bare.object[o] # None
      BY <1>2, NoneAssumption
    <3> QED BY <1>0, <1>2, <3>1 DEF LiveIn
  <2>3. ASSUME NEW c \in Blocks, released.heap[c] # None
        PROVE  \E q \in LiveIn(m), r \in Parts(kind) : bare.object[q].block[r] = c
    <3>1. c # old /\ m.heap[c] # None
      BY <1>1, <2>3
    <3>2. PICK q \in LiveIn(m), r \in Parts(kind) : m.object[q].block[r] = c
      BY <3>1 DEF Sane, Reached
    <3>3. bare.object[q].block[r] = c
      BY <1>2, <3>1, <3>2 DEF LiveIn
    <3> QED BY <3>3
  <2>4. bare.heap = released.heap
    OBVIOUS
  <2> HIDE DEF bare
  <2> QED BY <2>1, <2>2, <2>3, <2>4 DEF Reached
<1>4. b \in Blocks /\ released.heap[b] = None
  <2>1. bare.object[o].block[p] = None /\ bare.heap = released.heap
    BY <1>2
  <2> HIDE DEF bare
  <2>2. \E c \in Blocks : bare.heap[c] = None
    BY <1>3, <2>1, ThereIsRoom
  <2> QED BY <2>1, <2>2 DEF Free
<1>6. after = [object |-> [m.object EXCEPT ![o].block[p] = b, ![o].size[p] = Len(text)],
               heap |-> [released.heap EXCEPT ![b] = text]]
  BY DEF SetPart, released
<1> HIDE DEF b, after
<1>7. after.object[o] = [rec EXCEPT !.block[p] = b, !.size[p] = Len(text)]
      /\ (\A q \in Objects \ {o} : after.object[q] = m.object[q])
      /\ after.object = [q \in Objects |-> after.object[q]]
  BY <1>0, <1>6
<1> HIDE DEF rec
<1>8. [rec EXCEPT !.block[p] = b, !.size[p] = Len(text)] \in Records(kind)
  BY <1>0, <1>4, LenProperties DEF Records
<1>9. \A r \in Parts(kind) : /\ after.object[o].block[r] = IF r = p THEN b ELSE rec.block[r]
                            /\ after.object[o].size[r] = IF r = p THEN Len(text) ELSE rec.size[r]
  BY <1>0, <1>7 DEF Records
<1>10. after.object \in [Objects -> Records(kind) \cup {None}]
  BY <1>0, <1>7, <1>8
<1>11. /\ after.heap \in [Blocks -> Seq(Bytes) \cup {None}]
       /\ \A c \in Blocks : after.heap[c] = IF c = b THEN text ELSE released.heap[c]
  BY <1>1, <1>4, <1>6
<1>12. Typed(after)
  BY <1>6, <1>10, <1>11 DEF Typed
<1>13. m.heap[b] = None \/ b = old
  BY <1>1, <1>4
<1>14. after.object[o] # None
  BY <1>7, <1>8, NoneAssumption
<1>15. Written(m, after, o, p, text, b)
  BY <1>1, <1>4, <1>7, <1>9, <1>11, <1>12, <1>13, <1>14 DEF Written, rec
<1> QED BY <1>4, <1>15 DEF after

(* A text is where it was when its block and what is in it are the same.   *)
LEMMA TextStays ==
  ASSUME NEW m, NEW after, Typed(m), Pointed(m), Typed(after), Pointed(after),
         NEW o \in LiveIn(m) \cap LiveIn(after), NEW p \in Parts(kind),
         after.object[o].block[p] = m.object[o].block[p],
         m.object[o].block[p] # None => after.heap[m.object[o].block[p]] = m.heap[m.object[o].block[p]]
  PROVE  Text(after, o, p) = Text(m, o, p)
<1> DEFINE b == m.object[o].block[p]
<1>1. Text(m, o, p) = IF b = None THEN <<>> ELSE m.heap[b]
  BY TextIs
<1>2. Text(after, o, p) = IF after.object[o].block[p] = None THEN <<>>
                          ELSE after.heap[after.object[o].block[p]]
  BY TextIs
<1>3. after.object[o].block[p] = b /\ (b # None => after.heap[b] = m.heap[b])
  OBVIOUS
<1> HIDE DEF b
<1>4. CASE b = None
  BY <1>1, <1>2, <1>3, <1>4
<1>5. CASE b # None
  BY <1>1, <1>2, <1>3, <1>5
<1> QED BY <1>4, <1>5

LEMMA WrittenIsApart ==
  ASSUME kind \in Kinds, NEW m, Sane(m), NEW o \in LiveIn(m), NEW p \in Parts(kind),
         NEW text \in Seq(Bytes), NEW b, NEW after, Written(m, after, o, p, text, b)
  PROVE  /\ Apart(m, after, o) /\ o \in LiveIn(after)
         /\ \A r \in Parts(kind) : Text(after, o, r) = IF r = p THEN text ELSE Text(m, o, r)
<1> DEFINE old == m.object[o].block[p]
<1>1. /\ b \in Blocks /\ b # None /\ text # None
      /\ \A q \in LiveIn(m), r \in Parts(kind) : m.object[q].block[r] \in Blocks \cup {None}
  BY NoneAssumption, RecordsAre DEF Written, Sane
<1>2. LiveIn(after) = LiveIn(m)
  BY DEF Written, LiveIn
(* The block written was no other part's.                                  *)
<1>3. \A q \in LiveIn(m), r \in Parts(kind) :
         m.object[q].block[r] # None /\ m.object[q].block[r] \in {b, old} => q = o /\ r = p
  <2> SUFFICES ASSUME NEW q \in LiveIn(m), NEW r \in Parts(kind), m.object[q].block[r] # None,
                      m.object[q].block[r] \in {b, old}
               PROVE  q = o /\ r = p
    OBVIOUS
  <2>1. m.heap[m.object[q].block[r]] # None
    BY DEF Sane, Pointed
  <2>2. m.object[q].block[r] = old
    BY <2>1 DEF Written
  <2> QED BY <2>2 DEF Sane, Alone
<1>4. \A q \in LiveIn(m), r \in Parts(kind) :
         ~(q = o /\ r = p) => /\ after.object[q].block[r] = m.object[q].block[r]
                              /\ after.object[q].size[r] = m.object[q].size[r]
  BY DEF Written, LiveIn
<1>5. \A q \in LiveIn(m), r \in Parts(kind) :
         ~(q = o /\ r = p) /\ m.object[q].block[r] # None
            => after.heap[m.object[q].block[r]] = m.heap[m.object[q].block[r]]
  BY <1>1, <1>3 DEF Written
<1>6. /\ after.object[o].block[p] = b /\ after.object[o].size[p] = Len(text)
      /\ after.heap[b] = text
  BY DEF Written
<1>7. Pointed(after)
  <2> SUFFICES ASSUME NEW q \in LiveIn(m), NEW r \in Parts(kind)
               PROVE  LET c == after.object[q].block[r]
                      IN c = None \/ (after.heap[c] # None /\ after.object[q].size[r] = Len(after.heap[c]))
    BY <1>2 DEF Pointed
  <2>1. CASE q = o /\ r = p
    BY <1>1, <1>6, <2>1
  <2>2. CASE ~(q = o /\ r = p)
    <3> DEFINE d == m.object[q].block[r]
    <3>1. d = None \/ (m.heap[d] # None /\ m.object[q].size[r] = Len(m.heap[d]))
      BY DEF Sane, Pointed
    <3>2. after.object[q].block[r] = d /\ after.object[q].size[r] = m.object[q].size[r]
      BY <1>4, <2>2
    <3>3. d = None \/ after.heap[d] = m.heap[d]
      BY <1>5, <2>2
    <3> HIDE DEF d
    <3> QED BY <3>1, <3>2, <3>3
  <2> QED BY <2>1, <2>2
<1>8. Alone(after)
  <2> SUFFICES ASSUME NEW x \in LiveIn(m), NEW q \in LiveIn(m), NEW r \in Parts(kind), NEW s \in Parts(kind),
                      after.object[x].block[r] = after.object[q].block[s],
                      after.object[x].block[r] # None
               PROVE  x = q /\ r = s
    BY <1>2 DEF Alone
  <2>1. CASE (x = o /\ r = p) \/ (q = o /\ s = p)
    BY <1>3, <1>4, <1>6, <2>1
  <2>2. CASE ~(x = o /\ r = p) /\ ~(q = o /\ s = p)
    BY <1>4, <2>2 DEF Sane, Alone
  <2> QED BY <2>1, <2>2
<1>9. Reached(after)
  <2> SUFFICES ASSUME NEW c \in Blocks, after.heap[c] # None
               PROVE  \E q \in LiveIn(m), r \in Parts(kind) : after.object[q].block[r] = c
    BY <1>2 DEF Reached
  <2>1. CASE c = b
    BY <1>6, <2>1
  <2>2. CASE c # b
    <3>1. c # old /\ m.heap[c] # None
      BY <2>2 DEF Written
    <3>2. PICK q \in LiveIn(m), r \in Parts(kind) : m.object[q].block[r] = c
      BY <3>1 DEF Sane, Reached
    <3> QED BY <1>4, <3>1, <3>2
  <2> QED BY <2>1, <2>2
<1>10. Typed(m) /\ Pointed(m) /\ Typed(after)
  BY DEF Written, Sane
<1>11. \A q \in LiveIn(m), r \in Parts(kind) : ~(q = o /\ r = p) => Text(after, q, r) = Text(m, q, r)
  BY <1>2, <1>4, <1>5, <1>7, <1>10, TextStays
<1>12. Text(after, o, p) = text
  BY <1>1, <1>2, <1>6, <1>7, <1>10, TextIs
<1>13. \A q \in LiveIn(m) \ {o} : after.object[q] = m.object[q]
  BY DEF Written, LiveIn
<1> QED BY <1>2, <1>7, <1>8, <1>9, <1>10, <1>11, <1>12, <1>13 DEF Apart, Sane, Written

(* Two writings of one record are one.                                     *)
LEMMA ApartAgain ==
  ASSUME NEW m, NEW n, NEW after, NEW o, Apart(m, n, o), Apart(n, after, o)
  PROVE  Apart(m, after, o)
BY DEF Apart

LEMMA NothingIsApart ==
  ASSUME NEW m, Sane(m), NEW o \in LiveIn(m)
  PROVE  Apart(m, m, o)
BY DEF Apart

LEMMA SetPartIsApart ==
  ASSUME kind \in Kinds, NEW m, Sane(m), NEW o \in LiveIn(m), NEW p \in Parts(kind),
         NEW text \in Seq(Bytes)
  PROVE  /\ Apart(m, SetPart(m, o, p, text), o) /\ o \in LiveIn(SetPart(m, o, p, text))
         /\ \A r \in Parts(kind) :
               Text(SetPart(m, o, p, text), o, r) = IF r = p THEN text ELSE Text(m, o, r)
BY SetPartWrites, WrittenIsApart

LEMMA SetIfIsApart ==
  ASSUME kind \in Kinds, NEW m, Sane(m), NEW o \in LiveIn(m), NEW p,
         NEW text \in Writings(kind)
  PROVE  /\ Apart(m, SetIf(m, o, p, text), o) /\ o \in LiveIn(SetIf(m, o, p, text))
         /\ \A r \in Parts(kind) :
               Text(SetIf(m, o, p, text), o, r) = IF r = p THEN text[r] ELSE Text(m, o, r)
<1>1. CASE p \in Parts(kind)
  BY <1>1, SetPartIsApart DEF SetIf, Writings
<1>2. CASE p \notin Parts(kind)
  BY <1>2, NothingIsApart DEF SetIf, Writings
<1> QED BY <1>1, <1>2

LEMMA SetPartsIsApart ==
  ASSUME kind \in Kinds, NEW m, Sane(m), NEW o \in LiveIn(m), NEW text \in Writings(kind)
  PROVE  /\ Apart(m, SetParts(m, o, text), o) /\ o \in LiveIn(SetParts(m, o, text))
         /\ \A r \in Parts(kind) : Text(SetParts(m, o, text), o, r) = text[r]
<1> DEFINE m1 == SetIf(m, o, "route", text)
           m2 == SetIf(m1, o, "routerName", text)
           m3 == SetIf(m2, o, "routerPassword", text)
           m4 == SetIf(m3, o, "routerIp", text)
           m5 == SetIf(m4, o, "clientIp", text)
<1>0. SetParts(m, o, text) = m5
  BY DEF SetParts
<1> HIDE DEF m1, m2, m3, m4, m5
<1>1. /\ Apart(m, m1, o) /\ o \in LiveIn(m1)
      /\ \A r \in Parts(kind) : Text(m1, o, r) = IF r = "route" THEN text[r] ELSE Text(m, o, r)
  BY SetIfIsApart DEF m1
<1>2. /\ Apart(m1, m2, o) /\ o \in LiveIn(m2)
      /\ \A r \in Parts(kind) : Text(m2, o, r) = IF r = "routerName" THEN text[r] ELSE Text(m1, o, r)
  BY <1>1, SetIfIsApart DEF m2, Apart
<1>3. /\ Apart(m2, m3, o) /\ o \in LiveIn(m3)
      /\ \A r \in Parts(kind) : Text(m3, o, r) = IF r = "routerPassword" THEN text[r] ELSE Text(m2, o, r)
  BY <1>1, <1>2, SetIfIsApart DEF m3, Apart
<1>4. /\ Apart(m3, m4, o) /\ o \in LiveIn(m4)
      /\ \A r \in Parts(kind) : Text(m4, o, r) = IF r = "routerIp" THEN text[r] ELSE Text(m3, o, r)
  BY <1>1, <1>2, <1>3, SetIfIsApart DEF m4, Apart
<1>5. /\ Apart(m4, m5, o) /\ o \in LiveIn(m5)
      /\ \A r \in Parts(kind) : Text(m5, o, r) = IF r = "clientIp" THEN text[r] ELSE Text(m4, o, r)
  BY <1>1, <1>2, <1>3, <1>4, SetIfIsApart DEF m5, Apart
<1>7. Apart(m, m5, o)
  BY <1>1, <1>2, <1>3, <1>4, <1>5, ApartAgain
<1>8. \A r \in Parts(kind) : Text(m5, o, r) = text[r]
  <2> TAKE r \in Parts(kind)
  <2>1. r \in {"route", "routerName", "routerPassword", "routerIp", "clientIp"}
    BY PartsAreKnown
  <2> QED BY <1>1, <1>2, <1>3, <1>4, <1>5, <2>1
<1> QED BY <1>0, <1>5, <1>7, <1>8
-----------------------------------------------------------------------------
(***************************************************************************)
(* Making, marking and destroying a record.                                *)
(***************************************************************************)
(* Fields, checksum and the size of a part without a block may change.     *)
LEMMA ChangedIsApart ==
  ASSUME NEW m, Sane(m), NEW o \in LiveIn(m), NEW after, Typed(after), after.heap = m.heap,
         \A q \in Objects \ {o} : after.object[q] = m.object[q],
         after.object[o] # None, after.object[o].block = m.object[o].block,
         \A p \in Parts(kind) :
            m.object[o].block[p] # None => after.object[o].size[p] = m.object[o].size[p]
  PROVE  /\ Apart(m, after, o) /\ o \in LiveIn(after)
         /\ \A p \in Parts(kind) : Text(after, o, p) = Text(m, o, p)
<1>1. LiveIn(after) = LiveIn(m)
  BY DEF LiveIn
<1>2. \A q \in LiveIn(m), p \in Parts(kind) :
         /\ after.object[q].block[p] = m.object[q].block[p]
         /\ m.object[q].block[p] # None => after.object[q].size[p] = m.object[q].size[p]
  BY DEF LiveIn
<1>3. Pointed(after) /\ Alone(after) /\ Reached(after)
  BY <1>1, <1>2 DEF Sane, Pointed, Alone, Reached
<1>4. ASSUME NEW q \in LiveIn(m), NEW p \in Parts(kind)
      PROVE  Text(after, q, p) = Text(m, q, p)
  <2>1. Typed(m) /\ Pointed(m) /\ q \in LiveIn(m) \cap LiveIn(after)
    BY <1>1 DEF Sane
  <2> QED BY <1>2, <1>3, <2>1, TextStays
<1>5. \A q \in LiveIn(m) \ {o} : after.object[q] = m.object[q]
  BY DEF LiveIn
<1> QED BY <1>1, <1>3, <1>4, <1>5 DEF Apart, Sane

(* A memory in which one record is another.                                *)
LEMMA RecordIsReplaced ==
  ASSUME NEW m, Typed(m), NEW o \in Objects, NEW rec \in Records(kind), kind \in Kinds
  PROVE  LET after == [object |-> [m.object EXCEPT ![o] = rec], heap |-> m.heap]
         IN /\ Typed(after) /\ after.heap = m.heap /\ after.object[o] = rec
            /\ after.object[o] # None
            /\ \A q \in Objects \ {o} : after.object[q] = m.object[q]
<1>1. m.object \in [Objects -> Records(kind) \cup {None}] /\ m.heap \in [Blocks -> Seq(Bytes) \cup {None}]
  BY DEF Typed
<1> QED BY <1>1, NoneAssumption DEF Typed

LEMMA MarkedIsApart ==
  ASSUME kind \in Kinds, NEW m, Sane(m), NEW o \in LiveIn(m), NEW image,
         image.field \in Fillings(kind), image.crc \in Checksums(kind)
  PROVE  LET after == Marked(m, o, image)
         IN /\ Apart(m, after, o) /\ o \in LiveIn(after)
            /\ after.object[o].field = image.field /\ after.object[o].crc = image.crc
            /\ after.object[o].size = m.object[o].size
            /\ \A p \in Parts(kind) : Text(after, o, p) = Text(m, o, p)
<1> DEFINE old == m.object[o]
           rec == [old EXCEPT !.field = image.field, !.crc = image.crc]
           after == Marked(m, o, image)
<1>1. old \in Records(kind) /\ o \in Objects /\ Typed(m)
  BY RecordsAre DEF Sane, LiveIn
<1> HIDE DEF old
<1>2. rec \in Records(kind) /\ rec.block = old.block /\ rec.size = old.size
      /\ rec.field = image.field /\ rec.crc = image.crc
  BY <1>1 DEF Records
<1>3. after = [object |-> [m.object EXCEPT ![o] = rec], heap |-> m.heap]
  BY DEF Marked, old
<1> HIDE DEF after, rec
<1>4. /\ Typed(after) /\ after.heap = m.heap /\ after.object[o] = rec /\ after.object[o] # None
      /\ \A q \in Objects \ {o} : after.object[q] = m.object[q]
  BY <1>1, <1>2, <1>3, RecordIsReplaced, SMTT(30)
<1>5. rec.block = m.object[o].block /\ rec.size = m.object[o].size
  BY <1>2 DEF old
<1>6. /\ Apart(m, after, o) /\ o \in LiveIn(after)
      /\ \A p \in Parts(kind) : Text(after, o, p) = Text(m, o, p)
  BY <1>4, <1>5, ChangedIsApart
<1> QED BY <1>2, <1>4, <1>5, <1>6 DEF after

LEMMA EmptiedIsApart ==
  ASSUME kind = "ROUTE_CONTAINER", NEW m, Sane(m), NEW o \in LiveIn(m),
         m.object[o].block["route"] = None
  PROVE  LET after == Emptied(m, o)
         IN /\ Apart(m, after, o) /\ o \in LiveIn(after)
            /\ after.object[o].field = m.object[o].field /\ after.object[o].crc = m.object[o].crc
            /\ Text(after, o, "route") = <<>>
<1> DEFINE old == m.object[o]
           rec == [old EXCEPT !.size["route"] = 0]
           after == Emptied(m, o)
<1>1. old \in Records(kind) /\ Parts(kind) = {"route"} /\ kind \in Kinds
      /\ o \in Objects /\ Typed(m)
  BY RecordsAre DEF Sane, Parts, Kinds, LiveIn
<1>2. old.block["route"] = None
  OBVIOUS
<1> HIDE DEF old
<1>3. rec \in Records(kind) /\ rec.block = old.block /\ rec.field = old.field /\ rec.crc = old.crc
  BY <1>1 DEF Records
<1>4. after = [object |-> [m.object EXCEPT ![o] = rec], heap |-> m.heap]
  BY DEF Emptied, old
<1> HIDE DEF after, rec
<1>5. /\ Typed(after) /\ after.heap = m.heap /\ after.object[o] = rec /\ after.object[o] # None
      /\ \A q \in Objects \ {o} : after.object[q] = m.object[q]
  BY <1>1, <1>3, <1>4, RecordIsReplaced
<1>6. rec.block = m.object[o].block /\ \A p \in Parts(kind) : rec.block[p] = None
  BY <1>1, <1>2, <1>3 DEF old
<1>7. Apart(m, after, o) /\ o \in LiveIn(after)
  BY <1>5, <1>6, ChangedIsApart
<1>8. Text(after, o, "route") = <<>>
  BY <1>1, <1>5, <1>6, <1>7, TextIs DEF Apart, Sane
<1> QED BY <1>3, <1>5, <1>7, <1>8 DEF after, old

LEMMA BlankIs ==
  ASSUME kind \in Kinds
  PROVE  /\ Blank \in Records(kind) /\ Blank # None
         /\ \A p \in Parts(kind) : Blank.block[p] = None
<1>1. Blank \in Records(kind)
  BY DEF Blank, Records, Fillings, Checksums
<1> QED BY <1>1, NoneAssumption DEF Blank

LEMMA CreatedIsApart ==
  ASSUME kind \in Kinds, Sane(Memory), NEW o \in Objects, o \notin Live
  PROVE  /\ Apart(Memory, Created(o), o) /\ o \in LiveIn(Created(o))
         /\ Created(o).object[o] = Blank
         /\ \A p \in Parts(kind) : Text(Created(o), o, p) = <<>>
<1> DEFINE m == Memory
           after == Created(o)
<1>1. /\ object \in [Objects -> Records(kind) \cup {None}] /\ heap \in [Blocks -> Seq(Bytes) \cup {None}]
      /\ m.object = object /\ m.heap = heap /\ LiveIn(m) = Live
  BY DEF Sane, Typed, Memory, LiveIn, Live
<1>2. /\ Typed(after) /\ after.object[o] = Blank /\ after.heap = heap
      /\ \A q \in Objects \ {o} : after.object[q] = object[q]
  BY <1>1, BlankIs DEF Typed, Created
<1>3. LiveIn(after) = Live \cup {o}
  BY <1>1, <1>2, BlankIs DEF LiveIn, Live
<1> HIDE DEF m, after
<1>4. /\ \A p \in Parts(kind) : after.object[o].block[p] = None
      /\ \A q \in Live : q # o /\ after.object[q] = m.object[q]
  BY <1>1, <1>2, BlankIs DEF Live
<1>5. Pointed(m) /\ Alone(m) /\ Reached(m) /\ Typed(m)
  BY DEF Sane, m
<1>6. Pointed(after)
  BY <1>1, <1>2, <1>3, <1>4, <1>5 DEF Pointed
<1>7. Alone(after)
  BY <1>1, <1>3, <1>4, <1>5 DEF Alone
<1>8. Reached(after)
  BY <1>1, <1>2, <1>3, <1>4, <1>5 DEF Reached
<1>9. \A q \in Live, p \in Parts(kind) : Text(after, q, p) = Text(m, q, p)
  BY <1>1, <1>2, <1>3, <1>4, <1>5, <1>6, TextStays
<1>10. \A p \in Parts(kind) : Text(after, o, p) = <<>>
  BY <1>2, <1>3, <1>4, <1>6, TextIs
<1>11. Apart(m, after, o)
  BY <1>1, <1>2, <1>3, <1>4, <1>6, <1>7, <1>8, <1>9 DEF Apart, Sane
<1> QED BY <1>2, <1>3, <1>10, <1>11 DEF m, after

LEMMA DestroyedIsApart ==
  ASSUME kind \in Kinds, Sane(Memory), NEW o \in Live
  PROVE  Apart(Memory, Destroyed(o), o) /\ o \notin LiveIn(Destroyed(o))
<1> DEFINE m == Memory
           after == Destroyed(o)
<1>1. /\ object \in [Objects -> Records(kind) \cup {None}] /\ heap \in [Blocks -> Seq(Bytes) \cup {None}]
      /\ m.object = object /\ m.heap = heap /\ LiveIn(m) = Live
  BY DEF Sane, Typed, Memory, LiveIn, Live
<1>2. /\ Typed(after) /\ after.object[o] = None
      /\ \A q \in Objects \ {o} : after.object[q] = object[q]
      /\ \A b \in Blocks : after.heap[b] = IF \E p \in Parts(kind) : object[o].block[p] = b
                                           THEN None ELSE heap[b]
  BY <1>1 DEF Typed, Destroyed, Live
<1>3. LiveIn(after) = Live \ {o}
  BY <1>1, <1>2 DEF LiveIn, Live
<1> HIDE DEF m, after
<1>4. \A q \in Live \ {o} : after.object[q] = m.object[q]
  BY <1>1, <1>2 DEF Live
<1>5. Pointed(m) /\ Alone(m) /\ Reached(m) /\ Typed(m)
  BY DEF Sane, m
<1>6. \A q \in Live \ {o}, p \in Parts(kind) :
         m.object[q].block[p] # None => after.heap[m.object[q].block[p]] = m.heap[m.object[q].block[p]]
  <2> SUFFICES ASSUME NEW q \in Live \ {o}, NEW p \in Parts(kind), m.object[q].block[p] # None
               PROVE  after.heap[m.object[q].block[p]] = m.heap[m.object[q].block[p]]
    OBVIOUS
  <2>1. m.object[q].block[p] \in Blocks
    BY <1>1, <1>5, RecordsAre
  <2>2. \A r \in Parts(kind) : m.object[o].block[r] # m.object[q].block[p]
    BY <1>1, <1>5 DEF Alone
  <2> QED BY <1>1, <1>2, <2>1, <2>2
<1>7. Pointed(after)
  <2> SUFFICES ASSUME NEW q \in Live \ {o}, NEW p \in Parts(kind), after.object[q].block[p] # None
               PROVE  /\ after.heap[after.object[q].block[p]] # None
                      /\ after.object[q].size[p] = Len(after.heap[after.object[q].block[p]])
    BY <1>3 DEF Pointed
  <2> DEFINE d == m.object[q].block[p]
  <2>1. m.heap[d] # None /\ m.object[q].size[p] = Len(m.heap[d]) /\ after.heap[d] = m.heap[d]
    BY <1>1, <1>4, <1>5, <1>6 DEF Pointed
  <2>2. after.object[q].block[p] = d /\ after.object[q].size[p] = m.object[q].size[p]
    BY <1>4
  <2> HIDE DEF d
  <2> QED BY <2>1, <2>2
<1>8. Alone(after)
  BY <1>1, <1>3, <1>4, <1>5 DEF Alone
<1>9. Reached(after)
  <2> SUFFICES ASSUME NEW b \in Blocks, after.heap[b] # None
               PROVE  \E q \in Live \ {o}, p \in Parts(kind) : after.object[q].block[p] = b
    BY <1>3 DEF Reached
  <2>1. m.heap[b] # None /\ \A p \in Parts(kind) : m.object[o].block[p] # b
    BY <1>1, <1>2
  <2>2. PICK q \in Live, p \in Parts(kind) : m.object[q].block[p] = b
    BY <1>1, <1>5, <2>1 DEF Reached
  <2> QED BY <1>4, <2>1, <2>2
<1>10. \A q \in Live \ {o}, p \in Parts(kind) : Text(after, q, p) = Text(m, q, p)
  BY <1>1, <1>2, <1>3, <1>4, <1>5, <1>6, <1>7, TextStays
<1>11. Apart(m, after, o)
  BY <1>1, <1>2, <1>3, <1>4, <1>7, <1>8, <1>9, <1>10 DEF Apart, Sane
<1> QED BY <1>3, <1>11 DEF m, after
-----------------------------------------------------------------------------
(***************************************************************************)
(* Copying a record, and making one from bytes.                            *)
(***************************************************************************)
LEMMA ImageIs ==
  ASSUME NEW m, Typed(m), Pointed(m), NEW o \in LiveIn(m)
  PROVE  /\ Image(m, o) \in Images(kind) /\ Contents(m, o) \in Checksums(kind)
         /\ Image(m, o).field = m.object[o].field /\ Image(m, o).crc = m.object[o].crc
         /\ \A p \in Parts(kind) : Image(m, o).text[p] = Text(m, o, p)
         /\ Contents(m, o).field = m.object[o].field
         /\ \A p \in Parts(kind) : Contents(m, o).text[p] = Text(m, o, p)
<1>1. /\ m.object[o].field \in Fillings(kind) /\ m.object[o].crc \in Checksums(kind)
      /\ [p \in Parts(kind) |-> Text(m, o, p)] \in Writings(kind)
  BY RecordsAre, TextIs DEF Writings
<1> QED BY <1>1 DEF Image, Contents, Images, Checksums

(* Two records of one image have the same fields, checksum and texts.      *)
LEMMA ImageIsAll ==
  ASSUME NEW m, NEW o, NEW image \in Images(kind),
         m.object[o].field = image.field, m.object[o].crc = image.crc,
         \A p \in Parts(kind) : Text(m, o, p) = image.text[p]
  PROVE  Image(m, o) = image
<1>1. image.text = [p \in Parts(kind) |-> image.text[p]]
      /\ image = [field |-> image.field, crc |-> image.crc, text |-> image.text]
  BY DEF Images, Writings
<1>2. [p \in Parts(kind) |-> Text(m, o, p)] = [p \in Parts(kind) |-> image.text[p]]
  OBVIOUS
<1> QED BY <1>1, <1>2 DEF Image

LEMMA ApartKeepsImages ==
  ASSUME NEW m, NEW after, NEW o, Apart(m, after, o), NEW q \in LiveIn(m) \ {o}
  PROVE  q \in LiveIn(after) /\ Image(after, q) = Image(m, q)
<1>1. q \in LiveIn(after) /\ after.object[q] = m.object[q]
      /\ \A p \in Parts(kind) : Text(after, q, p) = Text(m, q, p)
  BY DEF Apart
<1> QED BY <1>1 DEF Image

(* The record becomes what is in the image.                                *)
LEMMA FilledFrom ==
  ASSUME kind \in Kinds, NEW m, Sane(m), NEW o \in LiveIn(m), NEW image \in Images(kind)
  PROVE  LET after == Marked(SetParts(m, o, image.text), o, image)
         IN Apart(m, after, o) /\ o \in LiveIn(after) /\ Image(after, o) = image
<1> DEFINE n == SetParts(m, o, image.text)
           after == Marked(n, o, image)
<1>1. /\ image.field \in Fillings(kind) /\ image.crc \in Checksums(kind)
      /\ image.text \in Writings(kind)
  BY DEF Images
<1>2. /\ Apart(m, n, o) /\ o \in LiveIn(n) /\ Sane(n)
      /\ \A p \in Parts(kind) : Text(n, o, p) = image.text[p]
  BY <1>1, SetPartsIsApart DEF Apart
<1> HIDE DEF n
<1>3. /\ Apart(n, after, o) /\ o \in LiveIn(after)
      /\ after.object[o].field = image.field /\ after.object[o].crc = image.crc
      /\ \A p \in Parts(kind) : Text(after, o, p) = Text(n, o, p)
  BY <1>1, <1>2, MarkedIsApart
<1> HIDE DEF after
<1>4. Apart(m, after, o)
  BY <1>2, <1>3, ApartAgain
<1>5. Image(after, o) = image
  BY <1>2, <1>3, ImageIsAll
<1> QED BY <1>3, <1>4, <1>5 DEF after, n

(* operator= makes the record equal to the other, which stays as it is.    *)
LEMMA AssignedIsEqual ==
  ASSUME kind \in Kinds, NEW m, Sane(m), NEW o \in LiveIn(m), NEW right \in LiveIn(m) \ {o}
  PROVE  LET after == Assigned(m, o, right)
         IN /\ Apart(m, after, o) /\ o \in LiveIn(after)
            /\ Image(after, o) = Image(m, right) /\ Image(after, right) = Image(m, right)
<1> DEFINE image == Image(m, right)
           after == Assigned(m, o, right)
<1>1. image \in Images(kind)
  BY ImageIs DEF Sane
<1>2. after = Marked(SetParts(m, o, image.text), o, image)
  BY DEF Assigned
<1> HIDE DEF image, after
<1>3. Apart(m, after, o) /\ o \in LiveIn(after) /\ Image(after, o) = image
  BY <1>1, <1>2, FilledFrom
<1> QED BY <1>3, ApartKeepsImages DEF image, after

(* The constructor from bytes takes the record as it comes, or a route too *)
(* long without its waypoints.                                             *)
LEMMA ParsedIs ==
  ASSUME kind \in Kinds, Sane(Memory), NEW o \in Objects, o \notin Live, NEW image \in Images(kind)
  PROVE  LET after == Parsed(Created(o), o, image)
         IN /\ Apart(Memory, after, o) /\ o \in LiveIn(after)
            /\ after.object[o].field = image.field /\ after.object[o].crc = image.crc
            /\ ~TooLong(image) => Image(after, o) = image
            /\ TooLong(image) => Text(after, o, "route") = <<>>
<1> DEFINE m == Created(o)
           after == Parsed(m, o, image)
<1>1. /\ Apart(Memory, m, o) /\ o \in LiveIn(m) /\ Sane(m)
      /\ \A p \in Parts(kind) : m.object[o].block[p] = None
  BY CreatedIsApart, BlankIs DEF Apart
<1>2. image.field \in Fillings(kind) /\ image.crc \in Checksums(kind)
  BY DEF Images
<1> HIDE DEF m
<1>3. CASE TooLong(image)
  <2> DEFINE n == Emptied(m, o)
  <2>1. after = Marked(n, o, image)
    BY <1>3 DEF Parsed
  <2>2. kind = "ROUTE_CONTAINER" /\ Parts(kind) = {"route"}
    BY <1>3 DEF TooLong, Parts
  <2>3. Apart(m, n, o) /\ o \in LiveIn(n) /\ Text(n, o, "route") = <<>> /\ Sane(n)
    BY <1>1, <2>2, EmptiedIsApart DEF Apart
  <2> HIDE DEF n, after
  <2>4. /\ Apart(n, after, o) /\ o \in LiveIn(after)
        /\ after.object[o].field = image.field /\ after.object[o].crc = image.crc
        /\ \A p \in Parts(kind) : Text(after, o, p) = Text(n, o, p)
    BY <1>2, <2>1, <2>3, MarkedIsApart
  <2>5. Apart(Memory, after, o)
    BY <1>1, <2>3, <2>4, ApartAgain
  <2> QED BY <1>3, <2>2, <2>3, <2>4, <2>5 DEF after, m
<1>4. CASE ~TooLong(image)
  <2>1. after = Marked(SetParts(m, o, image.text), o, image)
    BY <1>4 DEF Parsed
  <2> HIDE DEF after
  <2>2. Apart(m, after, o) /\ o \in LiveIn(after) /\ Image(after, o) = image
    BY <1>1, <2>1, FilledFrom
  <2>3. Apart(Memory, after, o)
    BY <1>1, <2>2, ApartAgain
  <2>4. after.object[o].field = image.field /\ after.object[o].crc = image.crc
    BY <2>2, ImageIs DEF Apart, Sane
  <2> QED BY <1>4, <2>2, <2>3, <2>4 DEF after, m
<1> QED BY <1>3, <1>4
-----------------------------------------------------------------------------
(***************************************************************************)
(* The invariant.  Settings whose fields the board does not know exist:    *)
(* they are damaged on the way.  They carry the checksum of others and are *)
(* refused; nobody computes a checksum of them.  The rate of descent is no *)
(* such field: any may be entered, and have its checksum computed.         *)
(***************************************************************************)
Chosen == DOMAIN Accepted \ {"autoLandingDescedRate"}

Known(field) == \A f \in Chosen : field[f] \in Accepted[f] \cup {Unset}

Sums(crc) == crc = Unset \/ Known(crc.field)

RecordsInOrder ==
    /\ kind \in Kinds /\ Sane(Memory) /\ wire \in Images(kind) \cup {None}
    /\ kind = "CONTROL_SETTINGS" =>
          /\ \A o \in Live : Sums(object[o].crc) /\ (o \notin refused => Known(object[o].field))
          /\ wire # None => Sums(wire.crc)

(* A call that leaves the memory as m.                                     *)
LEMMA MemoryIs ==
  ASSUME kind \in Kinds, NEW m, Typed(m), Holds(m)
  PROVE  /\ Memory' = m /\ kind' = kind /\ wire' = wire /\ Live' = LiveIn(m)
         /\ Sane(m) => Sane(Memory)'
         /\ \A o : Image(Memory, o)' = Image(m, o)
<1>1. Memory' = m /\ kind' = kind /\ wire' = wire /\ object' = m.object
  BY DEF Typed, Holds, Memory
<1>2. Live' = LiveIn(m)
  BY <1>1 DEF Live, LiveIn
<1>3. \A o : Image(Memory, o)' = Image(m, o)
  BY <1>1 DEF Image, Text
<1>4. Sane(m) => Sane(Memory)'
  BY <1>1 DEF Sane, Typed, Pointed, Alone, Reached, LiveIn, Records, Fillings, Values, Checksums,
              Writings, Fields, Settable, Parts
<1> QED BY <1>1, <1>2, <1>3, <1>4

(* A call changes one record, and computes no checksum of unknown fields.  *)
Alters(o) ==
    \E m : /\ Holds(m) /\ Apart(Memory, m, o)
           /\ \A q \in Objects \ {o} : q \in refused' <=> q \in refused
           /\ kind = "CONTROL_SETTINGS" /\ o \in LiveIn(m) =>
                 /\ Sums(m.object[o].crc)
                 /\ o \notin refused' => Known(m.object[o].field)

LEMMA AltersKeeps ==
  ASSUME RecordsInOrder, NEW o \in Objects, Alters(o)
  PROVE  /\ RecordsInOrder'
         /\ \A q \in Live \ {o} : q \in Live' /\ Image(Memory, q)' = Image(Memory, q)
<1>1. PICK m : /\ Holds(m) /\ Apart(Memory, m, o)
               /\ \A q \in Objects \ {o} : q \in refused' <=> q \in refused
               /\ kind = "CONTROL_SETTINGS" /\ o \in LiveIn(m) =>
                     /\ Sums(m.object[o].crc)
                     /\ o \notin refused' => Known(m.object[o].field)
  BY DEF Alters
<1>2. kind \in Kinds /\ Typed(m) /\ Sane(m) /\ Live = LiveIn(Memory)
  BY <1>1 DEF RecordsInOrder, Apart, Sane, Live, LiveIn, Memory
<1>3. /\ Memory' = m /\ kind' = kind /\ wire' = wire /\ Live' = LiveIn(m) /\ Sane(Memory)'
      /\ \A q : Image(Memory, q)' = Image(m, q)
  BY <1>1, <1>2, MemoryIs
<1>4. \A q \in Live \ {o} : q \in Live' /\ Image(Memory, q)' = Image(Memory, q)
  BY <1>1, <1>2, <1>3, ApartKeepsImages
<1>5. object' = m.object /\ object = Memory.object
  BY <1>1 DEF Holds, Memory
<1>6. ASSUME kind = "CONTROL_SETTINGS", NEW q \in Live'
      PROVE  Sums(object'[q].crc) /\ (q \notin refused' => Known(object'[q].field))
  <2>1. CASE q = o
    BY <1>1, <1>3, <1>5, <1>6, <2>1
  <2>2. CASE q # o
    <3>1. q \in Live /\ m.object[q] = object[q] /\ q \in Objects
      BY <1>1, <1>2, <1>3, <1>5, <2>2 DEF Apart, LiveIn
    <3> QED BY <1>1, <1>5, <1>6, <2>2, <3>1 DEF RecordsInOrder
  <2> QED BY <2>1, <2>2
<1>7. Images(kind)' = Images(kind) /\ Kinds' = Kinds
  BY <1>3 DEF Images, Fillings, Values, Checksums, Writings, Fields, Settable, Parts
<1>8. RecordsInOrder'
  BY <1>3, <1>6, <1>7 DEF RecordsInOrder, Sums, Known
<1> QED BY <1>4, <1>8

(* One record is marked and its checksum set, or not.                      *)
LEMMA MarkedAlters ==
  ASSUME RecordsInOrder, NEW o \in Objects, NEW n, Apart(Memory, n, o), o \in LiveIn(n),
         NEW image, image.field \in Fillings(kind), image.crc \in Checksums(kind),
         Becomes(Marked(n, o, image)),
         kind = "CONTROL_SETTINGS" => Sums(image.crc) /\ (o \notin refused => Known(image.field))
  PROVE  Alters(o)
<1> DEFINE m == Marked(n, o, image)
<1>1. kind \in Kinds /\ Sane(n)
  BY DEF RecordsInOrder, Apart
<1>2. /\ Apart(n, m, o) /\ o \in LiveIn(m)
      /\ m.object[o].field = image.field /\ m.object[o].crc = image.crc
  BY <1>1, MarkedIsApart
<1>3. Holds(m) /\ refused' = refused
  BY DEF Becomes
<1> HIDE DEF m
<1>4. Apart(Memory, m, o)
  BY <1>2, ApartAgain
<1> QED BY <1>2, <1>3, <1>4 DEF Alters

LEMMA EditedAlters ==
  ASSUME RecordsInOrder, NEW o \in Objects, NEW n, Apart(Memory, n, o), o \in LiveIn(n),
         NEW field \in Fillings(kind), Becomes(Edited(n, o, field)),
         kind = "CONTROL_SETTINGS" =>
            Sums(n.object[o].crc) /\ (o \notin refused => Known(field))
  PROVE  Alters(o)
<1> DEFINE image == [field |-> field, crc |-> n.object[o].crc]
<1>1. image.field = field /\ image.crc = n.object[o].crc /\ image.crc \in Checksums(kind)
  BY RecordsAre DEF Apart, Sane
<1>2. Becomes(Marked(n, o, image))
  BY DEF Edited
<1> HIDE DEF image
<1> QED BY <1>1, <1>2, MarkedAlters

LEMMA SealsAlters ==
  ASSUME RecordsInOrder, NEW o \in Objects, NEW n, Apart(Memory, n, o), o \in LiveIn(n),
         Seals(n, o), kind = "CONTROL_SETTINGS" => Known(n.object[o].field)
  PROVE  Alters(o)
<1> DEFINE image == [field |-> n.object[o].field, crc |-> Contents(n, o)]
<1>1. /\ image.field = n.object[o].field /\ image.crc = Contents(n, o)
      /\ image.field \in Fillings(kind) /\ image.crc \in Checksums(kind)
      /\ Contents(n, o).field = n.object[o].field
  BY RecordsAre, ImageIs DEF Apart, Sane
<1>2. Becomes(Marked(n, o, image))
  BY DEF Seals
<1> HIDE DEF image
<1>3. kind = "CONTROL_SETTINGS" => Sums(image.crc) /\ (o \notin refused => Known(image.field))
  BY <1>1 DEF Sums
<1> QED BY <1>1, <1>2, <1>3, MarkedAlters

LEMMA MemoryIsSane ==
  ASSUME RecordsInOrder
  PROVE  /\ kind \in Kinds /\ Sane(Memory) /\ LiveIn(Memory) = Live /\ Memory.object = object
         /\ \A o \in Live : Apart(Memory, Memory, o) /\ o \in LiveIn(Memory) /\ o \in Objects
<1>1. kind \in Kinds /\ Sane(Memory) /\ LiveIn(Memory) = Live /\ Memory.object = object
  BY DEF RecordsInOrder, LiveIn, Live, Memory
<1> QED BY <1>1, NothingIsApart DEF Live

LEMMA ValuesAre ==
  ASSUME NEW k, NEW f \in Fields(k)
  PROVE  Settable(k)[f] \subseteq Values(k)
BY DEF Values

LEMMA FillingIs ==
  ASSUME NEW k, NEW F, F = [f \in Fields(k) |-> F[f]],
         \A f \in Fields(k) : F[f] = Unset \/ F[f] \in Settable(k)[f]
  PROVE  F \in Fillings(k)
BY ValuesAre DEF Fillings

LEMMA DefaultsAreKnown ==
  /\ DefaultControl \in Fillings("CONTROL_SETTINGS") /\ Known(DefaultControl)
  /\ DefaultCalibration \in Fillings("CALIBRATION_SETTINGS")
  /\ [rest |-> "times"] \in Fillings("ROUTE_CONTAINER")
<1>1. DefaultControl \in Fillings("CONTROL_SETTINGS") /\ Known(DefaultControl)
  <2> DEFINE all == {"uavType", "initialSolverMode", "manualThrottleMode", "stickMovementMode",
                     "batteryType", "errorHandlingAction", "escPwmFreq",
                     "autoLandingDescedRate"}
  <2>1. /\ DOMAIN Understood = all /\ DOMAIN Accepted \subseteq all
        /\ "escPwmFreq" \notin DOMAIN Accepted
    BY DEF Understood, Accepted
  <2>2. DefaultControl = [f \in all |-> DefaultControl[f]]
    BY DEF DefaultControl
  <2>3. /\ DefaultControl["uavType"] = Unset /\ DefaultControl["initialSolverMode"] = Unset
        /\ DefaultControl["manualThrottleMode"] = Unset
        /\ DefaultControl["stickMovementMode"] = "Copter"
        /\ DefaultControl["batteryType"] = "Disabled"
        /\ DefaultControl["errorHandlingAction"] = "Autolanding"
        /\ DefaultControl["escPwmFreq"] = "Medium"
        /\ DefaultControl["autoLandingDescedRate"] = "down"
    BY DEF DefaultControl
  <2>4. /\ "Copter" \in Understood["stickMovementMode"] /\ "Disabled" \in Understood["batteryType"]
        /\ "Autolanding" \in Understood["errorHandlingAction"]
        /\ "Medium" \in Understood["escPwmFreq"] /\ "down" \in Understood["autoLandingDescedRate"]
    BY DEF Understood, Offered
  <2>5. /\ "Copter" \in Accepted["stickMovementMode"] /\ "Disabled" \in Accepted["batteryType"]
        /\ "Autolanding" \in Accepted["errorHandlingAction"]
    BY DEF Accepted
  <2>6. Settable("CONTROL_SETTINGS") = Understood /\ Fields("CONTROL_SETTINGS") = all
    BY <2>1 DEF Settable, Fields
  <2>7. \A f \in all : DefaultControl[f] = Unset \/ DefaultControl[f] \in Understood[f]
    BY <2>3, <2>4
  <2>8. DefaultControl \in Fillings("CONTROL_SETTINGS")
    <3> HIDE DEF all
    <3> QED BY <2>2, <2>6, <2>7, FillingIs
  <2>9. \A f \in Chosen : DefaultControl[f] \in Accepted[f] \cup {Unset}
    BY <2>1, <2>3, <2>5 DEF Chosen
  <2> QED BY <2>8, <2>9 DEF Known
<1>2. DefaultCalibration \in Fillings("CALIBRATION_SETTINGS")
  <2> DEFINE all == {"boardType", "magnetSoft", "accelCalib"}
  <2>1. DOMAIN Measured = all
    BY DEF Measured
  <2>2. DefaultCalibration = [f \in all |-> DefaultCalibration[f]]
    BY DEF DefaultCalibration
  <2>3. \A f \in all : DefaultCalibration[f] \in Measured[f]
    <3>1. /\ DefaultCalibration["boardType"] = "unknown type"
          /\ DefaultCalibration["magnetSoft"] = "regular"
          /\ DefaultCalibration["accelCalib"] = "regular"
      BY DEF DefaultCalibration
    <3>2. "unknown type" \in Measured["boardType"]
      BY DEF Measured
    <3>3. "regular" \in Measured["magnetSoft"] /\ "regular" \in Measured["accelCalib"]
      BY DEF Measured
    <3> QED BY <3>1, <3>2, <3>3
  <2>4. Settable("CALIBRATION_SETTINGS") = Measured /\ Fields("CALIBRATION_SETTINGS") = all
    BY <2>1 DEF Settable, Fields
  <2> HIDE DEF all
  <2> QED BY <2>2, <2>3, <2>4, FillingIs
<1>3. [rest |-> "times"] \in Fillings("ROUTE_CONTAINER")
  <2> DEFINE times == [rest |-> "times"]
             one == [rest |-> {"times"}]
  <2>1. DOMAIN one = {"rest"} /\ one["rest"] = {"times"} /\ times["rest"] = "times"
    OBVIOUS
  <2>2. times = [f \in {"rest"} |-> times[f]]
    OBVIOUS
  <2>3. Settable("ROUTE_CONTAINER") = one
    BY DEF Settable
  <2> HIDE DEF one, times
  <2>4. Fields("ROUTE_CONTAINER") = {"rest"} /\ Settable("ROUTE_CONTAINER")["rest"] = {"times"}
    BY <2>1, <2>3 DEF Fields
  <2>5. times \in Fillings("ROUTE_CONTAINER")
    BY <2>1, <2>2, <2>4, FillingIs
  <2> QED BY <2>5 DEF times
<1> QED BY <1>1, <1>2, <1>3

(* Making a record out of nothing.                                         *)
LEMMA CreationsAlter ==
  ASSUME RecordsInOrder, NEW o \in Objects,
         Create(o) \/ CreateDefault(o) \/ \E text \in Texts : CreateRoute(o, text)
  PROVE  Alters(o)
<1> DEFINE n == Created(o)
<1>1. o \notin Live
  BY DEF Create, CreateDefault, CreateRoute
<1>2. kind \in Kinds /\ Sane(Memory) /\ Apart(Memory, n, o) /\ o \in LiveIn(n) /\ Sane(n)
      /\ n.object[o] = Blank /\ \A p \in Parts(kind) : n.object[o].block[p] = None
  BY <1>1, MemoryIsSane, CreatedIsApart, BlankIs DEF Apart
<1>3. n.object[o].crc = Unset
  BY <1>2 DEF Blank
<1> HIDE DEF n
<1>4. CASE Create(o)
  <2>1. kind # "CONTROL_SETTINGS"
    BY <1>4 DEF Create, Parts
  <2>2. Becomes(IF kind = "ROUTE_CONTAINER" THEN Emptied(n, o) ELSE n)
    BY <1>4 DEF Create, n
  <2>3. CASE kind = "ROUTE_CONTAINER"
    <3>1. n.object[o].block["route"] = None
      BY <1>2, <2>3 DEF Parts
    <3>2. Apart(n, Emptied(n, o), o)
      BY <1>2, <2>3, <3>1, EmptiedIsApart
    <3>3. Apart(Memory, Emptied(n, o), o)
      BY <1>2, <3>2, ApartAgain
    <3> QED BY <2>1, <2>2, <2>3, <3>3 DEF Becomes, Alters
  <2>4. CASE kind # "ROUTE_CONTAINER"
    BY <1>2, <2>1, <2>2, <2>4 DEF Becomes, Alters
  <2> QED BY <2>3, <2>4
<1>5. CASE CreateDefault(o)
  <2>1. CASE kind = "CONTROL_SETTINGS"
    <3>1. Becomes(Edited(n, o, DefaultControl))
      BY <1>5, <2>1 DEF CreateDefault, n
    <3>2. DefaultControl \in Fillings(kind) /\ Known(DefaultControl)
      BY <2>1, DefaultsAreKnown
    <3> QED BY <1>2, <1>3, <3>1, <3>2, EditedAlters DEF Sums
  <2>2. CASE kind = "CALIBRATION_SETTINGS"
    <3> DEFINE e == Edited(n, o, DefaultCalibration)
               image == [field |-> DefaultCalibration, crc |-> n.object[o].crc]
    <3>1. Seals(e, o)
      BY <1>5, <2>2 DEF CreateDefault, n
    <3>2. DefaultCalibration \in Fillings(kind)
      BY <2>2, DefaultsAreKnown
    <3>3. image.field \in Fillings(kind) /\ image.crc \in Checksums(kind)
      BY <1>3, <3>2 DEF Checksums
    <3>4. e = Marked(n, o, image)
      BY DEF Edited
    <3> HIDE DEF e, image
    <3>5. Apart(n, e, o) /\ o \in LiveIn(e)
      BY <1>2, <3>3, <3>4, MarkedIsApart
    <3>6. Apart(Memory, e, o)
      BY <1>2, <3>5, ApartAgain
    <3> QED BY <2>2, <3>1, <3>5, <3>6, SealsAlters
  <2> QED BY <1>5, <2>1, <2>2 DEF CreateDefault
<1>6. ASSUME NEW text \in Texts, CreateRoute(o, text)
      PROVE  Alters(o)
  <2> DEFINE s == SetPart(n, o, "route", text)
             e == Edited(s, o, [rest |-> "times"])
             image == [field |-> [rest |-> "times"], crc |-> s.object[o].crc]
  <2>1. kind = "ROUTE_CONTAINER" /\ "route" \in Parts(kind) /\ Seals(e, o) /\ text \in Seq(Bytes)
    BY <1>6, TextsAssumption DEF CreateRoute, Parts, n
  <2>2. Apart(n, s, o) /\ o \in LiveIn(s) /\ Sane(s)
    BY <1>2, <2>1, SetPartIsApart DEF Apart
  <2>3. [rest |-> "times"] \in Fillings(kind)
    BY <2>1, DefaultsAreKnown
  <2> HIDE DEF s
  <2>4. image.field \in Fillings(kind) /\ image.crc \in Checksums(kind)
    BY <2>2, <2>3, RecordsAre DEF Sane
  <2>5. e = Marked(s, o, image)
    BY DEF Edited
  <2> HIDE DEF e, image
  <2>6. Apart(s, e, o) /\ o \in LiveIn(e)
    BY <1>2, <2>2, <2>4, <2>5, MarkedIsApart
  <2>7. Apart(Memory, e, o)
    BY <1>2, <2>2, <2>6, ApartAgain
  <2> QED BY <2>1, <2>6, <2>7, SealsAlters
<1> QED BY <1>4, <1>5, <1>6

(* What the application understands, the board accepts.                    *)
LEMMA UnderstoodIsAccepted ==
  /\ DOMAIN Accepted \subseteq DOMAIN Understood /\ DOMAIN Offered = DOMAIN Understood
  /\ \A f \in Chosen : Understood[f] \subseteq Accepted[f]
<1>1. /\ Chosen = {"uavType", "initialSolverMode", "manualThrottleMode",
                   "stickMovementMode", "batteryType", "errorHandlingAction"}
      /\ DOMAIN Accepted \subseteq DOMAIN Understood /\ DOMAIN Offered = DOMAIN Understood
  BY DEF Accepted, Offered, Understood, Chosen
<1>2. Understood["uavType"] \subseteq Accepted["uavType"]
  BY DEF Accepted, Offered, Understood
<1>3. Understood["initialSolverMode"] \subseteq Accepted["initialSolverMode"]
  BY DEF Accepted, Offered, Understood
<1>4. Understood["manualThrottleMode"] \subseteq Accepted["manualThrottleMode"]
  BY DEF Accepted, Offered, Understood
<1>5. Understood["stickMovementMode"] \subseteq Accepted["stickMovementMode"]
  BY DEF Accepted, Offered, Understood
<1>6. Understood["batteryType"] \subseteq Accepted["batteryType"]
  BY DEF Accepted, Offered, Understood
<1>7. Understood["errorHandlingAction"] \subseteq Accepted["errorHandlingAction"]
  BY DEF Accepted, Offered, Understood
<1> QED BY <1>1, <1>2, <1>3, <1>4, <1>5, <1>6, <1>7

(* Changing a record there is.                                             *)
LEMMA ChangesAlter ==
  ASSUME RecordsInOrder, NEW o \in Objects,
         \/ SetCrc(o)
         \/ \E p \in Parts(kind), text \in Texts : Set(o, p, text)
         \/ \E f \in DOMAIN Offered : Choose(o, f)
         \/ \E f \in DOMAIN Measured : Measure(o, f)
  PROVE  Alters(o)
<1>1. o \in Live /\ o \notin refused
  BY DEF SetCrc, Set, Choose, Measure, InUse
<1>2. /\ kind \in Kinds /\ Sane(Memory) /\ o \in LiveIn(Memory) /\ Apart(Memory, Memory, o)
      /\ Memory.object = object /\ object[o].field \in Fillings(kind)
      /\ object[o].crc \in Checksums(kind)
      /\ kind = "CONTROL_SETTINGS" => Sums(object[o].crc) /\ Known(object[o].field)
  <2>1. kind \in Kinds /\ Sane(Memory) /\ o \in LiveIn(Memory) /\ Apart(Memory, Memory, o)
        /\ Memory.object = object
    BY <1>1, MemoryIsSane
  <2>2. object[o].field \in Fillings(kind) /\ object[o].crc \in Checksums(kind)
    BY <2>1, RecordsAre DEF Sane
  <2> QED BY <1>1, <2>1, <2>2 DEF RecordsInOrder
<1>3. CASE SetCrc(o)
  BY <1>2, <1>3, SealsAlters DEF SetCrc
<1>4. ASSUME NEW p \in Parts(kind), NEW text \in Texts, Set(o, p, text)
      PROVE  Alters(o)
  <2> DEFINE m == SetPart(Memory, o, p, text)
  <2>1. kind # "CONTROL_SETTINGS" /\ Becomes(m)
    BY <1>4 DEF Set
  <2>2. Apart(Memory, m, o)
    BY <1>2, SetPartIsApart, TextsAssumption
  <2> HIDE DEF m
  <2> QED BY <2>1, <2>2 DEF Alters, Becomes
<1>5. ASSUME NEW f \in DOMAIN Offered, Choose(o, f)
      PROVE  Alters(o)
  <2>1. PICK s \in Offered[f] :
           Becomes(IF s \in Understood[f]
                   THEN Edited(Memory, o, [object[o].field EXCEPT ![f] = s]) ELSE Memory)
    BY <1>5 DEF Choose
  <2> DEFINE field == [object[o].field EXCEPT ![f] = s]
  <2>2. CASE s \notin Understood[f]
    <3>1. Holds(Memory) /\ refused' = refused
      BY <2>1, <2>2 DEF Becomes
    <3> QED BY <1>1, <1>2, <3>1 DEF Alters
  <2>3. CASE s \in Understood[f]
    <3>1. kind = "CONTROL_SETTINGS" /\ Settable(kind) = Understood /\ f \in Fields(kind)
      BY <1>5, UnderstoodIsAccepted DEF Choose, Settable, Fields
    <3>2. s \in Values(kind)
      BY <2>3, <3>1, ValuesAre
    <3>3. field \in Fillings(kind)
      BY <1>2, <3>2 DEF Fillings
    <3>4. f \in Chosen => s \in Accepted[f]
      BY <2>3, UnderstoodIsAccepted
    <3>5. Known(field)
      <4>1. \A g \in Chosen : g \in Fields(kind)
        BY <3>1, UnderstoodIsAccepted DEF Fields, Chosen
      <4>2. \A g \in Fields(kind) : field[g] = IF g = f THEN s ELSE object[o].field[g]
        BY <1>2 DEF Fillings
      <4> HIDE DEF field
      <4> QED BY <1>2, <3>1, <3>4, <4>1, <4>2 DEF Known
    <3> HIDE DEF field
    <3>6. Becomes(Edited(Memory, o, field))
      BY <2>1, <2>3 DEF field
    <3> QED BY <1>2, <3>3, <3>5, <3>6, EditedAlters
  <2> QED BY <2>2, <2>3
<1>6. ASSUME NEW f \in DOMAIN Measured, Measure(o, f)
      PROVE  Alters(o)
  <2>1. PICK v \in Measured[f] :
           Becomes(Edited(Memory, o, [object[o].field EXCEPT ![f] = v]))
    BY <1>6 DEF Measure
  <2> DEFINE field == [object[o].field EXCEPT ![f] = v]
  <2>2. kind = "CALIBRATION_SETTINGS" /\ Settable(kind) = Measured /\ f \in Fields(kind)
    BY <1>6 DEF Measure, Settable, Fields
  <2>3. v \in Values(kind)
    BY <2>1, <2>2, ValuesAre
  <2>4. field \in Fillings(kind)
    BY <1>2, <2>3 DEF Fillings
  <2> HIDE DEF field
  <2>5. Becomes(Edited(Memory, o, field))
    BY <2>1 DEF field
  <2> QED BY <1>2, <2>2, <2>4, <2>5, EditedAlters
<1> QED BY <1>3, <1>4, <1>5, <1>6

(* Making a record equal to another.                                       *)
LEMMA CopiesAlter ==
  ASSUME RecordsInOrder, NEW o \in Objects, NEW right \in Objects,
         Clone(o, right) \/ Assign(o, right)
  PROVE  Alters(o) /\ Equals(o, right)'
<1> DEFINE n == IF Clone(o, right) THEN Created(o) ELSE Memory
           m == Assigned(n, o, right)
<1>1. kind \in Kinds /\ Sane(Memory) /\ LiveIn(Memory) = Live /\ Memory.object = object
  BY MemoryIsSane
<1>2. right \in Live /\ right # o
  BY DEF Clone, Assign, InUse
<1>3. Apart(Memory, n, o) /\ o \in LiveIn(n)
  <2>1. CASE Clone(o, right)
    <3>1. n = Created(o) /\ o \notin Live
      BY <2>1 DEF Clone
    <3> HIDE DEF n
    <3> QED BY <1>1, <3>1, CreatedIsApart
  <2>2. CASE ~Clone(o, right)
    <3>1. n = Memory /\ o \in Live
      BY <2>2 DEF Assign
    <3> HIDE DEF n
    <3> QED BY <1>1, <3>1, NothingIsApart
  <2> QED BY <2>1, <2>2
<1>4. /\ Holds(m)
      /\ right \in refused => o \in refused'
      /\ \A q \in Objects \ {o} : q \in refused' <=> q \in refused
  <2>1. CASE Clone(o, right)
    <3>1. Becomes(m) /\ o \notin Live /\ right \notin refused
      BY <2>1 DEF Clone, InUse
    <3>2. refused' = refused
      BY <3>1 DEF Becomes
    <3> QED BY <3>1 DEF Becomes
  <2>2. CASE ~Clone(o, right)
    BY <2>2 DEF Assign
  <2> QED BY <2>1, <2>2
<1> HIDE DEF n
<1>5. Sane(n) /\ right \in LiveIn(n) \ {o}
  BY <1>1, <1>2, <1>3 DEF Apart
<1>6. /\ Apart(n, m, o) /\ o \in LiveIn(m) /\ right \in LiveIn(m)
      /\ Image(m, o) = Image(n, right) /\ Image(m, right) = Image(n, right)
      /\ n.object[right] = object[right]
  BY <1>1, <1>2, <1>3, <1>5, AssignedIsEqual DEF Apart
<1> HIDE DEF m
<1>7. Apart(Memory, m, o) /\ Typed(m) /\ Sane(m)
  BY <1>3, <1>6, ApartAgain DEF Apart, Sane
<1>8. m.object[o].field = object[right].field /\ m.object[o].crc = object[right].crc
  BY <1>6 DEF Image
<1>9. kind = "CONTROL_SETTINGS" =>
         Sums(m.object[o].crc) /\ (o \notin refused' => Known(m.object[o].field))
  BY <1>2, <1>4, <1>8 DEF RecordsInOrder
<1>10. Alters(o)
  BY <1>4, <1>7, <1>9 DEF Alters
<1>11. Equals(o, right)'
  BY <1>1, <1>4, <1>6, <1>7, MemoryIs DEF Equals
<1> QED BY <1>10, <1>11

(* A record from bytes is refused, or has fields the board knows.          *)
LEMMA ParseAlters ==
  ASSUME RecordsInOrder, NEW o \in Objects, Parse(o)
  PROVE  /\ Alters(o) /\ wire \in Images(kind) /\ o \in Live'
         /\ ~TooLong(wire) => Image(Memory, o)' = wire
         /\ TooLong(wire) => /\ "route" \in Parts(kind) /\ object'[o].crc = wire.crc
                             /\ Contents(Memory, o)'.text["route"] = <<>>
<1> DEFINE m == Parsed(Created(o), o, wire)
<1>1. /\ kind \in Kinds /\ Sane(Memory) /\ o \notin Live /\ wire \in Images(kind) /\ wire # None
      /\ Holds(m) /\ refused' = IF Valid(o)' THEN refused ELSE refused \cup {o}
  BY MemoryIsSane DEF RecordsInOrder, Parse
<1>2. /\ Apart(Memory, m, o) /\ o \in LiveIn(m)
      /\ m.object[o].field = wire.field /\ m.object[o].crc = wire.crc
      /\ ~TooLong(wire) => Image(m, o) = wire
      /\ TooLong(wire) => Text(m, o, "route") = <<>>
  BY <1>1, ParsedIs
<1> HIDE DEF m
<1>3. /\ Memory' = m /\ kind' = kind /\ object' = m.object /\ Live' = LiveIn(m)
      /\ \A q : Image(Memory, q)' = Image(m, q)
  BY <1>1, <1>2, MemoryIs DEF Apart, Sane, Holds
<1>4. kind = "CONTROL_SETTINGS" =>
         Sums(m.object[o].crc) /\ (o \notin refused' => Known(m.object[o].field))
  <2> SUFFICES ASSUME kind = "CONTROL_SETTINGS"
               PROVE  Sums(m.object[o].crc) /\ (o \notin refused' => Known(m.object[o].field))
    OBVIOUS
  <2>1. Sums(m.object[o].crc)
    BY <1>1, <1>2 DEF RecordsInOrder
  <2>2. ASSUME o \notin refused'
        PROVE  Known(m.object[o].field)
    <3>1. Valid(o)'
      BY <1>1, <2>2
    <3>2. Judged(kind)' = Accepted
      BY <1>3 DEF Judged
    <3>3. \A f \in DOMAIN Accepted : m.object[o].field[f] \in Accepted[f]
      BY <1>3, <3>1, <3>2 DEF Valid
    <3> QED BY <3>3 DEF Known, Chosen
  <2> QED BY <2>1, <2>2
<1>5. \A q \in Objects \ {o} : q \in refused' <=> q \in refused
  BY <1>1
<1>6. Alters(o)
  BY <1>1, <1>2, <1>4, <1>5 DEF Alters
<1>7. ASSUME TooLong(wire)
      PROVE  /\ "route" \in Parts(kind) /\ object'[o].crc = wire.crc
             /\ Contents(Memory, o)'.text["route"] = <<>>
  <2>1. "route" \in Parts(kind)
    BY <1>7 DEF TooLong, Parts
  <2>2. Contents(Memory, o)' = Contents(m, o)
    BY <1>3 DEF Contents, Text
  <2>3. Contents(m, o).text["route"] = Text(m, o, "route")
    BY <2>1 DEF Contents
  <2> QED BY <1>2, <1>3, <1>7, <2>1, <2>2, <2>3
<1> QED BY <1>1, <1>2, <1>3, <1>6, <1>7

LEMMA DestroyAlters ==
  ASSUME RecordsInOrder, NEW o \in Objects, Destroy(o)
  PROVE  Alters(o)
<1>1. o \in Live /\ Holds(Destroyed(o)) /\ refused' = refused \ {o}
  BY DEF Destroy
<1>2. kind \in Kinds /\ Sane(Memory)
  BY MemoryIsSane
<1>3. Apart(Memory, Destroyed(o), o) /\ o \notin LiveIn(Destroyed(o))
  BY <1>1, <1>2, DestroyedIsApart
<1> QED BY <1>1, <1>3 DEF Alters

(* Sending a record, and what happens to it on the way.                    *)
LEMMA WireKeeps ==
  ASSUME RecordsInOrder, Damage \/ \E o \in Objects : Serialize(o)
  PROVE  /\ RecordsInOrder'
         /\ \A q \in Live : q \in Live' /\ Image(Memory, q)' = Image(Memory, q)
<1>1. kind' = kind /\ object' = object /\ heap' = heap /\ refused' = refused
  BY DEF Damage, Serialize
<1>2. /\ Memory' = Memory /\ Live' = Live /\ Sane(Memory)' = Sane(Memory)
      /\ \A q : Image(Memory, q)' = Image(Memory, q)
  BY <1>1 DEF Memory, Live, Sane, Typed, Pointed, Alone, Reached, LiveIn, Records, Fillings, Values,
              Checksums, Writings, Fields, Settable, Parts, Image, Text
<1>3. Images(kind)' = Images(kind) /\ Kinds' = Kinds
  BY <1>1 DEF Images, Fillings, Values, Checksums, Writings, Fields, Settable, Parts
<1>4. /\ wire' \in Images(kind)
      /\ kind = "CONTROL_SETTINGS" => Sums(wire'.crc)
  <2>1. ASSUME NEW o \in Objects, Serialize(o)
        PROVE  wire' \in Images(kind) /\ (kind = "CONTROL_SETTINGS" => Sums(wire'.crc))
    <3>1. wire' = Image(Memory, o) /\ o \in Live
      BY <2>1 DEF Serialize, InUse
    <3>2. Typed(Memory) /\ Pointed(Memory) /\ o \in LiveIn(Memory) /\ Memory.object = object
      BY <3>1, MemoryIsSane DEF Sane
    <3>3. wire' \in Images(kind) /\ wire'.crc = object[o].crc
      BY <3>1, <3>2, ImageIs
    <3> QED BY <3>1, <3>3 DEF RecordsInOrder
  <2>2. ASSUME Damage
        PROVE  wire' \in Images(kind) /\ (kind = "CONTROL_SETTINGS" => Sums(wire'.crc))
    <3>1. wire \in Images(kind) /\ (kind = "CONTROL_SETTINGS" => Sums(wire.crc))
      BY <2>2 DEF Damage, RecordsInOrder
    <3>2. ASSUME NEW p \in Parts(kind), NEW t \in Texts, wire' = [wire EXCEPT !.text[p] = t]
          PROVE  wire' \in Images(kind) /\ wire'.crc = wire.crc
      BY <3>1, <3>2, TextsAssumption DEF Images, Writings
    <3>3. ASSUME NEW f \in Fields(kind), NEW v \in Settable(kind)[f],
                 wire' = [wire EXCEPT !.field[f] = v]
          PROVE  wire' \in Images(kind) /\ wire'.crc = wire.crc
      <4>1. v \in Values(kind)
        BY <3>3, ValuesAre
      <4> QED BY <3>1, <3>3, <4>1 DEF Images, Fillings
    <3> QED BY <2>2, <3>1, <3>2, <3>3 DEF Damage
  <2> QED BY <2>1, <2>2
<1>5. RecordsInOrder'
  BY <1>1, <1>2, <1>3, <1>4 DEF RecordsInOrder, Sums, Known
<1> QED BY <1>2, <1>5

(* A call alters one record, or none.                                      *)
LEMMA NextAlters ==
  ASSUME RecordsInOrder, Next
  PROVE  Damage \/ (\E o \in Objects : Serialize(o)) \/ (\E o \in Objects : Alters(o))
<1>1. CASE Damage
  BY <1>1
<1>2. ASSUME NEW o \in Objects,
             Create(o) \/ CreateDefault(o) \/ \E text \in Texts : CreateRoute(o, text)
      PROVE  Alters(o)
  BY <1>2, CreationsAlter
<1>3. ASSUME NEW o \in Objects,
             \/ SetCrc(o)
             \/ \E p \in Parts(kind), text \in Texts : Set(o, p, text)
             \/ \E f \in DOMAIN Offered : Choose(o, f)
             \/ \E f \in DOMAIN Measured : Measure(o, f)
      PROVE  Alters(o)
  BY <1>3, ChangesAlter
<1>4. ASSUME NEW o \in Objects, NEW right \in Objects, Clone(o, right) \/ Assign(o, right)
      PROVE  Alters(o)
  BY <1>4, CopiesAlter
<1>5. ASSUME NEW o \in Objects, Parse(o) \/ Destroy(o)
      PROVE  Alters(o)
  BY <1>5, ParseAlters, DestroyAlters
<1> QED BY <1>1, <1>2, <1>3, <1>4, <1>5 DEF Next

LEMMA RecordsAreInOrder == Spec => []RecordsInOrder
<1>1. Init => RecordsInOrder
  <2> SUFFICES ASSUME Init PROVE RecordsInOrder
    OBVIOUS
  <2>1. LiveIn(Memory) = {} /\ Live = {}
    BY DEF Init, LiveIn, Live, Memory
  <2>2. Typed(Memory)
    BY DEF Init, Typed, Memory
  <2>3. \A b \in Blocks : Memory.heap[b] = None
    BY DEF Init, Memory
  <2>4. Sane(Memory)
    BY <2>1, <2>2, <2>3 DEF Sane, Pointed, Alone, Reached
  <2> QED BY <2>1, <2>4 DEF Init, RecordsInOrder
<1>2. ASSUME RecordsInOrder, [Next]_vars
      PROVE  RecordsInOrder'
  <2>1. CASE Next
    BY <1>2, <2>1, NextAlters, AltersKeeps, WireKeeps
  <2>2. CASE UNCHANGED vars
    <3>1. /\ kind' = kind /\ object' = object /\ heap' = heap /\ wire' = wire
          /\ refused' = refused
      BY <2>2 DEF vars
    <3>2. Memory' = Memory /\ Live' = Live /\ Sane(Memory)' = Sane(Memory)
      BY <3>1 DEF Memory, Live, Sane, Typed, Pointed, Alone, Reached, LiveIn, Records, Fillings,
                  Values, Checksums, Writings, Fields, Settable, Parts
    <3>3. Images(kind)' = Images(kind) /\ Kinds' = Kinds
      BY <3>1 DEF Images, Fillings, Values, Checksums, Writings, Fields, Settable, Parts
    <3> QED BY <1>2, <3>1, <3>2, <3>3 DEF RecordsInOrder, Sums, Known
  <2> QED BY <1>2, <2>1, <2>2
<1> QED BY <1>1, <1>2, PTL DEF Spec
-----------------------------------------------------------------------------
(***************************************************************************)
(* The theorems.                                                           *)
(***************************************************************************)
(* However records are constructed, copied, assigned, edited, received and *)
(* destroyed, each block of the heap in use is one part of one record, and *)
(* no record points to a block that is free: operator=, the setters and    *)
(* the destructors of RouteContainer and WifiConfiguration.                *)
THEOREM BlocksAreAlwaysOwned == Spec => []BlocksAreOwned
<1>1. ASSUME RecordsInOrder
      PROVE  BlocksAreOwned
  <2> SUFFICES ASSUME NEW b \in Blocks
               PROVE  IF heap[b] = None THEN Owners(b) = {}
                      ELSE \E w \in Owners(b) :
                              Owners(b) = {w} /\ object[w[1]].size[w[2]] = Len(heap[b])
    BY DEF BlocksAreOwned
  <2>1. /\ Pointed(Memory) /\ Alone(Memory) /\ Reached(Memory) /\ LiveIn(Memory) = Live
        /\ Memory.object = object /\ Memory.heap = heap /\ b # None
    BY <1>1, MemoryIsSane, NoneAssumption DEF Sane, Memory
  <2>2. \A o \in Live, p \in Parts(kind) :
           object[o].block[p] = b => heap[b] # None /\ object[o].size[p] = Len(heap[b])
    BY <2>1 DEF Pointed
  <2>3. CASE heap[b] = None
    BY <2>2, <2>3 DEF Owners
  <2>4. CASE heap[b] # None
    <3>1. PICK o \in Live, p \in Parts(kind) : object[o].block[p] = b
      BY <2>1, <2>4 DEF Reached
    <3>2. \A q \in Live, r \in Parts(kind) : object[q].block[r] = b => q = o /\ r = p
      BY <2>1, <3>1 DEF Alone
    <3>3. <<o, p>> \in Owners(b) /\ \A w \in Owners(b) : w = <<o, p>>
      BY <3>1, <3>2 DEF Owners
    <3> QED BY <2>2, <2>4, <3>1, <3>3
  <2> QED BY <2>3, <2>4
<1> QED BY <1>1, RecordsAreInOrder, PTL

(* Settings edited with what the application is offered (ControlSettings's *)
(* getUavTypes and its like; what getUavType does not understand throws)   *)
(* are valid, once every field is set and the checksum computed, if and    *)
(* only if the rate of descent is not negative, whatever else was received *)
(* and damaged meanwhile.                                                  *)
THEOREM SettingsAreAlwaysAccepted == Spec => []SettingsAreAccepted
<1>1. ASSUME RecordsInOrder
      PROVE  SettingsAreAccepted
  <2> SUFFICES ASSUME kind = "CONTROL_SETTINGS", NEW o \in Live,
                      object[o].crc = Contents(Memory, o),
                      \A f \in Fields(kind) : object[o].field[f] # Unset
               PROVE  Valid(o) <=> object[o].field.autoLandingDescedRate = "down"
    BY DEF SettingsAreAccepted
  <2>1. Typed(Memory) /\ Pointed(Memory) /\ o \in LiveIn(Memory) /\ Memory.object = object
    BY <1>1, MemoryIsSane DEF Sane
  <2>2. Contents(Memory, o) \in [field : Fillings(kind), text : Writings(kind)]
    <3>1. /\ object[o].field \in Fillings(kind)
          /\ [p \in Parts(kind) |-> Text(Memory, o, p)] \in Writings(kind)
      BY <2>1, RecordsAre, TextIs DEF Writings
    <3> QED BY <2>1, <3>1 DEF Contents
  <2>3. object[o].crc # Unset /\ object[o].crc.field = object[o].field
    BY <1>1, <2>1, <2>2, UnsetAssumption DEF RecordsInOrder, Contents
  <2>4. Known(object[o].field)
    BY <1>1, <2>3 DEF RecordsInOrder, Sums
  <2>5. Parts(kind) = {} /\ Judged(kind) = Accepted /\ DOMAIN Accepted \subseteq Fields(kind)
    BY UnderstoodIsAccepted DEF Parts, Judged, Fields, Settable
  <2>6. /\ "autoLandingDescedRate" \in DOMAIN Accepted
        /\ Accepted["autoLandingDescedRate"] = {"down"}
    BY DEF Accepted
  <2>7. \A f \in Chosen : object[o].field[f] \in Accepted[f]
    BY <2>4, <2>5 DEF Known, Chosen
  <2>8. (\A f \in DOMAIN Accepted : object[o].field[f] \in Accepted[f])
           <=> object[o].field["autoLandingDescedRate"] = "down"
    BY <2>6, <2>7 DEF Chosen
  <2> QED BY <2>5, <2>8 DEF Valid, Filled
<1> QED BY <1>1, RecordsAreInOrder, PTL

(* A copy (clone, operator=) equals its original, checksum included, and   *)
(* no call changes what another record than its own holds.                 *)
THEOREM CopiesAlwaysStandAlone == Spec => CopiesStandAlone
<1>1. ASSUME RecordsInOrder, [Next]_vars
      PROVE  [\E o \in Objects :
                /\ \A q \in Live \ {o} : q \in Live' /\ Image(Memory, q)' = Image(Memory, q)
                /\ \A right \in Live :
                      Clone(o, right) \/ Assign(o, right) => Equals(o, right)']_vars
  <2>1. \A o \in Objects : \A right \in Live :
           Clone(o, right) \/ Assign(o, right) => Equals(o, right)'
    BY <1>1, CopiesAlter DEF Live
  <2>2. CASE Next
    <3>1. \E o \in Objects :
             \A q \in Live \ {o} : q \in Live' /\ Image(Memory, q)' = Image(Memory, q)
      BY <1>1, <2>2, NextAlters, AltersKeeps, WireKeeps, HeapAssumption
    <3> QED BY <2>1, <3>1
  <2>3. CASE UNCHANGED vars
    BY <2>3
  <2> QED BY <1>1, <2>2, <2>3
<1> QED BY <1>1, RecordsAreInOrder, PTL DEF Spec, CopiesStandAlone

(* A record is received as it was sent, or damaged; a route longer than    *)
(* the board takes becomes one that isValid refuses, because its checksum  *)
(* is that of the waypoints it lost: RouteContainer's constructor.         *)
THEOREM RecordsArriveOrAreRefused == Spec => ArrivesOrIsRefused
<1>1. ASSUME RecordsInOrder, NEW o \in Objects, Parse(o)
      PROVE  IF Fits(wire.text) THEN Image(Memory, o)' = wire
             ELSE wire.crc = [field |-> wire.field, text |-> wire.text] => ~Valid(o)'
  <2>1. /\ wire \in Images(kind) /\ kind \in Kinds
        /\ ~TooLong(wire) => Image(Memory, o)' = wire
        /\ TooLong(wire) => /\ "route" \in Parts(kind) /\ object'[o].crc = wire.crc
                            /\ Contents(Memory, o)'.text["route"] = <<>>
    BY <1>1, ParseAlters DEF RecordsInOrder
  <2>2. wire.text \in [Parts(kind) -> Seq(Bytes)]
    BY <2>1 DEF Images, Writings
  <2>3. "route" \in Parts(kind) <=> kind = "ROUTE_CONTAINER"
    BY <2>1, StringsAssumption DEF Parts, Kinds
  <2>4. "route" \in Parts(kind) => Len(wire.text["route"]) \in Nat
    BY <2>2, LenProperties
  <2>5. Fits(wire.text) <=> ~TooLong(wire)
    BY <2>2, <2>3, <2>4, SizeAssumption DEF Fits, TooLong
  <2>6. ASSUME TooLong(wire), wire.crc = [field |-> wire.field, text |-> wire.text], Valid(o)'
        PROVE  FALSE
    <3>1. wire.crc = Contents(Memory, o)'
      BY <2>1, <2>6 DEF Valid
    <3>2. wire.text["route"] = <<>>
      BY <2>1, <2>6, <3>1
    <3>3. Len(wire.text["route"]) > MaxRouteSize
      BY <2>6 DEF TooLong
    <3> QED BY <3>2, <3>3, SizeAssumption
  <2> QED BY <2>1, <2>5, <2>6
<1>2. RecordsInOrder /\ [Next]_vars =>
         [\A o \in Objects : Parse(o) =>
             IF Fits(wire.text) THEN Image(Memory, o)' = wire
             ELSE wire.crc = [field |-> wire.field, text |-> wire.text] => ~Valid(o)']_vars
  BY <1>1
<1> QED BY <1>2, RecordsAreInOrder, PTL DEF Spec, ArrivesOrIsRefused
===============================================================================
