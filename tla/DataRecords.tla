----------------------------- MODULE DataRecords -----------------------------
(***************************************************************************)
(* The records the application keeps, edits, copies, sends and receives.   *)
(* ControlSettings and CalibrationSettings hold all they have; a           *)
(* RouteContainer owns its waypoints and a WifiConfiguration its strings,  *)
(* in blocks of the heap that constructors, setters, operator= and         *)
(* destructors allocate and free.  One behaviour follows records of one    *)
(* kind.                                                                   *)
(*                                                                         *)
(* A checksum stands for the contents it was computed from.  A record no   *)
(* setter has filled is neither copied nor sent, nor is one assigned to    *)
(* itself: nothing in the repository does either.  One that arrives not    *)
(* valid is thrown away or replaced by another: its receiver neither edits *)
(* nor sends it.                                                           *)
(***************************************************************************)
EXTENDS RecordClasses, Naturals

CONSTANTS
  Objects,     \* places a record may be in
  Blocks,      \* blocks of the heap
  Bytes,       \* bytes of a string, waypoints of a route
  Texts,       \* sequences a string or a route may be given
  MaxCalls,    \* bound, of each kind: calls that create, change or send a record
  None         \* no object, no block, nothing on the wire

(* The values records are made of.                                         *)
Values(k)    == UNION {Settable(k)[f] : f \in Fields(k)}
Fillings(k)  == [Fields(k) -> Values(k) \cup {Unset}]
Writings(k)  == [Parts(k) -> Seq(Bytes)]
Checksums(k) == [field : Fillings(k), text : Writings(k)] \cup {Unset}
Images(k)    == [field : Fillings(k), text : Writings(k), crc : Checksums(k)]
Records(k)   == [field : Fillings(k), crc : Checksums(k),
                 size  : [Parts(k) -> Nat \cup {Unset}],
                 block : [Parts(k) -> Blocks \cup {None}]]

ASSUME TextsAssumption == Texts \subseteq Seq(Bytes)

ASSUME SizeAssumption == MaxRouteSize \in Nat

(* The heap has room for the records there are.                            *)
ASSUME HeapAssumption ==
    /\ IsFiniteSet(Objects) /\ Objects # {} /\ IsFiniteSet(Blocks)
    /\ \A k \in Kinds : Cardinality(Objects) * Cardinality(Parts(k)) <= Cardinality(Blocks)

(* Nothing is something, and what was never set is told from what was.     *)
ASSUME NoneAssumption ==
    /\ None \notin Blocks \cup Seq(Bytes)
    /\ \A k \in Kinds : None \notin Records(k) \cup Images(k)

ASSUME UnsetAssumption ==
    /\ Unset \notin Nat
    /\ \A k \in Kinds : Unset \notin Values(k) \cup [field : Fillings(k), text : Writings(k)]

VARIABLES
  kind,     \* the class the behaviour is about
  object,   \* the records there are: fields, sizes, blocks and checksum
  heap,     \* what each block holds, None when it is free
  wire,     \* the record last serialised, as it arrives
  refused,  \* records that arrived not valid, and what was assigned them
  calls     \* calls so far

vars == <<kind, object, heap, wire, refused, calls>>

Live == {o \in Objects : object[o] # None}
-----------------------------------------------------------------------------
(***************************************************************************)
(* A record and the memory it stands on: m is [object, heap].              *)
(***************************************************************************)
Blank == [field |-> [f \in Fields(kind) |-> Unset],
          size  |-> [p \in Parts(kind) |-> Unset],
          block |-> [p \in Parts(kind) |-> None],
          crc   |-> Unset]

(* What is read where a part should be; it is not the part when the block  *)
(* was freed or is too short.                                              *)
Text(m, o, p) ==
    LET b == m.object[o].block[p]
        n == m.object[o].size[p]
    IN IF b = None THEN <<>>
       ELSE IF m.heap[b] = None \/ Len(m.heap[b]) < n THEN <<Unset>>
       ELSE SubSeq(m.heap[b], 1, n)

Contents(m, o) == [field |-> m.object[o].field,
                   text  |-> [p \in Parts(kind) |-> Text(m, o, p)]]

(* serialize.                                                              *)
Image(m, o) == [field |-> m.object[o].field, crc |-> m.object[o].crc,
                text  |-> [p \in Parts(kind) |-> Text(m, o, p)]]

Memory == [object |-> object, heap |-> heap]

Release(m, b) == IF b = None THEN m ELSE [m EXCEPT !.heap[b] = None]

Free(m) == CHOOSE b \in Blocks : m.heap[b] = None

(* setRouterName and its like: the old block goes, the text is copied into *)
(* a new one.                                                              *)
SetPart_Leaks(m, o, p, text) ==  \* mutant: the old block is not deleted
    LET b == Free(m)
    IN [object |-> [m.object EXCEPT ![o].block[p] = b, ![o].size[p] = Len(text)],
        heap   |-> [m.heap EXCEPT ![b] = text]]
SetPart(m, o, p, text) ==
    LET released == Release(m, m.object[o].block[p])
        b == Free(released)
    IN [object |-> [m.object EXCEPT ![o].block[p] = b, ![o].size[p] = Len(text)],
        heap   |-> [released.heap EXCEPT ![b] = text]]

SetIf(m, o, p, text) == IF p \in DOMAIN text THEN SetPart(m, o, p, text[p]) ELSE m

SetParts(m, o, text) ==
    LET routed   == SetIf(m, o, "route", text)
        named    == SetIf(routed, o, "routerName", text)
        guarded  == SetIf(named, o, "routerPassword", text)
        directed == SetIf(guarded, o, "routerIp", text)
    IN SetIf(directed, o, "clientIp", text)

Marked(m, o, image) ==
    [object |-> [m.object EXCEPT ![o].field = image.field, ![o].crc = image.crc],
     heap   |-> m.heap]

Edited(m, o, field) == Marked(m, o, [field |-> field, crc |-> m.object[o].crc])

(* operator=.                                                              *)
Assigned_Shares(m, o, right) ==  \* mutant: the pointers are copied
    [m EXCEPT !.object[o] = m.object[right]]
Assigned(m, o, right) ==
    LET image == Image(m, right) IN Marked(SetParts(m, o, image.text), o, image)

(* A route without waypoints.                                              *)
Emptied(m, o) == [object |-> [m.object EXCEPT ![o].size["route"] = 0], heap |-> m.heap]

(* The constructor from bytes: a route that is too long becomes an empty   *)
(* one, and keeps the checksum it came with.                               *)
TooLong_Same(image) ==           \* mutant: < for <=
    kind = "ROUTE_CONTAINER" /\ Len(image.text["route"]) >= MaxRouteSize
TooLong(image) == kind = "ROUTE_CONTAINER" /\ Len(image.text["route"]) > MaxRouteSize

Parsed(m, o, image) ==
    IF TooLong(image) THEN Marked(Emptied(m, o), o, image)
    ELSE Marked(SetParts(m, o, image.text), o, image)

Created(o) == [object |-> [object EXCEPT ![o] = Blank], heap |-> heap]

Filled(o) == \A p \in Parts(kind) : object[o].size[p] # Unset

(* isValid.                                                                *)
Valid(o) ==
    /\ Filled(o) /\ object[o].crc = Contents(Memory, o)
    /\ \A f \in DOMAIN Judged(kind) : object[o].field[f] \in Judged(kind)[f]

(* operator==.                                                             *)
Equals(o, right) == Image(Memory, o) = Image(Memory, right)
-----------------------------------------------------------------------------
Init ==
    /\ kind \in Kinds
    /\ object = [o \in Objects |-> None] /\ heap = [b \in Blocks |-> None]
    /\ wire = None /\ refused = {} /\ calls = 0

Called == calls < MaxCalls[kind] /\ calls' = calls + 1

Holds(m) == object' = m.object /\ heap' = m.heap /\ UNCHANGED <<kind, wire>>

Becomes(m) == Called /\ Holds(m) /\ UNCHANGED refused

InUse(o) == o \in Live \ refused

Seals(m, o) ==
    Becomes(Marked(m, o, [field |-> m.object[o].field, crc |-> Contents(m, o)]))

(* The constructor without arguments; a new route has no waypoints.  That  *)
(* of settings is called by createDefault alone, and before a reception    *)
(* that replaces what it made.                                             *)
Create(o) ==
    /\ o \notin Live /\ Parts(kind) # {}
    /\ Becomes(IF kind = "ROUTE_CONTAINER" THEN Emptied(Created(o), o) ELSE Created(o))

(* createDefault: only calibration settings come with their checksum.      *)
CreateDefault(o) ==
    /\ o \notin Live
    /\ \/ /\ kind = "CONTROL_SETTINGS"
          /\ Becomes(Edited(Created(o), o, DefaultControl))
       \/ /\ kind = "CALIBRATION_SETTINGS"
          /\ Seals(Edited(Created(o), o, DefaultCalibration), o)

(* A route is made from any number of waypoints.                           *)
CreateRoute(o, text) ==
    /\ kind = "ROUTE_CONTAINER" /\ o \notin Live
    /\ Seals(Edited(SetPart(Created(o), o, "route", text), o, [rest |-> "times"]), o)

Clone(o, right) ==
    /\ o \notin Live /\ InUse(right) /\ Filled(right)
    /\ Becomes(Assigned(Created(o), o, right))

Assign(o, right) ==
    /\ o \in Live /\ right \in Live \ {o} /\ Filled(right)
    /\ Called /\ Holds(Assigned(Memory, o, right))
    /\ refused' = IF right \in refused THEN refused \cup {o} ELSE refused \ {o}

Set(o, p, text) ==
    /\ kind = "WIFI_CONFIGURATION" /\ InUse(o)
    /\ Becomes(SetPart(Memory, o, p, text))

(* A string nobody understands throws, and leaves the settings as they     *)
(* were.                                                                   *)
Choose(o, f) ==
    /\ kind = "CONTROL_SETTINGS" /\ InUse(o)
    /\ \E s \in Offered[f] :
           Becomes(IF s \in Understood[f]
                   THEN Edited(Memory, o, [object[o].field EXCEPT ![f] = s]) ELSE Memory)

Measure(o, f) ==
    /\ kind = "CALIBRATION_SETTINGS" /\ InUse(o)
    /\ \E v \in Measured[f] :
           Becomes(Edited(Memory, o, [object[o].field EXCEPT ![f] = v]))

SetCrc(o) == InUse(o) /\ Filled(o) /\ Seals(Memory, o)

Destroyed(o) ==
    [object |-> [object EXCEPT ![o] = None],
     heap   |-> [b \in Blocks |-> IF \E p \in Parts(kind) : object[o].block[p] = b
                                 THEN None ELSE heap[b]]]

Destroy(o) ==
    /\ o \in Live /\ Called /\ Holds(Destroyed(o))
    /\ refused' = refused \ {o}

Serialize(o) ==
    /\ InUse(o) /\ Filled(o) /\ Called
    /\ wire' = Image(Memory, o)
    /\ UNCHANGED <<kind, object, heap, refused>>

Parse(o) ==
    /\ o \notin Live /\ wire # None
    /\ Called /\ Holds(Parsed(Created(o), o, wire))
    /\ refused' = IF Valid(o)' THEN refused ELSE refused \cup {o}

(* A part or a field of the record on the wire arrives as another.         *)
Damage ==
    /\ wire # None /\ Called
    /\ \/ \E p \in Parts(kind), t \in Texts : wire' = [wire EXCEPT !.text[p] = t]
       \/ \E f \in Fields(kind) :
              \E v \in Settable(kind)[f] : wire' = [wire EXCEPT !.field[f] = v]
    /\ UNCHANGED <<kind, object, heap, refused>>

Next ==
    \/ \E o \in Objects :
        \/ Create(o) \/ CreateDefault(o) \/ SetCrc(o) \/ Destroy(o) \/ Serialize(o) \/ Parse(o)
        \/ \E right \in Objects : Clone(o, right) \/ Assign(o, right)
        \/ \E text \in Texts : CreateRoute(o, text)
        \/ \E p \in Parts(kind), text \in Texts : Set(o, p, text)
        \/ \E f \in DOMAIN Offered : Choose(o, f)
        \/ \E f \in DOMAIN Measured : Measure(o, f)
    \/ Damage

Spec == Init /\ [][Next]_vars
-----------------------------------------------------------------------------
(***************************************************************************)
(* Properties.                                                             *)
(***************************************************************************)
(* Every block in use belongs to one part of one record, which knows its   *)
(* size, and no record points to a block that was freed: whatever is       *)
(* constructed, copied, assigned, edited and destroyed, nothing is freed   *)
(* twice, shared or lost.                                                  *)
Owners(b) == {w \in Live \X Parts(kind) : object[w[1]].block[w[2]] = b}

BlocksAreOwned ==
    \A b \in Blocks :
        IF heap[b] = None THEN Owners(b) = {}
        ELSE \E w \in Owners(b) :
                /\ Owners(b) = {w} /\ object[w[1]].size[w[2]] = Len(heap[b])

(* A copy equals its original, checksum included, and then stands alone:   *)
(* no call changes what another record holds, whether that was copied,     *)
(* assigned, edited or destroyed.                                          *)
CopiesStandAlone ==
    [][\E o \in Objects :
           /\ \A q \in Live \ {o} : q \in Live' /\ Image(Memory, q)' = Image(Memory, q)
           /\ \A right \in Live : Clone(o, right) \/ Assign(o, right) => Equals(o, right)']_vars

(* Whatever the application is offered for its settings, once every field  *)
(* is set and the checksum is computed the board refuses them for one      *)
(* reason only: the rate of descent, which nobody checks when it is set.   *)
(* What was offered and not understood, or damaged on the way, never gets  *)
(* so far.                                                                 *)
SettingsAreAccepted ==
    kind = "CONTROL_SETTINGS" =>
        \A o \in Live :
            /\ object[o].crc = Contents(Memory, o)
            /\ \A f \in Fields(kind) : object[o].field[f] # Unset
            => (Valid(o) <=> object[o].field.autoLandingDescedRate = "down")

(* A record arrives as it was sent; a route too long for the board arrives *)
(* as one that is not valid.                                               *)
Fits(text) == "route" \in DOMAIN text => Len(text["route"]) <= MaxRouteSize

ArrivesOrIsRefused ==
    [][\A o \in Objects : Parse(o) =>
           IF Fits(wire.text) THEN Image(Memory, o)' = wire
           ELSE wire.crc = [field |-> wire.field, text |-> wire.text]
                    => ~Valid(o)']_vars
=============================================================================
