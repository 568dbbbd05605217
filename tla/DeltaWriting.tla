---------------------------- MODULE DeltaWriting ----------------------------
(***************************************************************************)
(* A delta on its way to a catalog: a publisher writes its operations on   *)
(* the wire, one track after the other, and code may add tracks to what    *)
(* was decoded before it applies the delta or encodes it again             *)
(* (catalog_delta.go:11-21).                                               *)
(***************************************************************************)
EXTENDS CatalogDelta

CONSTANTS
    Strings,            \* of the fields of tracks
    Bases,              \* the catalogs a delta is applied to
    Items,              \* Items[kind]: what a track of an operation of that kind may be
    DefaultNamespaces   \* what the delta's may be

Tracks == [namespace : Strings, name : Strings, packaging : Strings, isLive : Strings, label : Strings,
           present : SUBSET Fields]
TrackRefs == [namespace : Strings, name : Strings]
TrackClones == [track : Tracks, parentNamespace : Strings, parentName : Strings]
TracksOf == [add |-> Tracks, remove |-> TrackRefs, clone |-> TrackClones]

ASSUME StringsAssumption == Unset \in Strings
ASSUME BasesAssumption == Bases \subseteq [defaultNamespace : Strings, tracks : Seq(Tracks)]
ASSUME ItemsAssumption == \A kind \in Kinds : Items[kind] \subseteq TracksOf[kind]
(* inheritedNamespaceSentinel, which starts with a NUL, is not the         *)
(* namespace of anything.                                                  *)
ASSUME DefaultNamespacesAssumption == DefaultNamespaces \subseteq Strings \ {Inherited}

VARIABLES
    base,   \* the catalog
    wire,   \* the operations written, each with its tracks
    coded   \* coded[kind]: what code adds to the decoded delta

DeltaInit == base \in Bases /\ wire = <<>> /\ coded = [k \in Kinds |-> <<>>]

WriteOperation(kind) ==
    /\ coded = [k \in Kinds |-> <<>>]
    /\ wire' = Append(wire, [op |-> kind, tracks |-> <<>>])
    /\ UNCHANGED <<base, coded>>

(* The last operation has one more track. *)
WriteTrack(t) ==
    /\ coded = [k \in Kinds |-> <<>>] /\ wire # <<>>
    /\ t \in Items[wire[Len(wire)].op]
    /\ wire' = [wire EXCEPT ![Len(wire)].tracks = Append(@, t)]
    /\ UNCHANGED <<base, coded>>

ExtendInCode(kind, t) ==
    /\ coded' = [coded EXCEPT ![kind] = Append(@, t)]
    /\ UNCHANGED <<base, wire>>

DeltaNext ==
    \E kind \in Kinds :
        \/ WriteOperation(kind)
        \/ \E t \in Items[kind] : WriteTrack(t) \/ ExtendInCode(kind, t)

DeltaSpec == DeltaInit /\ [][DeltaNext]_<<base, wire, coded>>

-----------------------------------------------------------------------------
Decoded == LET d == decodeDeltaOps(wire) IN [d EXCEPT !.tracks = [k \in Kinds |-> d.tracks[k] \o coded[k]]]

(* The operations in their declared order, and then what code holds beyond *)
(* them, "in add, remove, clone order" (catalog_delta.go:15-21).           *)
Declared ==
    LET later(kind) == [op |-> kind, tracks |-> coded[kind]] IN
    InOrder(wire \o <<later("add"), later("remove"), later("clone")>>)

Accepted(c, items) ==
    /\ Validate(c) /\ items # <<>>
    /\ \A i \in DOMAIN items : items[i].kind = "add" => validate(items[i].track)
    /\ \A i \in DOMAIN items : items[i].kind = "clone" => items[i].track.track.name # Unset

Plain(c) == [i \in DOMAIN c.tracks |-> [c.tracks[i] EXCEPT !.present = {}]]

(* A field a clone clears, by giving it empty, is not written again: see   *)
(* the README.                                                             *)
NothingCleared ==
    \A i \in DOMAIN Declared : Declared[i].kind = "clone" =>
        Declared[i].track.track.present \subseteq {f \in Fields : Declared[i].track.track[f] # Unset}

(* "interleaved operations (e.g. remove,add,remove of the same track)      *)
(* apply and re-encode in their declared order" (catalog_delta.go:17-19):  *)
(* a delta does what its operations do one after the other, all of them or *)
(* none, leaves valid tracks of different identities, changes no identity  *)
(* with the default namespace, and does the same encoded and decoded.      *)
DeltaAppliesAsWritten(ns) ==
    LET d == [Decoded EXCEPT !.defaultNamespace = ns]
        r == ApplyDelta(base, d)
        default == IF ns = Unset THEN base.defaultNamespace ELSE ns
        kept == \A i \in DOMAIN base.tracks :
                    ID(base.tracks[i], default) = ID(base.tracks[i], base.defaultNamespace)
        meant == {f \in Meaning([base EXCEPT !.defaultNamespace = default], default, Declared) :
                    \A id \in DOMAIN f : validate(f[id])}
        again == ApplyDelta(base, [decodeDeltaOps(MarshalDelta(d)) EXCEPT !.defaultNamespace = ns])
    IN /\ r.err <=> ~(Accepted(base, Declared) /\ kept /\ meant # {})
       /\ ~r.err => Validate(r.catalog) /\ meant = {ByIdentity(r.catalog)}
       /\ NothingCleared => (again.err <=> r.err) /\ Plain(again.catalog) = Plain(r.catalog)

DeltasApplyAsWritten == \A ns \in DefaultNamespaces : DeltaAppliesAsWritten(ns)
=============================================================================
