---------------------------- MODULE CatalogDelta ----------------------------
(***************************************************************************)
(* msf/catalog.go and catalog_delta.go: what a delta does to a catalog,    *)
(* and what decoding and encoding do to the order of its operations.  Of a *)
(* track's fields the model keeps its identity, one that has a rule of its *)
(* own with the packaging (isLive) and one that stands for all the others. *)
(* A Go call that returns a catalog and an error returns Ok or Failed.     *)
(***************************************************************************)
EXTENDS Integers, Sequences, FiniteSets

Lists == INSTANCE SequencesExt

Fields == {"namespace", "name", "packaging", "isLive", "label"}
Kinds == {"add", "remove", "clone"}
Unset == ""
Inherited == "(catalog)"  \* inheritedNamespaceSentinel

(* present: the fields the JSON object had, whatever their value.          *)
Track(namespace, name, packaging, isLive, label, present) ==
    [namespace |-> namespace, name |-> name, packaging |-> packaging, isLive |-> isLive, label |-> label,
     present |-> present]

Ok(c) == [err |-> FALSE, catalog |-> c]
Failed == [err |-> TRUE, catalog |-> [defaultNamespace |-> Unset, tracks |-> <<>>]]

-----------------------------------------------------------------------------
(* Tracks *)

effectiveNamespace(namespace, default) ==
    IF namespace # Unset THEN namespace ELSE IF default # Unset THEN default ELSE Inherited

(* Track.ID and TrackRef.ID *)
ID(t, default) == [namespace |-> effectiveNamespace(t.namespace, default), name |-> t.name]
parentID(t, default) == [namespace |-> effectiveNamespace(t.parentNamespace, default), name |-> t.parentName]

validate(t) == t.name # Unset /\ t.packaging # Unset /\ (t.packaging = "loc" => t.isLive # Unset)

hasField(t, f) == f \in t.present \/ t[f] # Unset

applyOverrides(t, override) ==
    [f \in DOMAIN t |->
        IF f = "present" THEN t.present \cup override.present
        ELSE IF hasField(override, f) THEN override[f] ELSE t[f]]

(* A track as a JSON object: only what is set is written, and what was     *)
(* read is present.                                                        *)
marshalObject(t) == [f \in {g \in Fields : t[g] # Unset} |-> t[f]]

unmarshalObject(obj) ==
    [f \in Fields \cup {"present"} |->
        IF f = "present" THEN DOMAIN obj ELSE IF f \in DOMAIN obj THEN obj[f] ELSE Unset]

-----------------------------------------------------------------------------
(* Catalogs *)

Places(c, id) == {i \in DOMAIN c.tracks : ID(c.tracks[i], c.defaultNamespace) = id}

(* Catalog.Validate: valid tracks of different identities. *)
Validate(c) ==
    /\ \A i \in DOMAIN c.tracks : validate(c.tracks[i])
    /\ \A i \in DOMAIN c.tracks : Places(c, ID(c.tracks[i], c.defaultNamespace)) = {i}

addTrack(c, t) ==
    IF Places(c, ID(t, c.defaultNamespace)) # {} THEN Failed
    ELSE Ok([c EXCEPT !.tracks = Append(@, t)])

(* findTrack finds the first. *)
First(c, id) == CHOOSE i \in Places(c, id) : \A j \in Places(c, id) : i <= j

removeTrack(c, ref) ==
    LET id == ID(ref, c.defaultNamespace) IN
    IF Places(c, id) = {} THEN Failed
    ELSE Ok([c EXCEPT !.tracks = Lists!RemoveAt(@, First(c, id))])

cloneTrack(c, clone) ==
    LET parent == parentID(clone, c.defaultNamespace)
        cloned == applyOverrides(c.tracks[First(c, parent)], clone.track)
    IN IF Places(c, parent) = {} THEN Failed
       ELSE IF cloned.name = Unset \/ Places(c, ID(cloned, c.defaultNamespace)) # {} THEN Failed
       ELSE Ok([c EXCEPT !.tracks = Append(@, cloned)])

hasInheritedNamespaceTracks(c) == \E i \in DOMAIN c.tracks : c.tracks[i].namespace = Unset

-----------------------------------------------------------------------------
(* Deltas: grouped by kind, with the order of the wire beside them.        *)

NoDelta == [defaultNamespace |-> Unset, tracks |-> [k \in Kinds |-> <<>>], ops |-> <<>>]

(* CatalogDelta.Validate; a clone is valid with the names it needs.        *)
ValidateDelta(d) ==
    /\ \E k \in DOMAIN d.tracks : d.tracks[k] # <<>>
    /\ \A i \in DOMAIN d.tracks["add"] : validate(d.tracks["add"][i])
    /\ \A i \in DOMAIN d.tracks["remove"] : d.tracks["remove"][i].name # Unset
    /\ \A i \in DOMAIN d.tracks["clone"] :
        d.tracks["clone"][i].track.name # Unset /\ d.tracks["clone"][i].parentName # Unset

(* decodeDeltaOps: wire is a sequence of [op, tracks]. *)
decodeDeltaOps(wire) ==
    LET decode(d, o) == [defaultNamespace |-> d.defaultNamespace,
                         tracks |-> [d.tracks EXCEPT ![o.op] = @ \o o.tracks],
                         ops |-> Append(d.ops, [kind |-> o.op, n |-> Len(o.tracks)])]
    IN Lists!FoldLeft(decode, NoDelta, wire)

Span(d, kind, lo, hi) == [op |-> kind, tracks |-> SubSeq(d.tracks[kind], lo + 1, hi)]

(* A recorded operation takes the next tracks of its kind, as far as there *)
(* are any.  An empty one is kept.                                         *)
Take(d, acc, op) ==
    LET lo == acc.next[op.kind]
        hi == IF lo + op.n <= Len(d.tracks[op.kind]) THEN lo + op.n ELSE Len(d.tracks[op.kind])
    IN [spans |-> IF hi > lo \/ op.n = 0 THEN Append(acc.spans, Span(d, op.kind, lo, hi)) ELSE acc.spans,
        next |-> [acc.next EXCEPT ![op.kind] = hi]]

Taken(d, ops) ==
    Lists!FoldLeft(LAMBDA acc, op : Take(d, acc, op), [spans |-> <<>>, next |-> [k \in Kinds |-> 0]], ops)

(* What the recorded operations do not cover.                              *)
Rest(d, next, kind) ==
    IF next[kind] < Len(d.tracks[kind]) THEN <<Span(d, kind, next[kind], Len(d.tracks[kind]))>> ELSE <<>>

WithRest(d, t) == t.spans \o Rest(d, t.next, "add") \o Rest(d, t.next, "remove") \o Rest(d, t.next, "clone")

(* Faulty variant: what was decoded is applied kind by kind. *)
operationsByKind(d) == WithRest(d, Taken(d, <<>>))

(* operations, each with the tracks its span covers. *)
operations(d) == WithRest(d, Taken(d, d.ops))

(* MarshalJSON: the array of operations; UnmarshalJSON reads it again.     *)
EncodedTrack(kind, t) ==
    CASE kind = "add" -> unmarshalObject(marshalObject(t))
      [] kind = "clone" -> [t EXCEPT !.track = unmarshalObject(marshalObject(@))]
      [] OTHER -> t

Encoded(o) == [op |-> o.op, tracks |-> [j \in DOMAIN o.tracks |-> EncodedTrack(o.op, o.tracks[j])]]

MarshalDelta(d) == LET spans == operations(d) IN [i \in DOMAIN spans |-> Encoded(spans[i])]

(* The tracks of operations in order, each with its kind.                  *)
InOrder(ops) ==
    Lists!FoldLeft(LAMBDA items, o : items \o [j \in DOMAIN o.tracks |-> [kind |-> o.op, track |-> o.tracks[j]]],
                   <<>>, ops)

(* One track of an operation, unless an earlier one has failed. *)
ApplyTrack(r, x) ==
    IF r.err THEN r
    ELSE CASE x.kind = "add" -> addTrack(r.catalog, x.track)
           [] x.kind = "remove" -> removeTrack(r.catalog, x.track)
           [] x.kind = "clone" -> cloneTrack(r.catalog, x.track)

Applied(c, items) == Lists!FoldLeft(LAMBDA r, x : ApplyTrack(r, x), Ok(c), items)

ApplyDelta(c, d) ==
    LET changes == d.defaultNamespace # Unset /\ d.defaultNamespace # c.defaultNamespace
        based == IF changes THEN [c EXCEPT !.defaultNamespace = d.defaultNamespace] ELSE c
        applied == Applied(based, InOrder(operations(d)))
    IN IF ~Validate(c) \/ ~ValidateDelta(d) \/ (changes /\ hasInheritedNamespaceTracks(c)) THEN Failed
       ELSE IF applied.err \/ ~Validate(applied.catalog) THEN Failed
       ELSE applied

-----------------------------------------------------------------------------
(* What a delta means: its operations one after the other, on a catalog    *)
(* that is a function from identities to tracks.                           *)

ByIdentity(c) ==
    [id \in {ID(c.tracks[i], c.defaultNamespace) : i \in DOMAIN c.tracks} |-> c.tracks[First(c, id)]]

Bind(f, id, t) == [x \in DOMAIN f \cup {id} |-> IF x = id THEN t ELSE f[x]]
Unbind(f, id) == [x \in DOMAIN f \ {id} |-> f[x]]

(* The set of catalogs an operation on one track leads to: one, or none.   *)
Outcome(f, default, kind, t) ==
    CASE kind = "add" -> IF ID(t, default) \in DOMAIN f THEN {} ELSE {Bind(f, ID(t, default), t)}
      [] kind = "remove" -> IF ID(t, default) \in DOMAIN f THEN {Unbind(f, ID(t, default))} ELSE {}
      [] kind = "clone" ->
            LET clones == {applyOverrides(f[id], t.track) : id \in DOMAIN f \cap {parentID(t, default)}} IN
            {Bind(f, ID(u, default), u) : u \in {v \in clones : v.name # Unset /\ ID(v, default) \notin DOMAIN f}}

Meaning(c, default, items) ==
    Lists!FoldLeft(LAMBDA fs, x : UNION {Outcome(f, default, x.kind, x.track) : f \in fs},
                   {ByIdentity(c)}, items)
=============================================================================
