------------------------ MODULE AnnounceStream_proofs ------------------------
(***************************************************************************)
(* The safety of an announce stream, for any announcements, settings and   *)
(* receivers, and that its two ends implement AnnounceView.                *)
(*                                                                         *)
(* The thread of the argument is ShowsAfter: what the peer will hold for a *)
(* path once it has read on.  StreamInv and FaithInv relate it to what     *)
(* the writer holds, WatchInv says which end handler will say when that    *)
(* ends, and LatestInv where the announcement offered last is meanwhile.   *)
(***************************************************************************)
EXTENDS AnnounceStream, FiniteSetTheorems, SequenceTheorems, TLAPS

(* Where the serving goroutine is, and what it holds. *)
Sending == {"check", "stop", "remove", "announce"}

ServeInv ==
    /\ pc \in {"register", "check", "stop", "remove", "announce"} => cur \in Announcements
    /\ pc \in {"filter", "store"} => actives = NoActives /\ todo = {}
    /\ pc \in {"loop", "check", "stop", "remove", "announce"} => todo = {}
    /\ pc = "register" => SuffixOf[cur] \notin todo
    /\ pc \in {"stop", "remove"} => /\ old \in Announcements /\ old # cur /\ SuffixOf[old] = SuffixOf[cur]
                                    /\ actives[SuffixOf[cur]] \in {old, NoAnnouncement}

(* What init has found and not sent yet is held and not watched.           *)
InitInv ==
    /\ IsFiniteSet(snapshot) /\ IsFiniteSet(todo)
    /\ \A s \in Suffixes : cand[s] # NoAnnouncement => cand[s] \in snapshot /\ SuffixOf[cand[s]] = s
    /\ \A s \in todo : cand[s] # NoAnnouncement /\ (closed \/ actives[s] = cand[s])
    /\ \A a \in Announcements : pc \in {"filter", "store"} \/ SuffixOf[a] \in todo => watch[a] = "none"

(* Which end handlers are registered. *)
WatchInv ==
    /\ \A s \in Suffixes : actives[s] # NoAnnouncement => SuffixOf[actives[s]] = s
    /\ WatchedIsHeld
    /\ ClosedHoldsNothing
    /\ \A a \in Announcements : watch[a] = "taken" => ~alive[a]
    /\ pc = "remove" => watch[old] = "none"
    /\ pc = "announce" => \A a \in Announcements : SuffixOf[a] = SuffixOf[cur] => watch[a] # "queued"
    /\ \A s \in Suffixes :
        actives[s] # NoAnnouncement =>
            \/ watch[actives[s]] \in {"queued", "taken"}
            \/ s \in todo
            \/ pc = "register" /\ cur = actives[s]
            \/ pc = "remove" /\ old = actives[s]

(* Everything sent was offered. *)
OfferInv ==
    /\ \A i \in DOMAIN chan : chan[i] \in Range(pushed)
    /\ pc \in {"check", "stop", "remove", "announce"} => cur \in Range(pushed)
    /\ \A i \in DOMAIN wire : wire[i].type = "active" =>
        wire[i].announcement \in Offered /\ SuffixOf[wire[i].announcement] = wire[i].suffix

(* The reader's map. *)
ReaderInv ==
    /\ \A s \in Suffixes : held[s] # 0 => remote[held[s]].suffix = s
    /\ LiveIsHeld
    /\ ~Scoped => allowed = Suffixes /\ ~rescoping
    /\ NoLostWakeup

IsActive(m, s, a) == m.type = "active" /\ m.suffix = s /\ m.announcement = a
IsEnded(m, s) == m.type = "ended" /\ m.suffix = s
IsFor(m, s) == m.type \in {"active", "ended"} /\ m.suffix = s

(* The first n messages of w say nothing of s, or last that it is a. *)
Silent(w, n, s) == \A j \in 1..n : ~IsFor(w[j], s)
LastSays(w, n, s, a) == \E j \in 1..n : IsActive(w[j], s, a) /\ \A l \in (j + 1)..n : ~IsFor(w[l], s)

PeerHolds(s, a) == Live(held[s]) /\ remote[held[s]].announcement = a

(* The peer holds a for s once it has read n more messages. *)
ShowsAfter(n, s, a) == LastSays(wire, n, s, a) \/ (Silent(wire, n, s) /\ PeerHolds(s, a))

HasReason(s, a) == ~alive[a] \/ \E b \in Offered : b # a /\ SuffixOf[b] = s

(* Nothing is hidden without a reason, and the peer will hold nothing that *)
(* the writer does not.                                                    *)
ReasonInv ==
    \A n \in Nat, s \in Suffixes, a \in Announcements :
        n < Len(wire) /\ IsEnded(wire[n + 1], s) /\ ShowsAfter(n, s, a) => HasReason(s, a)

AheadInv ==
    ~closed /\ up =>
        \A n \in Nat, s \in Suffixes, a \in Announcements :
            n = Len(wire) /\ ShowsAfter(n, s, a) => actives[s] = a

StreamInv == ReasonInv /\ AheadInv

(* The reader has an entry for a, live or not, and will have one once it   *)
(* has read n more messages.                                               *)
KnownAs(s, a) == held[s] # 0 /\ remote[held[s]].announcement = a
KnowsAfter(n, s, a) == LastSays(wire, n, s, a) \/ (Silent(wire, n, s) /\ KnownAs(s, a))

(* A reader without a scope will have an entry for all that the writer     *)
(* holds, and for what is ended; unless its own side ends something, the   *)
(* entries are live.                                                       *)
EndsHeldInv ==
    ~Scoped =>
        \A n \in Nat, s \in Suffixes :
            n < Len(wire) /\ IsEnded(wire[n + 1], s) => \E a \in Announcements : KnowsAfter(n, s, a)

BehindInv ==
    ~Scoped =>
        \A n \in Nat, s \in Suffixes, a \in Announcements :
            n = Len(wire) /\ actives[s] = a /\ s \notin todo => KnowsAfter(n, s, a)

KeptLiveInv == ~done /\ ~Scoped /\ ~LocalEnds => \A s \in Suffixes : held[s] # 0 => Live(held[s])

FaithInv == EndsHeldInv /\ BehindInv /\ KeptLiveInv

(* The announcement offered last is held, or on its way. *)
Follows(b, i) ==
    \A a \in Announcements :
        IsLatest(a) /\ alive[a] /\ SuffixOf[a] = SuffixOf[b] /\ a # b =>
            \E j \in DOMAIN chan : j > i /\ chan[j] = a

OnTheWay(a) ==
    \/ \E j \in DOMAIN chan : chan[j] = a
    \/ pc \in Sending /\ cur = a
    \/ pc = "filter" /\ a \in snapshot
    \/ pc = "store" /\ cand[SuffixOf[a]] = a
    \/ actives[SuffixOf[a]] = a

FollowInv ==
    subscribed =>
        /\ \A i \in DOMAIN chan, b \in Announcements : chan[i] = b => Follows(b, i)
        /\ pc \in Sending => \A b \in Announcements : cur = b => Follows(b, 0)

WayInv ==
    subscribed /\ ~closed /\ up =>
        \A a \in Announcements \ Excluded : IsLatest(a) /\ alive[a] => OnTheWay(a)

LatestInv ==
    /\ \A a, b \in snapshot : SuffixOf[a] = SuffixOf[b] => a = b
    /\ closed => \E k \in Closers : closer[k] # "idle"
    /\ FollowInv
    /\ WayInv

IInv == TypeOK /\ ServeInv /\ InitInv /\ WatchInv /\ OfferInv /\ ReaderInv /\ StreamInv /\ FaithInv /\ LatestInv

-----------------------------------------------------------------------------
(* Types, messages and sequences *)

(* A step does not change the setting, nor what is read from it.           *)
LEMMA SameSetting ==
  ASSUME setting' = setting
  PROVE  /\ SuffixOf' = SuffixOf /\ Suffixes' = Suffixes /\ Excluded' = Excluded
         /\ Scoped' = Scoped /\ LocalEnds' = LocalEnds /\ Receivers' = Receivers
         /\ MaxRescopes' = MaxRescopes /\ Messages' = Messages
         /\ NoActives' = NoActives /\ ActiveMaps' = ActiveMaps /\ RemoteAnnouncements' = RemoteAnnouncements
<1>1. SuffixOf' = SuffixOf
  BY DEF SuffixOf
<1>2. Suffixes' = Suffixes
  BY <1>1 DEF Suffixes
<1>3. QED
  BY <1>1, <1>2 DEF Excluded, Scoped, LocalEnds, Receivers, MaxRescopes, Messages, NoActives, ActiveMaps,
                    RemoteAnnouncements

LEMMA SuffixesAre ==
  /\ \A a \in Announcements : SuffixOf[a] \in Suffixes /\ a # NoAnnouncement
  /\ \A s \in Suffixes : NoActives[s] = NoAnnouncement
  /\ NoActives \in ActiveMaps
<1>1. \A a \in Announcements : SuffixOf[a] \in Suffixes /\ a # NoAnnouncement
  BY NoAnnouncementAssumption DEF Suffixes
<1>2. QED
  BY <1>1 DEF NoActives, ActiveMaps

LEMMA MessagesAre ==
  /\ \A n \in Nat : OkMsg(n) \in Messages /\ OkMsg(n).type = "ok"
  /\ \A s \in Suffixes : EndedMsg(s) \in Messages /\ EndedMsg(s).type = "ended" /\ EndedMsg(s).suffix = s
  /\ \A s \in Suffixes, a \in Announcements :
        /\ ActiveMsg(s, a) \in Messages /\ ActiveMsg(s, a).type = "active"
        /\ ActiveMsg(s, a).suffix = s /\ ActiveMsg(s, a).announcement = a
  BY DEF OkMsg, EndedMsg, ActiveMsg, Messages

LEMMA FieldsAre ==
  ASSUME NEW m \in Messages
  PROVE  /\ m.type \in {"ok", "active", "ended"}
         /\ m.type \in {"active", "ended"} => m.suffix \in Suffixes
         /\ m.type = "active" => m.announcement \in Announcements
<1>1. CASE m \in [type : {"ok"}, count : Nat]
  BY <1>1
<1>2. CASE m \in [type : {"active"}, suffix : Suffixes, announcement : Announcements]
  BY <1>2
<1>3. CASE m \in [type : {"ended"}, suffix : Suffixes]
  BY <1>3
<1>4. QED
  BY <1>1, <1>2, <1>3 DEF Messages

LEMMA WireIs ==
  ASSUME WireTypeOK
  PROVE  /\ Len(wire) \in Nat /\ DOMAIN wire = 1..Len(wire)
         /\ \A k \in 1..Len(wire) : wire[k] \in Messages
<1>1. wire \in Seq(Messages)
  BY DEF WireTypeOK
<1>2. QED
  BY <1>1

(* Sequences that grow at the end and shrink at the front. *)
LEMMA AppendIs ==
  ASSUME NEW S, NEW q \in Seq(S), NEW e \in S
  PROVE  /\ Append(q, e) \in Seq(S) /\ Len(q) \in Nat /\ Len(Append(q, e)) = Len(q) + 1
         /\ DOMAIN q = 1..Len(q) /\ DOMAIN Append(q, e) = 1..(Len(q) + 1)
         /\ \A i \in 1..Len(q) : Append(q, e)[i] = q[i]
         /\ Append(q, e)[Len(q) + 1] = e
  OBVIOUS

LEMMA TailIs ==
  ASSUME NEW S, NEW q \in Seq(S), q # <<>>
  PROVE  /\ Tail(q) \in Seq(S) /\ Len(q) \in Nat \ {0} /\ Len(Tail(q)) = Len(q) - 1
         /\ DOMAIN q = 1..Len(q) /\ DOMAIN Tail(q) = 1..(Len(q) - 1)
         /\ Head(q) = q[1] /\ Head(q) \in S
         /\ \A i \in 1..(Len(q) - 1) : Tail(q)[i] = q[i + 1]
<1>1. Len(q) \in Nat /\ DOMAIN q = 1..Len(q) /\ Len(q) # 0
  OBVIOUS
<1>2. Tail(q) \in Seq(S) /\ Len(Tail(q)) = Len(q) - 1
  OBVIOUS
<1>3. Head(q) = q[1] /\ Head(q) \in S
  OBVIOUS
<1>4. \A i \in 1..(Len(q) - 1) : Tail(q)[i] = q[i + 1]
  BY <1>1
<1>5. QED
  BY <1>1, <1>2, <1>3, <1>4

(* What is in a sequence, of one that grows. *)
LEMMA RangeOfAppend ==
  ASSUME NEW S, NEW q \in Seq(S), NEW e \in S
  PROVE  Range(Append(q, e)) = Range(q) \cup {e}
<1>1. /\ Len(q) \in Nat /\ DOMAIN q = 1..Len(q) /\ DOMAIN Append(q, e) = 1..(Len(q) + 1)
      /\ \A i \in 1..Len(q) : Append(q, e)[i] = q[i]
      /\ Append(q, e)[Len(q) + 1] = e
  BY AppendIs
<1>2. QED
  BY <1>1 DEF Range

LEMMA RangeIs ==
  ASSUME NEW S, NEW q \in Seq(S)
  PROVE  Range(q) \subseteq S
  BY DEF Range
-----------------------------------------------------------------------------
(* What a stretch of the stream says *)

LEMMA SaysNothingAtFirst ==
  ASSUME NEW w, NEW s, NEW a
  PROVE  Silent(w, 0, s) /\ ~LastSays(w, 0, s, a)
  BY DEF Silent, LastSays

(* One more message. *)
LEMMA SaysNext ==
  ASSUME NEW w, NEW n \in Nat, NEW s, NEW a
  PROVE  /\ Silent(w, n + 1, s) <=> Silent(w, n, s) /\ ~IsFor(w[n + 1], s)
         /\ LastSays(w, n + 1, s, a) <=>
                IsActive(w[n + 1], s, a) \/ (LastSays(w, n, s, a) /\ ~IsFor(w[n + 1], s))
<1>1. \A j : j \in 1..(n + 1) <=> j \in 1..n \/ j = n + 1
  OBVIOUS
<1>2. \A j \in 1..n : \A l : l \in (j + 1)..(n + 1) <=> l \in (j + 1)..n \/ l = n + 1
  OBVIOUS
<1>3. \A l : l \notin ((n + 1) + 1)..(n + 1)
  OBVIOUS
<1>4. IsActive(w[n + 1], s, a) => IsFor(w[n + 1], s)
  BY DEF IsActive, IsFor
<1>5. QED
  BY <1>1, <1>2, <1>3, <1>4 DEF Silent, LastSays

(* One message less at the front. *)
LEMMA SaysTail ==
  ASSUME NEW S, NEW w \in Seq(S), w # <<>>, NEW n \in Nat, n < Len(w), NEW s, NEW a
  PROVE  /\ Silent(w, n + 1, s) <=> ~IsFor(w[1], s) /\ Silent(Tail(w), n, s)
         /\ LastSays(w, n + 1, s, a) <=>
                LastSays(Tail(w), n, s, a) \/ (IsActive(w[1], s, a) /\ Silent(Tail(w), n, s))
<1> DEFINE t == Tail(w)
<1>1. \A i \in 1..n : t[i] = w[i + 1]
  BY TailIs
<1>2. \A j : j \in 1..(n + 1) <=> j = 1 \/ (j - 1 \in 1..n /\ j \in Int)
  OBVIOUS
<1> SUFFICES /\ Silent(w, n + 1, s) <=> ~IsFor(w[1], s) /\ Silent(t, n, s)
             /\ LastSays(w, n + 1, s, a) <=>
                    LastSays(t, n, s, a) \/ (IsActive(w[1], s, a) /\ Silent(t, n, s))
  OBVIOUS
<1> HIDE DEF t
<1>3. \A i \in 1..n : i + 1 \in 1..(n + 1) /\ i + 1 # 1
  OBVIOUS
<1>4. \A j \in 1..(n + 1) : j = 1 \/ \E i \in 1..n : j = i + 1
  <2> SUFFICES ASSUME NEW j \in 1..(n + 1), j # 1 PROVE \E i \in 1..n : j = i + 1
    OBVIOUS
  <2>1. j - 1 \in 1..n /\ j = (j - 1) + 1
    OBVIOUS
  <2>2. QED
    BY <2>1
<1>5. Silent(w, n + 1, s) <=> ~IsFor(w[1], s) /\ Silent(t, n, s)
  <2>1. 1 \in 1..(n + 1)
    OBVIOUS
  <2>2. (\A j \in 1..(n + 1) : ~IsFor(w[j], s)) <=> ~IsFor(w[1], s) /\ \A i \in 1..n : ~IsFor(w[i + 1], s)
    BY <1>3, <1>4, <2>1
  <2>3. (\A i \in 1..n : ~IsFor(w[i + 1], s)) <=> \A i \in 1..n : ~IsFor(t[i], s)
    BY <1>1
  <2>4. QED
    BY <2>2, <2>3 DEF Silent
<1>6. ASSUME NEW i \in 1..n
      PROVE  (\A l \in ((i + 1) + 1)..(n + 1) : ~IsFor(w[l], s)) <=> \A l \in (i + 1)..n : ~IsFor(t[l], s)
  <2>1. \A l \in (i + 1)..n : l \in 1..n /\ l + 1 \in ((i + 1) + 1)..(n + 1)
    OBVIOUS
  <2>2. \A l \in ((i + 1) + 1)..(n + 1) : \E m \in (i + 1)..n : l = m + 1
    <3> SUFFICES ASSUME NEW l \in ((i + 1) + 1)..(n + 1) PROVE \E m \in (i + 1)..n : l = m + 1
      OBVIOUS
    <3>1. l - 1 \in (i + 1)..n /\ l = (l - 1) + 1
      OBVIOUS
    <3>2. QED
      BY <3>1
  <2>3. QED
    BY <1>1, <2>1, <2>2
<1>7. (\A l \in (1 + 1)..(n + 1) : ~IsFor(w[l], s)) <=> Silent(t, n, s)
  <2>1. \A l \in 1..n : l + 1 \in (1 + 1)..(n + 1)
    OBVIOUS
  <2>2. \A l \in (1 + 1)..(n + 1) : l \in 1..(n + 1) /\ l # 1
    OBVIOUS
  <2>3. QED
    BY <1>1, <1>4, <2>1, <2>2 DEF Silent
<1>8. LastSays(w, n + 1, s, a) <=>
        \/ IsActive(w[1], s, a) /\ \A l \in (1 + 1)..(n + 1) : ~IsFor(w[l], s)
        \/ \E i \in 1..n : IsActive(w[i + 1], s, a) /\ \A l \in ((i + 1) + 1)..(n + 1) : ~IsFor(w[l], s)
  <2>1. 1 \in 1..(n + 1)
    OBVIOUS
  <2>2. QED
    BY <1>3, <1>4, <2>1 DEF LastSays
<1>9. QED
  BY <1>1, <1>5, <1>6, <1>7, <1>8 DEF LastSays

(* A message written says nothing of what was written before. *)
LEMMA SaysBefore ==
  ASSUME NEW S, NEW w \in Seq(S), NEW m \in S, NEW n \in 0..Len(w), NEW s, NEW a
  PROVE  /\ Silent(Append(w, m), n, s) <=> Silent(w, n, s)
         /\ LastSays(Append(w, m), n, s, a) <=> LastSays(w, n, s, a)
<1> DEFINE v == Append(w, m)
<1>1. \A i \in 1..n : v[i] = w[i]
  BY AppendIs
<1>2. n \in Nat
  OBVIOUS
<1>3. \A j \in 1..n : \A l \in (j + 1)..n : l \in 1..n
  BY <1>2
<1> SUFFICES /\ Silent(v, n, s) <=> Silent(w, n, s)
             /\ LastSays(v, n, s, a) <=> LastSays(w, n, s, a)
  OBVIOUS
<1> HIDE DEF v
<1>4. QED
  BY <1>1, <1>3 DEF Silent, LastSays

-----------------------------------------------------------------------------
(* The invariant holds initially *)


LEMMA InitIInv == Init => IInv
<1> SUFFICES ASSUME Init PROVE IInv
  OBVIOUS
<1>0. /\ wire = <<>> /\ chan = <<>> /\ pushed = <<>> /\ todo = {} /\ pc = "filter" /\ remote = <<>> /\ pendings = <<>>
      /\ actives = NoActives /\ cand = NoActives /\ closed = FALSE /\ violation = FALSE
      /\ watch = [a \in Announcements |-> "none"] /\ held = [s \in Suffixes |-> 0]
  BY DEF Init, WireInit, WriterInit, ReaderInit
<1>1. WireTypeOK
  <2>1. wire \in Seq(Messages)
    BY <1>0
  <2>2. QED
    BY <2>1 DEF Init, WireInit, WireTypeOK
<1>2. WriterTypeOK
  <2>1. /\ alive \in [Announcements -> BOOLEAN] /\ snapshot \in SUBSET Announcements
        /\ subscribed \in BOOLEAN /\ closed \in BOOLEAN
    BY DEF Init, WriterInit
  <2>2. pushed \in Seq(Announcements) /\ chan \in Seq(Announcements) /\ Len(chan) <= ChanCap
    BY <1>0, ChanCapAssumption
  <2>3. cand \in ActiveMaps /\ actives \in ActiveMaps /\ todo \in SUBSET Suffixes
    BY <1>0, SuffixesAre
  <2>4. watch \in [Announcements -> {"none", "queued", "taken"}]
    BY <1>0
  <2>5. closer \in [Closers -> {"idle", "stop", "cancel", "done"}]
        /\ cur \in Announcements \cup {NoAnnouncement} /\ old \in Announcements \cup {NoAnnouncement}
    BY DEF Init, WriterInit
  <2>6. QED
    BY <1>0, <2>1, <2>2, <2>3, <2>4, <2>5 DEF WriterTypeOK
<1>3. ReaderTypeOK
  <2>1. done \in BOOLEAN /\ rescoping \in BOOLEAN /\ violation \in BOOLEAN
    BY DEF Init, ReaderInit
  <2>2. remote \in Seq(RemoteAnnouncements) /\ Len(remote) = 0 /\ pendings \in Seq(1..Len(remote))
    BY <1>0
  <2>3. held \in [Suffixes -> 0..Len(remote)]
    BY <1>0, <2>2
  <2>4. rescopes \in 0..MaxRescopes
    <3>1. MaxRescopes \in Nat
      BY SettingsAssumption DEF Init, WireInit, MaxRescopes
    <3>2. QED
      BY <3>1 DEF Init, ReaderInit
  <2>5. allowed \in SUBSET Suffixes
    BY DEF Init, ReaderInit
  <2>6. QED
    BY <2>1, <2>2, <2>3, <2>4, <2>5 DEF Init, ReaderInit, ReaderTypeOK
<1>4. DOMAIN wire = {} /\ DOMAIN chan = {} /\ DOMAIN pushed = {} /\ DOMAIN remote = {} /\ Len(wire) = 0
  BY <1>0
<1>5. ServeInv
  BY <1>0 DEF ServeInv
<1>6. InitInv
  <2>1. IsFiniteSet(snapshot) /\ IsFiniteSet({})
    BY FS_EmptySet DEF Init, WriterInit
  <2>2. QED
    BY <1>0, <2>1, SuffixesAre DEF InitInv
<1>7. WatchInv
  BY <1>0, SuffixesAre DEF WatchInv, WatchedIsHeld, ClosedHoldsNothing
<1>8. OfferInv
  BY <1>0, <1>4 DEF OfferInv
<1>9. ReaderInv
  <2>1. LiveIsHeld
    BY <1>4 DEF LiveIsHeld
  <2>2. ~Scoped => allowed = Suffixes /\ ~rescoping
    BY DEF Init, ReaderInit
  <2>3. QED
    BY <1>0, <2>1, <2>2 DEF ReaderInv, NoLostWakeup
<1>10. \A n, s, a : n = 0 /\ s \in Suffixes => ~ShowsAfter(n, s, a)
  BY <1>0 DEF ShowsAfter, LastSays, PeerHolds, Live
<1>11. StreamInv
  BY <1>4, <1>10 DEF StreamInv, ReasonInv, AheadInv
<1>12. FaithInv
  <2>1. \A s \in Suffixes, a \in Announcements : actives[s] # a
    BY <1>0, SuffixesAre
  <2>2. QED
    BY <1>0, <1>4, <2>1 DEF FaithInv, EndsHeldInv, BehindInv, KeptLiveInv
<1>13. LatestInv
  <2>1. \A a, b \in snapshot : SuffixOf[a] = SuffixOf[b] => a = b
    BY DEF Init, WriterInit
  <2>2. \A a \in Announcements : IsLatest(a) => OnTheWay(a)
    BY <1>0, <1>4 DEF IsLatest, OnTheWay
  <2>3. QED
    BY <1>0, <1>4, <2>1, <2>2 DEF LatestInv, FollowInv, WayInv, Sending
<1>14. QED
  BY <1>1, <1>2, <1>3, <1>5, <1>6, <1>7, <1>8, <1>9, <1>11, <1>12, <1>13 DEF IInv, TypeOK


-----------------------------------------------------------------------------
(* Types *)

(* What an operation of the writer on one entry does. *)
LEMMA RemoveIs ==
  ASSUME TypeOK, NEW a \in Announcements, Remove(SuffixOf[a], a)
  PROVE  /\ actives[SuffixOf[a]] = a =>
              /\ actives' = [actives EXCEPT ![SuffixOf[a]] = NoAnnouncement]
              /\ wire' = IF up THEN Append(wire, EndedMsg(SuffixOf[a])) ELSE wire
         /\ actives[SuffixOf[a]] # a => actives' = actives /\ wire' = wire
         /\ actives' \in ActiveMaps /\ wire' \in Seq(Messages)
<1>1. wire \in Seq(Messages) /\ actives \in ActiveMaps
  BY DEF TypeOK, WireTypeOK, WriterTypeOK
<1>2. SuffixOf[a] \in Suffixes /\ EndedMsg(SuffixOf[a]) \in Messages
  BY SuffixesAre, MessagesAre
<1>3. CASE actives[SuffixOf[a]] = a
  <2>1. actives' = [actives EXCEPT ![SuffixOf[a]] = NoAnnouncement]
    BY <1>3 DEF Remove
  <2>2. wire' = IF up THEN Append(wire, EndedMsg(SuffixOf[a])) ELSE wire
    BY <1>3 DEF Remove, Encode
  <2>3. actives' \in ActiveMaps
    BY <1>1, <2>1 DEF ActiveMaps
  <2>4. Append(wire, EndedMsg(SuffixOf[a])) \in Seq(Messages)
    BY <1>1, <1>2
  <2>5. QED
    BY <1>1, <1>3, <2>1, <2>2, <2>3, <2>4
<1>4. CASE actives[SuffixOf[a]] # a
  BY <1>1, <1>4 DEF Remove
<1>5. QED
  BY <1>3, <1>4

LEMMA WatchedIs ==
  ASSUME TypeOK, NEW a \in Announcements
  PROVE  /\ Watched(a) \in [Announcements -> {"none", "queued", "taken"}]
         /\ \A b \in Announcements :
                Watched(a)[b] = IF b = a THEN IF alive[a] THEN "queued" ELSE "taken" ELSE watch[b]
<1>1. watch \in [Announcements -> {"none", "queued", "taken"}]
  BY DEF TypeOK, WriterTypeOK
<1>2. QED
  BY <1>1 DEF Watched

LEMMA WriterTypes ==
  ASSUME TypeOK, ServeInv, InitInv, WriterNext, setting' = setting
  PROVE  WireTypeOK' /\ WriterTypeOK'
<1>1. Suffixes' = Suffixes /\ ActiveMaps' = ActiveMaps /\ Messages' = Messages
  BY SameSetting
<1>2. /\ setting \in Settings /\ wire \in Seq(Messages) /\ up \in BOOLEAN
      /\ alive \in [Announcements -> BOOLEAN] /\ snapshot \in SUBSET Announcements
      /\ pushed \in Seq(Announcements) /\ subscribed \in BOOLEAN
      /\ chan \in Seq(Announcements) /\ Len(chan) <= ChanCap
      /\ cand \in ActiveMaps /\ todo \in SUBSET Suffixes
      /\ cur \in Announcements \cup {NoAnnouncement} /\ old \in Announcements \cup {NoAnnouncement}
      /\ actives \in ActiveMaps /\ watch \in [Announcements -> {"none", "queued", "taken"}]
      /\ closed \in BOOLEAN /\ closer \in [Closers -> {"idle", "stop", "cancel", "done"}]
  BY DEF TypeOK, WireTypeOK, WriterTypeOK
<1>3. pc \in {"filter", "store", "ok", "send", "register", "loop", "check", "stop",
              "remove", "announce", "closing", "done"}
  BY DEF TypeOK, WriterTypeOK
<1>4. \A m \in Messages : Append(wire, m) \in Seq(Messages)
  BY <1>2, AppendIs
<1>5. "serve" \in Closers /\ "overflow" \in Closers /\ "rescope" \in Closers
  BY DEF Closers
<1> DEFINE Fits == /\ wire' \in Seq(Messages) /\ up' \in BOOLEAN
                   /\ alive' \in [Announcements -> BOOLEAN] /\ snapshot' \in SUBSET Announcements
                   /\ pushed' \in Seq(Announcements) /\ subscribed' \in BOOLEAN
                   /\ chan' \in Seq(Announcements) /\ Len(chan') <= ChanCap
                   /\ pc' \in {"filter", "store", "ok", "send", "register", "loop", "check", "stop",
                               "remove", "announce", "closing", "done"}
                   /\ cand' \in ActiveMaps /\ todo' \in SUBSET Suffixes
                   /\ cur' \in Announcements \cup {NoAnnouncement} /\ old' \in Announcements \cup {NoAnnouncement}
                   /\ actives' \in ActiveMaps /\ watch' \in [Announcements -> {"none", "queued", "taken"}]
                   /\ closed' \in BOOLEAN /\ closer' \in [Closers -> {"idle", "stop", "cancel", "done"}]
<1> SUFFICES Fits
  BY <1>1, <1>2 DEF WireTypeOK, WriterTypeOK
<1> USE DEF sourceVars, serveVars, entryVars, wireVars
<1>6. ASSUME NEW a \in Announcements, EndAnnouncement(a) PROVE Fits
  BY <1>2, <1>3, <1>6 DEF EndAnnouncement
<1>7. ASSUME NEW a \in Announcements, PushAnnouncement(a) PROVE Fits
  <2>1. pushed' \in Seq(Announcements)
    BY <1>2, <1>7 DEF PushAnnouncement
  <2>2. chan' \in Seq(Announcements) /\ Len(chan') <= ChanCap
    <3>1. CASE chan' = chan
      BY <1>2, <3>1
    <3>2. CASE chan' = Append(chan, a) /\ Len(chan) < ChanCap
      <4>1. Len(Append(chan, a)) = Len(chan) + 1 /\ Len(chan) \in Nat
        BY <1>2, AppendIs
      <4>2. QED
        BY <1>2, <3>2, <4>1, ChanCapAssumption
    <3>3. QED
      BY <1>7, <3>1, <3>2 DEF PushAnnouncement
  <2>3. subscribed' \in BOOLEAN
    BY <1>2, <1>7 DEF PushAnnouncement
  <2>4. closer' \in [Closers -> {"idle", "stop", "cancel", "done"}]
    BY <1>2, <1>7 DEF PushAnnouncement
  <2>5. QED
    BY <1>2, <1>3, <1>7, <2>1, <2>2, <2>3, <2>4 DEF PushAnnouncement
<1>8. ASSUME NEW a \in Announcements, TakeWatch(a) PROVE Fits
  BY <1>2, <1>3, <1>8 DEF TakeWatch
<1>9. ASSUME NEW a \in Announcements, RunWatch(a) PROVE Fits
  <2>1. wire' \in Seq(Messages) /\ actives' \in ActiveMaps
    BY <1>9, RemoveIs DEF RunWatch
  <2>2. QED
    BY <1>2, <1>3, <1>9, <2>1 DEF RunWatch
<1>10. CASE InitFilter
  <2>1. cand' \in ActiveMaps
    BY <1>2, <1>10 DEF InitFilter
  <2>2. closer' \in [Closers -> {"idle", "stop", "cancel", "done"}]
    BY <1>2, <1>10 DEF InitFilter, ServeFails
  <2>3. QED
    BY <1>2, <1>10, <2>1, <2>2 DEF InitFilter, ServeFails, Goto
<1>11. CASE InitStore
  <2>1. closer' \in [Closers -> {"idle", "stop", "cancel", "done"}]
    BY <1>2, <1>11 DEF InitStore, ServeFails
  <2>2. QED
    BY <1>2, <1>11, <2>1 DEF InitStore, ServeFails, Goto
<1>12. CASE InitOk
  <2>1. closer' \in [Closers -> {"idle", "stop", "cancel", "done"}]
    BY <1>2, <1>12 DEF InitOk, ServeFails
  <2>2. wire' \in Seq(Messages)
    <3>1. Cardinality(todo) \in Nat
      BY FS_CardinalityType DEF InitInv
    <3>2. QED
      <4>1. wire' = wire \/ wire' = Append(wire, OkMsg(Cardinality(todo)))
        BY <1>12 DEF InitOk, Encode
      <4>2. OkMsg(Cardinality(todo)) \in Messages
        BY <3>1, MessagesAre
      <4>3. QED
        BY <1>2, <1>4, <4>1, <4>2
  <2>3. QED
    BY <1>2, <1>12, <2>1, <2>2 DEF InitOk, ServeFails, Goto
<1>13. CASE InitSend
  <2>1. closer' \in [Closers -> {"idle", "stop", "cancel", "done"}]
    BY <1>2, <1>13 DEF InitSend, ServeFails
  <2>2. \A s \in todo : s \in Suffixes /\ cand[s] \in Announcements
    BY <1>2 DEF InitInv, ActiveMaps
  <2>3. wire' \in Seq(Messages)
    <3>1. wire' = wire \/ \E s \in todo : wire' = Append(wire, ActiveMsg(s, cand[s]))
      BY <1>13 DEF InitSend, Encode
    <3>2. \A s \in todo : ActiveMsg(s, cand[s]) \in Messages
      BY <2>2, MessagesAre
    <3>3. QED
      BY <1>2, <1>4, <3>1, <3>2
  <2>4. QED
    BY <1>2, <1>13, <2>1, <2>2, <2>3 DEF InitSend, ServeFails, Goto
<1>14. CASE InitRegister
  <2>1. watch' \in [Announcements -> {"none", "queued", "taken"}]
    BY <1>2, <1>14, WatchedIs DEF InitRegister, ServeInv
  <2>2. QED
    BY <1>2, <1>14, <2>1 DEF InitRegister, Goto
<1>15. CASE ServeReceive
  <2>1. closer' \in [Closers -> {"idle", "stop", "cancel", "done"}]
    BY <1>2, <1>15 DEF ServeReceive
  <2>2. chan' \in Seq(Announcements) /\ Len(chan') <= ChanCap /\ cur' \in Announcements \cup {NoAnnouncement}
    <3>1. CASE chan # <<>> /\ chan' = Tail(chan) /\ cur' = Head(chan)
      <4>1. /\ Tail(chan) \in Seq(Announcements) /\ Len(chan) \in Nat
            /\ Len(Tail(chan)) = Len(chan) - 1 /\ Head(chan) \in Announcements
        BY <1>2, <3>1, TailIs
      <4>2. QED
        BY <1>2, <3>1, <4>1, ChanCapAssumption
    <3>2. CASE UNCHANGED <<cur, chan>>
      BY <1>2, <3>2
    <3>3. QED
      BY <1>15, <3>1, <3>2 DEF ServeReceive
  <2>3. QED
    BY <1>2, <1>15, <2>1, <2>2 DEF ServeReceive, Goto
<1>16. CASE SendCheck
  <2>1. old' \in Announcements \cup {NoAnnouncement}
    <3>1. pc = "check"
      BY <1>16 DEF SendCheck
    <3>2. cur \in Announcements
      BY <3>1 DEF ServeInv
    <3>3. actives[SuffixOf[cur]] \in Announcements \cup {NoAnnouncement}
      BY <1>2, <3>2, SuffixesAre DEF ActiveMaps
    <3>4. QED
      BY <1>2, <1>16, <3>3 DEF SendCheck
  <2>2. QED
    BY <1>2, <1>16, <2>1 DEF SendCheck, Goto
<1>17. CASE SendStopOld
  <2>1. watch' \in [Announcements -> {"none", "queued", "taken"}]
    BY <1>2, <1>17 DEF SendStopOld
  <2>2. QED
    BY <1>2, <1>17, <2>1 DEF SendStopOld, Goto
<1>18. CASE SendRemoveOld
  <2>1. wire' \in Seq(Messages) /\ actives' \in ActiveMaps
    BY <1>18, RemoveIs DEF SendRemoveOld, ServeInv
  <2>2. QED
    BY <1>2, <1>18, <2>1 DEF SendRemoveOld, Goto
<1>19. CASE SendActive
  <2>1. closer' \in [Closers -> {"idle", "stop", "cancel", "done"}]
    BY <1>2, <1>19 DEF SendActive, ServeFails
  <2>2. cur \in Announcements /\ SuffixOf[cur] \in Suffixes
    BY <1>19, SuffixesAre DEF SendActive, ServeInv
  <2>3. wire' \in Seq(Messages)
    <3>1. wire' = wire \/ wire' = Append(wire, ActiveMsg(SuffixOf[cur], cur))
      BY <1>19 DEF SendActive, Encode
    <3>2. ActiveMsg(SuffixOf[cur], cur) \in Messages
      BY <2>2, MessagesAre
    <3>3. QED
      BY <1>2, <1>4, <3>1, <3>2
  <2>4. actives' \in ActiveMaps
    BY <1>2, <1>19, <2>2 DEF SendActive, ActiveMaps
  <2>5. watch' \in [Announcements -> {"none", "queued", "taken"}]
    BY <1>2, <1>19, <2>2, WatchedIs DEF SendActive
  <2>6. QED
    BY <1>2, <1>19, <2>1, <2>3, <2>4, <2>5 DEF SendActive, ServeFails, Goto
<1>20. CASE RescopeWriter
  BY <1>2, <1>3, <1>20 DEF RescopeWriter
<1>21. ASSUME NEW k \in Closers, StopAll(k) PROVE Fits
  <2>1. closer' \in [Closers -> {"idle", "stop", "cancel", "done"}]
    BY <1>2, <1>21 DEF StopAll
  <2>2. watch' \in [Announcements -> {"none", "queued", "taken"}]
    BY <1>2, <1>21 DEF StopAll
  <2>3. QED
    BY <1>2, <1>3, <1>21, <2>1, <2>2, SuffixesAre DEF StopAll
<1>22. ASSUME NEW k \in Closers, CancelStream(k) PROVE Fits
  BY <1>2, <1>3, <1>22 DEF CancelStream
<1>23. CASE ServeReturns
  BY <1>2, <1>23 DEF ServeReturns, Goto
<1>24. QED
  BY <1>6, <1>7, <1>8, <1>9, <1>10, <1>11, <1>12, <1>13, <1>14, <1>15, <1>16, <1>17, <1>18, <1>19, <1>20,
     <1>21, <1>22, <1>23 DEF WriterNext, ServeStep, WatchStep, CloserStep

-----------------------------------------------------------------------------
(* Types of the reader *)

(* The fields of what the reader has made, and of an entry that is ended.  *)
LEMMA RemotesAre ==
  ASSUME NEW r \in RemoteAnnouncements
  PROVE  /\ r.suffix \in Suffixes /\ r.announcement \in Announcements /\ r.live \in BOOLEAN
         /\ [r EXCEPT !.live = FALSE] \in RemoteAnnouncements
         /\ [r EXCEPT !.live = FALSE].suffix = r.suffix
         /\ [r EXCEPT !.live = FALSE].announcement = r.announcement
         /\ [r EXCEPT !.live = FALSE].live = FALSE
         /\ ~r.live => [r EXCEPT !.live = FALSE] = r
<1>1. ~r.live => r.live = FALSE
  BY DEF RemoteAnnouncements
<1>2. QED
  BY <1>1 DEF RemoteAnnouncements

LEMMA ReaderIs ==
  ASSUME TypeOK
  PROVE  /\ Len(remote) \in Nat /\ DOMAIN remote = 1..Len(remote)
         /\ \A i \in 1..Len(remote) : remote[i] \in RemoteAnnouncements
         /\ \A s \in Suffixes : held[s] \in 0..Len(remote) /\ (Live(held[s]) => held[s] \in 1..Len(remote))
<1>1. remote \in Seq(RemoteAnnouncements) /\ held \in [Suffixes -> 0..Len(remote)]
  BY DEF TypeOK, ReaderTypeOK
<1>2. Len(remote) \in Nat /\ DOMAIN remote = 1..Len(remote)
  BY <1>1
<1>3. \A i \in 1..Len(remote) : remote[i] \in RemoteAnnouncements
  BY <1>1, <1>2
<1>4. \A s \in Suffixes : held[s] \in 0..Len(remote)
  BY <1>1
<1>5. \A n \in 0..Len(remote) : n # 0 => n \in 1..Len(remote)
  BY <1>2
<1>6. QED
  BY <1>2, <1>3, <1>4, <1>5 DEF Live

(* Ending some of the entries. *)
LEMMA EndSome ==
  ASSUME TypeOK, NEW E, NEW q,
         q = [i \in DOMAIN remote |-> IF i \in E THEN [remote[i] EXCEPT !.live = FALSE] ELSE remote[i]]
  PROVE  q \in Seq(RemoteAnnouncements) /\ Len(q) = Len(remote)
<1>1. /\ Len(remote) \in Nat /\ DOMAIN remote = 1..Len(remote)
      /\ \A i \in 1..Len(remote) : remote[i] \in RemoteAnnouncements
  BY ReaderIs
<1>2. \A i \in 1..Len(remote) : q[i] \in RemoteAnnouncements
  BY <1>1, RemotesAre
<1>3. q \in [1..Len(remote) -> RemoteAnnouncements]
  BY <1>1, <1>2
<1>4. QED
  BY <1>1, <1>3

LEMMA EndHeldIs ==
  ASSUME TypeOK, NEW s \in Suffixes
  PROVE  /\ EndHeld(s) \in Seq(RemoteAnnouncements) /\ Len(EndHeld(s)) = Len(remote)
         /\ DOMAIN EndHeld(s) = DOMAIN remote
         /\ \A i \in DOMAIN remote :
                EndHeld(s)[i] = IF i = held[s] THEN [remote[i] EXCEPT !.live = FALSE] ELSE remote[i]
<1> DEFINE q == [i \in DOMAIN remote |-> IF i \in {held[s]} THEN [remote[i] EXCEPT !.live = FALSE] ELSE remote[i]]
<1>1. /\ Len(remote) \in Nat /\ DOMAIN remote = 1..Len(remote)
      /\ \A i \in 1..Len(remote) : remote[i] \in RemoteAnnouncements
      /\ held[s] \in 0..Len(remote)
  BY ReaderIs
<1>2. q \in Seq(RemoteAnnouncements) /\ Len(q) = Len(remote)
  BY EndSome
<1>3. EndHeld(s) = q
  <2>1. CASE Live(held[s])
    BY <2>1 DEF EndHeld, Live
  <2>2. CASE ~Live(held[s])
    <3>1. EndHeld(s) = remote
      BY <2>2 DEF EndHeld
    <3>2. \A i \in DOMAIN remote : i = held[s] => [remote[i] EXCEPT !.live = FALSE] = remote[i]
      <4>1. held[s] # 0 => ~remote[held[s]].live
        BY <2>2 DEF Live
      <4>2. QED
        BY <1>1, <4>1, RemotesAre
    <3>3. remote = [i \in DOMAIN remote |-> remote[i]]
      BY DEF TypeOK, ReaderTypeOK
    <3>4. QED
      BY <3>1, <3>2, <3>3
  <2>3. QED
    BY <2>1, <2>2
<1>4. QED
  BY <1>1, <1>2, <1>3

LEMMA SeqGrows ==
  ASSUME NEW S, NEW T, S \subseteq T, NEW q \in Seq(S)
  PROVE  q \in Seq(T)
  OBVIOUS

(* What ACTIVE does to the map. *)
LEMMA ActivateIs ==
  ASSUME TypeOK, NEW s \in Suffixes, NEW a \in Announcements, Activate(s, a)
  PROVE  /\ remote' \in Seq(RemoteAnnouncements) /\ Len(remote') = Len(remote) + 1
         /\ DOMAIN remote' = 1..(Len(remote) + 1)
         /\ \A i \in 1..Len(remote) :
                remote'[i] = IF i = held[s] THEN [remote[i] EXCEPT !.live = FALSE] ELSE remote[i]
         /\ remote'[Len(remote) + 1] = [suffix |-> s, announcement |-> a, live |-> ~done]
         /\ held' = [held EXCEPT ![s] = Len(remote) + 1]
         /\ pendings' = Append(pendings, Len(remote) + 1)
         /\ signal' = IF signal = "empty" THEN "full" ELSE signal
<1> DEFINE r == [suffix |-> s, announcement |-> a, live |-> ~done]
           q == EndHeld(s)
<1>1. r \in RemoteAnnouncements
  BY DEF TypeOK, ReaderTypeOK, RemoteAnnouncements
<1>2. /\ q \in Seq(RemoteAnnouncements) /\ Len(q) = Len(remote) /\ DOMAIN q = DOMAIN remote
      /\ \A i \in DOMAIN remote : q[i] = IF i = held[s] THEN [remote[i] EXCEPT !.live = FALSE] ELSE remote[i]
  BY EndHeldIs
<1>3. DOMAIN remote = 1..Len(remote)
  BY ReaderIs
<1>4. /\ remote' = Append(q, r)
      /\ held' = [held EXCEPT ![s] = Len(remote) + 1]
      /\ pendings' = Append(pendings, Len(remote) + 1)
      /\ signal' = IF signal = "empty" THEN "full" ELSE signal
  BY DEF Activate
<1> HIDE DEF r, q
<1>5. /\ Append(q, r) \in Seq(RemoteAnnouncements) /\ Len(Append(q, r)) = Len(q) + 1
      /\ DOMAIN Append(q, r) = 1..(Len(q) + 1)
      /\ \A i \in 1..Len(q) : Append(q, r)[i] = q[i]
      /\ Append(q, r)[Len(q) + 1] = r
  BY <1>1, <1>2, AppendIs
<1>6. r = [suffix |-> s, announcement |-> a, live |-> ~done]
  BY DEF r
<1>7. QED
  BY <1>2, <1>3, <1>4, <1>5, <1>6

LEMMA ReaderTypes ==
  ASSUME TypeOK, ReaderNext, setting' = setting
  PROVE  WireTypeOK' /\ ReaderTypeOK'
<1>1. /\ Suffixes' = Suffixes /\ Messages' = Messages /\ RemoteAnnouncements' = RemoteAnnouncements
      /\ Receivers' = Receivers /\ MaxRescopes' = MaxRescopes
  BY SameSetting
<1>2. /\ setting \in Settings /\ wire \in Seq(Messages) /\ up \in BOOLEAN
      /\ decoding \in {"ok", "loop", "ended"} /\ done \in BOOLEAN
      /\ remote \in Seq(RemoteAnnouncements) /\ held \in [Suffixes -> 0..Len(remote)]
      /\ pendings \in Seq(1..Len(remote)) /\ signal \in {"empty", "full", "nil"}
      /\ waiting \in SUBSET Receivers /\ received \in SUBSET (1..Len(remote))
      /\ allowed \in SUBSET Suffixes /\ rescoping \in BOOLEAN
      /\ rescopes \in 0..MaxRescopes /\ violation \in BOOLEAN
  BY DEF TypeOK, WireTypeOK, ReaderTypeOK
<1>3. Len(remote) \in Nat /\ DOMAIN remote = 1..Len(remote) /\ 0 \in 0..Len(remote)
  BY ReaderIs
<1> DEFINE Wire == wire' \in Seq(Messages) /\ up' \in BOOLEAN
           Flags == /\ decoding' \in {"ok", "loop", "ended"} /\ done' \in BOOLEAN
                    /\ signal' \in {"empty", "full", "nil"} /\ waiting' \in SUBSET Receivers
                    /\ allowed' \in SUBSET Suffixes /\ rescoping' \in BOOLEAN
                    /\ rescopes' \in 0..MaxRescopes /\ violation' \in BOOLEAN
           Map == remote' \in Seq(RemoteAnnouncements) /\ held' \in [Suffixes -> 0..Len(remote')]
           Queue == pendings' \in Seq(1..Len(remote')) /\ received' \in SUBSET (1..Len(remote'))
<1> SUFFICES Wire /\ Flags /\ Map /\ Queue
  BY <1>1, <1>2 DEF WireTypeOK, ReaderTypeOK
<1>4. wire # <<>> => Tail(wire) \in Seq(Messages) /\ Head(wire) = wire[1] /\ wire[1] \in Messages
  BY <1>2, TailIs
<1>5. wire # <<>> /\ Head(wire).type \in {"active", "ended"} => Head(wire).suffix \in Suffixes
  BY <1>4, FieldsAre
<1>6. wire # <<>> /\ Head(wire).type = "active" => Head(wire).announcement \in Announcements
  BY <1>4, FieldsAre
<1>7. \A s \in Suffixes : EndHeld(s) \in Seq(RemoteAnnouncements) /\ Len(EndHeld(s)) = Len(remote)
  BY EndHeldIs
<1> USE DEF appVars, wireVars
<1>8. CASE DecodeFails
  BY <1>2, <1>8 DEF DecodeFails
<1>9. CASE RecvOk
  BY <1>2, <1>4, <1>9 DEF RecvOk, Decode
<1>10. CASE RecvActive
  <2> DEFINE s == Head(wire).suffix
             a == Head(wire).announcement
  <2>1. s \in Suffixes /\ a \in Announcements /\ Wire
    BY <1>2, <1>4, <1>5, <1>6, <1>10 DEF RecvActive, Decode
  <2>2. UNCHANGED <<decoding, done, waiting, received, allowed, rescoping, rescopes, violation>>
    BY <1>10 DEF RecvActive
  <2>3. \/ s \in allowed /\ Activate(s, a)
        \/ remote' = EndHeld(s) /\ held' = [held EXCEPT ![s] = 0] /\ UNCHANGED <<pendings, signal>>
    BY <1>10 DEF RecvActive
  <2> HIDE DEF s, a
  <2>4. CASE Activate(s, a)
    <3>1. /\ remote' \in Seq(RemoteAnnouncements) /\ Len(remote') = Len(remote) + 1
          /\ held' = [held EXCEPT ![s] = Len(remote) + 1]
          /\ pendings' = Append(pendings, Len(remote) + 1)
          /\ signal' = IF signal = "empty" THEN "full" ELSE signal
      BY <2>1, <2>4, ActivateIs
    <3>2. /\ 1..Len(remote) \subseteq 1..Len(remote') /\ 0..Len(remote) \subseteq 0..Len(remote')
          /\ Len(remote) + 1 \in 1..Len(remote') /\ Len(remote) + 1 \in 0..Len(remote')
      BY <1>3, <3>1
    <3>3. held' \in [Suffixes -> 0..Len(remote')]
      BY <1>2, <2>1, <3>1, <3>2
    <3>4. pendings \in Seq(1..Len(remote'))
      BY <1>2, <3>2, SeqGrows
    <3>5. pendings' \in Seq(1..Len(remote'))
      BY <3>1, <3>2, <3>4, AppendIs
    <3>6. signal' \in {"empty", "full", "nil"}
      BY <1>2, <3>1
    <3>7. received' \in SUBSET (1..Len(remote'))
      BY <1>2, <2>2, <3>2
    <3>8. QED
      BY <1>2, <2>1, <2>2, <3>1, <3>3, <3>5, <3>6, <3>7
  <2>5. CASE remote' = EndHeld(s) /\ held' = [held EXCEPT ![s] = 0] /\ UNCHANGED <<pendings, signal>>
    <3>1. Len(remote') = Len(remote) /\ remote' \in Seq(RemoteAnnouncements)
      BY <1>7, <2>1, <2>5
    <3>2. held' \in [Suffixes -> 0..Len(remote)]
      BY <1>2, <1>3, <2>5
    <3>3. QED
      BY <1>2, <2>1, <2>2, <2>5, <3>1, <3>2
  <2>6. QED
    BY <2>3, <2>4, <2>5
<1>11. CASE RecvEnded
  <2> DEFINE s == Head(wire).suffix
  <2>1. s \in Suffixes /\ Wire
    BY <1>2, <1>4, <1>5, <1>11 DEF RecvEnded, Decode, CloseReader
  <2>2. UNCHANGED <<pendings, waiting, received, allowed, rescoping, rescopes>>
    BY <1>11 DEF RecvEnded
  <2>3. Flags
    BY <1>2, <1>11 DEF RecvEnded, CloseReader
  <2>4. \/ remote' = EndHeld(s) /\ held' = [held EXCEPT ![s] = 0]
        \/ remote' = remote /\ held' = held
    BY <1>11 DEF RecvEnded
  <2> HIDE DEF s
  <2>5. Len(remote') = Len(remote) /\ remote' \in Seq(RemoteAnnouncements)
    BY <1>2, <1>7, <2>1, <2>4
  <2>6. held' \in [Suffixes -> 0..Len(remote)]
    BY <1>2, <1>3, <2>4
  <2>7. QED
    BY <1>2, <2>1, <2>2, <2>3, <2>5, <2>6
<1>12. ASSUME NEW i \in DOMAIN remote, ContextEnds(i) \/ LocalEnd(i) PROVE Wire /\ Flags /\ Map /\ Queue
  <2>1. remote' = [remote EXCEPT ![i].live = FALSE]
    BY <1>12 DEF ContextEnds, LocalEnd
  <2>2. remote' = [j \in DOMAIN remote |-> IF j \in {i} THEN [remote[j] EXCEPT !.live = FALSE] ELSE remote[j]]
    BY <2>1
  <2>3. remote' \in Seq(RemoteAnnouncements) /\ Len(remote') = Len(remote)
    BY <2>2, EndSome
  <2>4. UNCHANGED <<decoding, done, held, pendings, signal, waiting, received, allowed, rescoping, rescopes, violation, wire, up>>
    BY <1>12 DEF ContextEnds, LocalEnd
  <2>5. QED
    BY <1>2, <2>3, <2>4
<1>13. ASSUME NEW r \in Receivers, Receive(r) PROVE Wire /\ Flags /\ Map /\ Queue
  <2>1. pendings' \in Seq(1..Len(remote)) /\ received' \in SUBSET (1..Len(remote))
    <3>1. pendings # <<>> => Tail(pendings) \in Seq(1..Len(remote)) /\ Head(pendings) \in 1..Len(remote)
      BY <1>2, TailIs
    <3>2. QED
      BY <1>2, <1>13, <3>1 DEF Receive
  <2>2. QED
    BY <1>2, <1>13, <2>1 DEF Receive
<1>14. ASSUME NEW r \in Receivers, Wake(r) PROVE Wire /\ Flags /\ Map /\ Queue
  BY <1>2, <1>14 DEF Wake
<1>15. CASE UserClose
  BY <1>2, <1>15 DEF UserClose
<1>16. CASE UserCloseWithError
  BY <1>2, <1>16 DEF UserCloseWithError, CloseReader
<1>17. CASE ChangeScope
  <2>1. MaxRescopes \in Nat
    BY <1>2, SettingsAssumption DEF MaxRescopes
  <2>2. rescopes' \in 0..MaxRescopes
    BY <1>2, <1>17, <2>1 DEF ChangeScope
  <2>3. QED
    BY <1>2, <1>17, <2>2 DEF ChangeScope
<1>18. CASE RescopeReader
  <2> DEFINE Refused == {s \in Suffixes \ allowed : held[s] # 0}
             E == {i \in DOMAIN remote : \E s \in Refused : held[s] = i}
  <2>1. \/ UNCHANGED <<remote, held>>
        \/ /\ remote' = [i \in DOMAIN remote |-> IF i \in E THEN [remote[i] EXCEPT !.live = FALSE] ELSE remote[i]]
           /\ held' = [s \in Suffixes |-> IF s \in Refused THEN 0 ELSE held[s]]
    BY <1>18 DEF RescopeReader
  <2> HIDE DEF E, Refused
  <2>2. remote' \in Seq(RemoteAnnouncements) /\ Len(remote') = Len(remote)
    <3>1. CASE UNCHANGED <<remote, held>>
      BY <1>2, <3>1
    <3>2. CASE remote' = [i \in DOMAIN remote |-> IF i \in E THEN [remote[i] EXCEPT !.live = FALSE] ELSE remote[i]]
      BY <3>2, EndSome
    <3>3. QED
      BY <2>1, <3>1, <3>2
  <2>3. held' \in [Suffixes -> 0..Len(remote)]
    BY <1>2, <1>3, <2>1
  <2>4. QED
    BY <1>2, <1>18, <2>2, <2>3 DEF RescopeReader
<1>19. QED
  BY <1>8, <1>9, <1>10, <1>11, <1>12, <1>13, <1>14, <1>15, <1>16, <1>17, <1>18 DEF ReaderNext, DecodeStep, ReceiverStep

-----------------------------------------------------------------------------
(* The serving goroutine, the announcements held and their end handlers *)

LEMMA WriterKeeps ==
  ASSUME TypeOK, ServeInv, InitInv, WatchInv, WriterNext, setting' = setting
  PROVE  ServeInv' /\ InitInv' /\ WatchInv'
<1>1. Suffixes' = Suffixes /\ SuffixOf' = SuffixOf /\ NoActives' = NoActives
  BY SameSetting
<1>2. /\ snapshot \in SUBSET Announcements /\ todo \in SUBSET Suffixes
      /\ cur \in Announcements \cup {NoAnnouncement} /\ old \in Announcements \cup {NoAnnouncement}
      /\ watch \in [Announcements -> {"none", "queued", "taken"}]
  BY DEF TypeOK, WriterTypeOK
<1>3. /\ cand \in [Suffixes -> Announcements \cup {NoAnnouncement}]
      /\ actives \in [Suffixes -> Announcements \cup {NoAnnouncement}]
  BY DEF TypeOK, WriterTypeOK, ActiveMaps
<1>4. /\ \A a \in Announcements : SuffixOf[a] \in Suffixes /\ a # NoAnnouncement
      /\ \A s \in Suffixes : NoActives[s] = NoAnnouncement
  BY SuffixesAre
<1> USE DEF sourceVars, serveVars, entryVars, wireVars
<1>5. ASSUME NEW a \in Announcements, EndAnnouncement(a) PROVE ServeInv' /\ InitInv' /\ WatchInv'
  <2>1. ServeInv'
    BY <1>1, <1>2, <1>3, <1>4, <1>5 DEF EndAnnouncement, ServeInv
  <2>2. InitInv'
    BY <1>1, <1>2, <1>3, <1>4, <1>5 DEF EndAnnouncement, InitInv, ServeInv
  <2>3. WatchInv'
    BY <1>1, <1>2, <1>3, <1>4, <1>5 DEF EndAnnouncement, WatchInv, WatchedIsHeld, ClosedHoldsNothing, ServeInv, InitInv
  <2>4. QED
    BY <2>1, <2>2, <2>3
<1>6. ASSUME NEW a \in Announcements, PushAnnouncement(a) PROVE ServeInv' /\ InitInv' /\ WatchInv'
  <2>1. ServeInv'
    BY <1>1, <1>2, <1>3, <1>4, <1>6 DEF PushAnnouncement, ServeInv
  <2>2. InitInv'
    BY <1>1, <1>2, <1>3, <1>4, <1>6 DEF PushAnnouncement, InitInv, ServeInv
  <2>3. WatchInv'
    BY <1>1, <1>2, <1>3, <1>4, <1>6 DEF PushAnnouncement, WatchInv, WatchedIsHeld, ClosedHoldsNothing, ServeInv, InitInv
  <2>4. QED
    BY <2>1, <2>2, <2>3
<1>7. ASSUME NEW a \in Announcements, TakeWatch(a) PROVE ServeInv' /\ InitInv' /\ WatchInv'
  <2>1. ServeInv'
    BY <1>1, <1>2, <1>3, <1>4, <1>7 DEF TakeWatch, ServeInv
  <2>2. InitInv'
    BY <1>1, <1>2, <1>3, <1>4, <1>7 DEF TakeWatch, InitInv, ServeInv
  <2>3. WatchInv'
    BY <1>1, <1>2, <1>3, <1>4, <1>7 DEF TakeWatch, WatchInv, WatchedIsHeld, ClosedHoldsNothing, ServeInv, InitInv
  <2>4. QED
    BY <2>1, <2>2, <2>3
<1>8. ASSUME NEW a \in Announcements, RunWatch(a) PROVE ServeInv' /\ InitInv' /\ WatchInv'
  <2>1. ServeInv'
    BY <1>1, <1>2, <1>3, <1>4, <1>8 DEF RunWatch, Remove, ServeInv
  <2>2. InitInv'
    BY <1>1, <1>2, <1>3, <1>4, <1>8 DEF RunWatch, Remove, InitInv, ServeInv, WatchInv
  <2>3. WatchInv'
    BY <1>1, <1>2, <1>3, <1>4, <1>8 DEF RunWatch, Remove, WatchInv, WatchedIsHeld, ClosedHoldsNothing, ServeInv, InitInv
  <2>4. QED
    BY <2>1, <2>2, <2>3
<1>9. ASSUME NEW k \in Closers, StopAll(k) PROVE ServeInv' /\ InitInv' /\ WatchInv'
  <2>1. ServeInv'
    BY <1>1, <1>2, <1>3, <1>4, <1>9 DEF StopAll, ServeInv
  <2>2. InitInv'
    BY <1>1, <1>2, <1>3, <1>4, <1>9 DEF StopAll, InitInv, ServeInv
  <2>3. WatchInv'
    BY <1>1, <1>2, <1>3, <1>4, <1>9 DEF StopAll, WatchInv, WatchedIsHeld, ClosedHoldsNothing, ServeInv, InitInv
  <2>4. QED
    BY <2>1, <2>2, <2>3
<1>10. ASSUME NEW k \in Closers, CancelStream(k) PROVE ServeInv' /\ InitInv' /\ WatchInv'
  <2>1. ServeInv'
    BY <1>1, <1>2, <1>3, <1>4, <1>10 DEF CancelStream, ServeInv
  <2>2. InitInv'
    BY <1>1, <1>2, <1>3, <1>4, <1>10 DEF CancelStream, InitInv, ServeInv
  <2>3. WatchInv'
    BY <1>1, <1>2, <1>3, <1>4, <1>10 DEF CancelStream, WatchInv, WatchedIsHeld, ClosedHoldsNothing, ServeInv, InitInv
  <2>4. QED
    BY <2>1, <2>2, <2>3
<1>11. CASE InitFilter
  <2>1. ServeInv'
    BY <1>1, <1>2, <1>3, <1>4, <1>11 DEF InitFilter, Goto, ServeFails, Eligible, ServeInv
  <2>2. InitInv'
    BY <1>1, <1>2, <1>3, <1>4, <1>11 DEF InitFilter, Goto, ServeFails, Eligible, InitInv, ServeInv
  <2>3. WatchInv'
    BY <1>1, <1>2, <1>3, <1>4, <1>11 DEF InitFilter, Goto, ServeFails, Eligible, WatchInv, WatchedIsHeld, ClosedHoldsNothing, ServeInv, InitInv
  <2>4. QED
    BY <2>1, <2>2, <2>3
<1>12. CASE InitStore
  <2>1. ServeInv'
    BY <1>1, <1>2, <1>3, <1>4, <1>12 DEF InitStore, Goto, ServeFails, ServeInv
  <2>2. InitInv'
    <3> DEFINE found == {s \in Suffixes : cand[s] # NoAnnouncement}
               f == [s \in found |-> cand[s]]
    <3>1. f \in [found -> snapshot]
      BY DEF InitInv
    <3>2. \A s, r \in found : f[s] = f[r] => s = r
      BY DEF InitInv
    <3>3. IsFiniteSet(found)
      <4>1. f \in Injection(found, snapshot)
        BY <3>1, <3>2 DEF Injection, IsInjective
      <4>2. IsFiniteSet(snapshot)
        BY DEF InitInv
      <4>3. QED
        BY <4>1, <4>2, FS_Injection
    <3>4. IsFiniteSet(todo')
      BY <1>12, <3>3 DEF InitStore, InitInv
    <3>5. QED
      BY <1>1, <1>2, <1>3, <1>4, <1>12, <3>4 DEF InitStore, Goto, ServeFails, InitInv, ServeInv
  <2>3. WatchInv'
    BY <1>1, <1>2, <1>3, <1>4, <1>12 DEF InitStore, Goto, ServeFails, WatchInv, WatchedIsHeld, ClosedHoldsNothing, ServeInv, InitInv
  <2>4. QED
    BY <2>1, <2>2, <2>3
<1>13. CASE InitOk
  <2>1. ServeInv'
    BY <1>1, <1>2, <1>3, <1>4, <1>13 DEF InitOk, Goto, ServeFails, ServeInv
  <2>2. InitInv'
    BY <1>1, <1>2, <1>3, <1>4, <1>13 DEF InitOk, Goto, ServeFails, InitInv, ServeInv
  <2>3. WatchInv'
    BY <1>1, <1>2, <1>3, <1>4, <1>13 DEF InitOk, Goto, ServeFails, WatchInv, WatchedIsHeld, ClosedHoldsNothing, ServeInv, InitInv
  <2>4. QED
    BY <2>1, <2>2, <2>3
<1>14. CASE InitSend
  <2>1. ServeInv'
    BY <1>1, <1>2, <1>3, <1>4, <1>14 DEF InitSend, Goto, ServeFails, ServeInv, InitInv
  <2>2. InitInv'
    <3>1. \A s \in todo : IsFiniteSet(todo \ {s})
      BY FS_RemoveElement DEF InitInv
    <3>2. IsFiniteSet(todo')
      BY <1>14, <3>1 DEF InitSend, InitInv
    <3>3. QED
      BY <1>1, <1>2, <1>3, <1>4, <1>14, <3>2 DEF InitSend, Goto, ServeFails, InitInv, ServeInv
  <2>3. WatchInv'
    BY <1>1, <1>2, <1>3, <1>4, <1>14 DEF InitSend, Goto, ServeFails, WatchInv, WatchedIsHeld, ClosedHoldsNothing, ServeInv, InitInv
  <2>4. QED
    BY <2>1, <2>2, <2>3
<1>15. CASE InitRegister
  <2>1. ServeInv'
    BY <1>1, <1>2, <1>3, <1>4, <1>15 DEF InitRegister, Goto, Watched, ServeInv
  <2>2. InitInv'
    BY <1>1, <1>2, <1>3, <1>4, <1>15 DEF InitRegister, Goto, Watched, InitInv, ServeInv
  <2>3. WatchInv'
    BY <1>1, <1>2, <1>3, <1>4, <1>15 DEF InitRegister, Goto, Watched, WatchInv, WatchedIsHeld, ClosedHoldsNothing, ServeInv, InitInv
  <2>4. QED
    BY <2>1, <2>2, <2>3
<1>16. CASE ServeReceive
  <2>1. ServeInv'
    <3>1. chan # <<>> => Head(chan) \in Announcements
      BY TailIs DEF TypeOK, WriterTypeOK
    <3>2. QED
      BY <1>1, <1>2, <1>3, <1>4, <1>16, <3>1 DEF ServeReceive, Goto, ServeInv
  <2>2. InitInv'
    BY <1>1, <1>2, <1>3, <1>4, <1>16 DEF ServeReceive, Goto, InitInv, ServeInv
  <2>3. WatchInv'
    BY <1>1, <1>2, <1>3, <1>4, <1>16 DEF ServeReceive, Goto, WatchInv, WatchedIsHeld, ClosedHoldsNothing, ServeInv, InitInv
  <2>4. QED
    BY <2>1, <2>2, <2>3
<1>17. CASE SendCheck
  <2>1. ServeInv'
    BY <1>1, <1>2, <1>3, <1>4, <1>17 DEF SendCheck, Goto, ServeInv, WatchInv
  <2>2. InitInv'
    BY <1>1, <1>2, <1>3, <1>4, <1>17 DEF SendCheck, Goto, InitInv, ServeInv
  <2>3. WatchInv'
    BY <1>1, <1>2, <1>3, <1>4, <1>17 DEF SendCheck, Goto, WatchInv, WatchedIsHeld, ClosedHoldsNothing, ServeInv, InitInv
  <2>4. QED
    BY <2>1, <2>2, <2>3
<1>18. CASE SendStopOld
  <2>1. ServeInv'
    BY <1>1, <1>2, <1>3, <1>4, <1>18 DEF SendStopOld, Goto, ServeInv
  <2>2. InitInv'
    BY <1>1, <1>2, <1>3, <1>4, <1>18 DEF SendStopOld, Goto, InitInv, ServeInv
  <2>3. WatchInv'
    BY <1>1, <1>2, <1>3, <1>4, <1>18 DEF SendStopOld, Goto, WatchInv, WatchedIsHeld, ClosedHoldsNothing, ServeInv, InitInv
  <2>4. QED
    BY <2>1, <2>2, <2>3
<1>19. CASE SendRemoveOld
  <2>1. ServeInv'
    BY <1>1, <1>2, <1>3, <1>4, <1>19 DEF SendRemoveOld, Remove, Goto, ServeInv
  <2>2. InitInv'
    BY <1>1, <1>2, <1>3, <1>4, <1>19 DEF SendRemoveOld, Remove, Goto, InitInv, ServeInv
  <2>3. WatchInv'
    BY <1>1, <1>2, <1>3, <1>4, <1>19 DEF SendRemoveOld, Remove, Goto, WatchInv, WatchedIsHeld, ClosedHoldsNothing, ServeInv, InitInv
  <2>4. QED
    BY <2>1, <2>2, <2>3
<1>20. CASE SendActive
  <2>1. ServeInv'
    BY <1>1, <1>2, <1>3, <1>4, <1>20 DEF SendActive, Goto, ServeFails, Watched, ServeInv
  <2>2. InitInv'
    BY <1>1, <1>2, <1>3, <1>4, <1>20 DEF SendActive, Goto, ServeFails, Watched, InitInv, ServeInv
  <2>3. WatchInv'
    BY <1>1, <1>2, <1>3, <1>4, <1>20 DEF SendActive, Goto, ServeFails, Watched, WatchInv, WatchedIsHeld, ClosedHoldsNothing, ServeInv, InitInv
  <2>4. QED
    BY <2>1, <2>2, <2>3
<1>21. CASE RescopeWriter
  <2>1. ServeInv'
    BY <1>1, <1>2, <1>3, <1>4, <1>21 DEF RescopeWriter, ServeInv
  <2>2. InitInv'
    BY <1>1, <1>2, <1>3, <1>4, <1>21 DEF RescopeWriter, InitInv, ServeInv
  <2>3. WatchInv'
    BY <1>1, <1>2, <1>3, <1>4, <1>21 DEF RescopeWriter, WatchInv, WatchedIsHeld, ClosedHoldsNothing, ServeInv, InitInv
  <2>4. QED
    BY <2>1, <2>2, <2>3
<1>22. CASE ServeReturns
  <2>1. ServeInv'
    BY <1>1, <1>2, <1>3, <1>4, <1>22 DEF ServeReturns, Goto, ServeInv
  <2>2. InitInv'
    BY <1>1, <1>2, <1>3, <1>4, <1>22 DEF ServeReturns, Goto, InitInv, ServeInv
  <2>3. WatchInv'
    BY <1>1, <1>2, <1>3, <1>4, <1>22 DEF ServeReturns, Goto, WatchInv, WatchedIsHeld, ClosedHoldsNothing, ServeInv, InitInv
  <2>4. QED
    BY <2>1, <2>2, <2>3
<1>23. QED
  BY <1>5, <1>6, <1>7, <1>8, <1>9, <1>10, <1>11, <1>12, <1>13, <1>14, <1>15, <1>16, <1>17, <1>18, <1>19, <1>20, <1>21, <1>22 DEF WriterNext, ServeStep, WatchStep, CloserStep

-----------------------------------------------------------------------------
(* What a step of the writer says *)

SaysNothing ==
    /\ wire' = wire
    /\ \A s \in Suffixes, a \in Announcements :
        /\ ~closed' /\ up' /\ actives[s] = a => actives'[s] = a
        /\ actives'[s] = a /\ s \notin todo' => actives[s] = a /\ s \notin todo

SaysOk ==
    /\ \E n \in Nat : wire' = Append(wire, OkMsg(n))
    /\ UNCHANGED <<actives, todo>>

SaysEnded(s, a) ==
    /\ up /\ ~closed /\ actives[s] = a /\ s \notin todo /\ HasReason(s, a)
    /\ wire' = Append(wire, EndedMsg(s))
    /\ actives' = [actives EXCEPT ![s] = NoAnnouncement]
    /\ UNCHANGED todo

SaysActive(s, a) ==
    /\ a \in Offered /\ SuffixOf[a] = s
    /\ wire' = Append(wire, ActiveMsg(s, a))
    /\ \A r \in Suffixes : r # s => actives'[r] = actives[r] /\ (r \in todo' => r \in todo) /\ (r \in todo => r \in todo')
    /\ closed' \/ actives'[s] = a
    /\ \A b \in Announcements : actives'[s] = b => b = a

Speaks ==
    \/ SaysNothing
    \/ SaysOk
    \/ \E s \in Suffixes, a \in Announcements : SaysEnded(s, a) \/ SaysActive(s, a)

LEMMA WriterSpeaks ==
  ASSUME TypeOK, ServeInv, InitInv, WatchInv, OfferInv, WriterNext, setting' = setting
  PROVE  Speaks
<1>1. /\ snapshot \in SUBSET Announcements /\ todo \in SUBSET Suffixes
      /\ cur \in Announcements \cup {NoAnnouncement} /\ old \in Announcements \cup {NoAnnouncement}
      /\ watch \in [Announcements -> {"none", "queued", "taken"}]
  BY DEF TypeOK, WriterTypeOK
<1>2. /\ cand \in [Suffixes -> Announcements \cup {NoAnnouncement}]
      /\ actives \in [Suffixes -> Announcements \cup {NoAnnouncement}]
  BY DEF TypeOK, WriterTypeOK, ActiveMaps
<1>3. /\ \A a \in Announcements : SuffixOf[a] \in Suffixes /\ a # NoAnnouncement
      /\ \A s \in Suffixes : NoActives[s] = NoAnnouncement
  BY SuffixesAre
<1>4. \A s \in Suffixes, a \in Announcements : actives[s] = a => ~closed
  BY <1>3 DEF WatchInv, ClosedHoldsNothing
<1> USE DEF sourceVars, serveVars, entryVars, wireVars
<1>5. ASSUME NEW a \in Announcements, EndAnnouncement(a) PROVE Speaks
  <2>1. SaysNothing
    BY <1>2, <1>3, <1>5 DEF EndAnnouncement, SaysNothing
  <2>2. QED
    BY <2>1 DEF Speaks
<1>6. ASSUME NEW a \in Announcements, PushAnnouncement(a) PROVE Speaks
  <2>1. SaysNothing
    BY <1>2, <1>3, <1>6 DEF PushAnnouncement, SaysNothing
  <2>2. QED
    BY <2>1 DEF Speaks
<1>7. ASSUME NEW a \in Announcements, TakeWatch(a) PROVE Speaks
  <2>1. SaysNothing
    BY <1>2, <1>3, <1>7 DEF TakeWatch, SaysNothing
  <2>2. QED
    BY <2>1 DEF Speaks
<1>8. ASSUME NEW a \in Announcements, RunWatch(a) PROVE Speaks
  <2> DEFINE s == SuffixOf[a]
  <2>1. a \in Announcements /\ s \in Suffixes /\ Remove(s, a) /\ todo' = todo /\ up' = up /\ closed' = closed
    BY <1>3, <1>8 DEF RunWatch, ServeInv
  <2>2. actives[s] = a => s \notin todo /\ HasReason(s, a)
    BY <1>1, <1>8, <2>1 DEF RunWatch, InitInv, WatchInv, HasReason
  <2>3. CASE actives[s] = a /\ up
    <3>1. SaysEnded(s, a)
      BY <1>4, <2>1, <2>2, <2>3, RemoveIs DEF SaysEnded
    <3>2. QED
      BY <2>1, <3>1 DEF Speaks
  <2>4. CASE actives[s] = a /\ ~up
    <3>1. wire' = wire /\ actives' = [actives EXCEPT ![s] = NoAnnouncement]
      BY <2>1, <2>4, RemoveIs
    <3>2. SaysNothing
      BY <1>2, <1>3, <2>1, <2>4, <3>1 DEF SaysNothing
    <3>3. QED
      BY <3>2 DEF Speaks
  <2>5. CASE actives[s] # a
    <3>1. SaysNothing
      BY <2>1, <2>5, RemoveIs DEF SaysNothing
    <3>2. QED
      BY <3>1 DEF Speaks
  <2>6. QED
    BY <2>3, <2>4, <2>5
<1>9. ASSUME NEW k \in Closers, StopAll(k) PROVE Speaks
  <2>1. SaysNothing
    BY <1>2, <1>3, <1>9 DEF StopAll, SaysNothing
  <2>2. QED
    BY <2>1 DEF Speaks
<1>10. ASSUME NEW k \in Closers, CancelStream(k) PROVE Speaks
  <2>1. SaysNothing
    BY <1>2, <1>3, <1>10 DEF CancelStream, SaysNothing
  <2>2. QED
    BY <2>1 DEF Speaks
<1>11. CASE InitFilter
  <2>1. SaysNothing
    BY <1>2, <1>3, <1>11 DEF InitFilter, SaysNothing
  <2>2. QED
    BY <2>1 DEF Speaks
<1>12. CASE InitStore
  <2>1. SaysNothing
    BY <1>2, <1>3, <1>12 DEF InitStore, ServeInv, Goto, ServeFails, SaysNothing
  <2>2. QED
    BY <2>1 DEF Speaks
<1>13. CASE InitOk
  <2>1. Cardinality(todo) \in Nat
    BY FS_CardinalityType DEF InitInv
  <2>2. SaysOk \/ SaysNothing
    BY <1>13, <2>1 DEF InitOk, Encode, SaysOk, SaysNothing
  <2>3. QED
    BY <2>2 DEF Speaks
<1>14. CASE InitSend
  <2>1. CASE UNCHANGED <<wire, todo>>
    <3>1. SaysNothing
      BY <1>14, <2>1 DEF InitSend, SaysNothing
    <3>2. QED
      BY <3>1 DEF Speaks
  <2>2. ASSUME NEW s \in todo, wire' = Append(wire, ActiveMsg(s, cand[s])), todo' = todo \ {s}
        PROVE  Speaks
    <3>1. s \in Suffixes /\ cand[s] \in Announcements /\ cand[s] \in Offered /\ SuffixOf[cand[s]] = s
      BY <1>1, <1>2 DEF InitInv, Offered
    <3>2. closed' = closed /\ actives' = actives
      BY <1>14 DEF InitSend
    <3>3. closed' \/ actives'[s] = cand[s]
      BY <3>2 DEF InitInv
    <3>4. \A b \in Announcements : actives'[s] = b => b = cand[s]
      BY <1>4, <3>1, <3>2, <3>3
    <3>5. SaysActive(s, cand[s])
      BY <2>2, <3>1, <3>2, <3>3, <3>4 DEF SaysActive
    <3>6. QED
      BY <3>1, <3>5 DEF Speaks
  <2>3. QED
    BY <1>14, <2>1, <2>2 DEF InitSend, Encode
<1>15. CASE InitRegister
  <2>1. SaysNothing
    BY <1>2, <1>3, <1>15 DEF InitRegister, SaysNothing
  <2>2. QED
    BY <2>1 DEF Speaks
<1>16. CASE ServeReceive
  <2>1. SaysNothing
    BY <1>2, <1>3, <1>16 DEF ServeReceive, SaysNothing
  <2>2. QED
    BY <2>1 DEF Speaks
<1>17. CASE SendCheck
  <2>1. SaysNothing
    BY <1>2, <1>3, <1>17 DEF SendCheck, SaysNothing
  <2>2. QED
    BY <2>1 DEF Speaks
<1>18. CASE SendStopOld
  <2>1. SaysNothing
    BY <1>2, <1>3, <1>18 DEF SendStopOld, SaysNothing
  <2>2. QED
    BY <2>1 DEF Speaks
<1>19. CASE SendRemoveOld
  <2> DEFINE s == SuffixOf[old]
  <2>1. old \in Announcements /\ s \in Suffixes /\ Remove(s, old) /\ todo' = todo /\ up' = up /\ closed' = closed
    BY <1>3, <1>19 DEF SendRemoveOld, ServeInv
  <2>2. actives[s] = old => s \notin todo /\ HasReason(s, old)
    BY <1>1, <1>19, <2>1 DEF SendRemoveOld, ServeInv, OfferInv, HasReason, Offered
  <2>3. CASE actives[s] = old /\ up
    <3>1. SaysEnded(s, old)
      BY <1>4, <2>1, <2>2, <2>3, RemoveIs DEF SaysEnded
    <3>2. QED
      BY <2>1, <3>1 DEF Speaks
  <2>4. CASE actives[s] = old /\ ~up
    <3>1. wire' = wire /\ actives' = [actives EXCEPT ![s] = NoAnnouncement]
      BY <2>1, <2>4, RemoveIs
    <3>2. SaysNothing
      BY <1>2, <1>3, <2>1, <2>4, <3>1 DEF SaysNothing
    <3>3. QED
      BY <3>2 DEF Speaks
  <2>5. CASE actives[s] # old
    <3>1. SaysNothing
      BY <2>1, <2>5, RemoveIs DEF SaysNothing
    <3>2. QED
      BY <3>1 DEF Speaks
  <2>6. QED
    BY <2>3, <2>4, <2>5
<1>20. CASE SendActive
  <2>1. CASE UNCHANGED <<actives, wire>>
    <3>1. SaysNothing
      BY <1>20, <2>1 DEF SendActive, SaysNothing
    <3>2. QED
      BY <3>1 DEF Speaks
  <2>2. CASE /\ wire' = Append(wire, ActiveMsg(SuffixOf[cur], cur))
             /\ actives' = [actives EXCEPT ![SuffixOf[cur]] = cur]
    <3>1. cur \in Announcements /\ SuffixOf[cur] \in Suffixes /\ cur \in Offered /\ todo' = todo
      BY <1>20, <1>3 DEF SendActive, ServeInv, OfferInv, Offered
    <3>2. SaysActive(SuffixOf[cur], cur)
      BY <1>2, <2>2, <3>1 DEF SaysActive
    <3>3. QED
      BY <3>1, <3>2 DEF Speaks
  <2>3. QED
    BY <1>20, <2>1, <2>2 DEF SendActive, Encode
<1>21. CASE RescopeWriter
  <2>1. SaysNothing
    BY <1>2, <1>3, <1>21 DEF RescopeWriter, SaysNothing
  <2>2. QED
    BY <2>1 DEF Speaks
<1>22. CASE ServeReturns
  <2>1. SaysNothing
    BY <1>2, <1>3, <1>22 DEF ServeReturns, SaysNothing
  <2>2. QED
    BY <2>1 DEF Speaks
<1>23. QED
  BY <1>5, <1>6, <1>7, <1>8, <1>9, <1>10, <1>11, <1>12, <1>13, <1>14, <1>15, <1>16, <1>17, <1>18, <1>19, <1>20, <1>21, <1>22 DEF WriterNext, ServeStep, WatchStep, CloserStep

(* Announcements are offered and end for good, as the writer and the stream do. *)
LEMMA WriterProgresses ==
  ASSUME TypeOK, WriterNext
  PROVE  /\ Offered \subseteq Offered'
         /\ \A a \in Announcements : alive'[a] => alive[a]
         /\ closed => closed'
         /\ up' => up
<1>1. alive \in [Announcements -> BOOLEAN] /\ pushed \in Seq(Announcements)
  BY DEF TypeOK, WriterTypeOK
<1> USE DEF sourceVars, serveVars, entryVars, wireVars
<1>2. snapshot' = snapshot /\ (pushed' = pushed \/ \E a \in Announcements : pushed' = Append(pushed, a))
  BY DEF WriterNext, ServeStep, WatchStep, CloserStep, EndAnnouncement, PushAnnouncement, TakeWatch, RunWatch, StopAll,
         CancelStream, InitFilter, InitStore, InitOk, InitSend, InitRegister, ServeReceive, SendCheck, SendStopOld,
         SendRemoveOld, SendActive, RescopeWriter, ServeReturns
<1>3. \A a \in Announcements : Range(pushed) \subseteq Range(Append(pushed, a))
  BY <1>1, RangeOfAppend
<1>4. Offered \subseteq Offered'
  BY <1>2, <1>3 DEF Offered
<1>5. \A a \in Announcements : alive'[a] => alive[a]
  BY <1>1 DEF WriterNext, ServeStep, WatchStep, CloserStep, EndAnnouncement, PushAnnouncement, TakeWatch, RunWatch, StopAll,
         CancelStream, InitFilter, InitStore, InitOk, InitSend, InitRegister, ServeReceive, SendCheck, SendStopOld,
         SendRemoveOld, SendActive, RescopeWriter, ServeReturns
<1>6. closed => closed'
  BY DEF WriterNext, ServeStep, WatchStep, CloserStep, EndAnnouncement, PushAnnouncement, TakeWatch, RunWatch, StopAll,
         CancelStream, InitFilter, InitStore, InitOk, InitSend, InitRegister, ServeReceive, SendCheck, SendStopOld,
         SendRemoveOld, SendActive, RescopeWriter, ServeReturns
<1>7. up' => up
  BY DEF WriterNext, ServeStep, WatchStep, CloserStep, EndAnnouncement, PushAnnouncement, TakeWatch, RunWatch, StopAll,
         CancelStream, InitFilter, InitStore, InitOk, InitSend, InitRegister, ServeReceive, SendCheck, SendStopOld,
         SendRemoveOld, SendActive, RescopeWriter, ServeReturns
<1>8. QED
  BY <1>4, <1>5, <1>6, <1>7

(* What the peer will hold, when the writer says m. *)
LEMMA ShowsAppend ==
  ASSUME WireTypeOK, NEW m \in Messages, wire' = Append(wire, m), held' = held, remote' = remote
  PROVE  /\ \A n \in 0..Len(wire) : \A s, a : ShowsAfter(n, s, a)' <=> ShowsAfter(n, s, a)
         /\ \A n \in Nat : \A s, a :
                n = Len(wire) =>
                    (ShowsAfter(n + 1, s, a)' <=> IsActive(m, s, a) \/ (ShowsAfter(n, s, a) /\ ~IsFor(m, s)))
<1>1. wire \in Seq(Messages) /\ Len(wire) \in Nat /\ wire'[Len(wire) + 1] = m
  BY AppendIs DEF WireTypeOK
<1>2. \A s, a : PeerHolds(s, a)' <=> PeerHolds(s, a)
  BY DEF PeerHolds, Live
<1>3. \A n \in 0..Len(wire) : \A s, a :
        (Silent(wire', n, s) <=> Silent(wire, n, s)) /\ (LastSays(wire', n, s, a) <=> LastSays(wire, n, s, a))
  BY <1>1, SaysBefore
<1>4. \A n \in 0..Len(wire) : \A s, a : ShowsAfter(n, s, a)' <=> ShowsAfter(n, s, a)
  BY <1>2, <1>3 DEF ShowsAfter
<1>5. ASSUME NEW n \in Nat, NEW s, NEW a, n = Len(wire)
      PROVE  ShowsAfter(n + 1, s, a)' <=> IsActive(m, s, a) \/ (ShowsAfter(n, s, a) /\ ~IsFor(m, s))
  <2>1. /\ Silent(wire', n + 1, s) <=> Silent(wire', n, s) /\ ~IsFor(wire'[n + 1], s)
        /\ LastSays(wire', n + 1, s, a) <=>
                IsActive(wire'[n + 1], s, a) \/ (LastSays(wire', n, s, a) /\ ~IsFor(wire'[n + 1], s))
    BY SaysNext
  <2>2. wire'[n + 1] = m /\ n \in 0..Len(wire)
    BY <1>1, <1>5
  <2>3. QED
    BY <1>2, <1>3, <2>1, <2>2 DEF ShowsAfter
<1>6. QED
  BY <1>4, <1>5

(* What it will have an entry for, when the writer says m. *)
LEMMA KnowsAppend ==
  ASSUME WireTypeOK, NEW m \in Messages, wire' = Append(wire, m), held' = held, remote' = remote
  PROVE  /\ \A n \in 0..Len(wire) : \A s, a : KnowsAfter(n, s, a)' <=> KnowsAfter(n, s, a)
         /\ \A n \in Nat : \A s, a :
                n = Len(wire) =>
                    (KnowsAfter(n + 1, s, a)' <=> IsActive(m, s, a) \/ (KnowsAfter(n, s, a) /\ ~IsFor(m, s)))
<1>1. wire \in Seq(Messages) /\ Len(wire) \in Nat /\ wire'[Len(wire) + 1] = m
  BY AppendIs DEF WireTypeOK
<1>2. \A s, a : KnownAs(s, a)' <=> KnownAs(s, a)
  BY DEF KnownAs
<1>3. \A n \in 0..Len(wire) : \A s, a :
        (Silent(wire', n, s) <=> Silent(wire, n, s)) /\ (LastSays(wire', n, s, a) <=> LastSays(wire, n, s, a))
  BY <1>1, SaysBefore
<1>4. \A n \in 0..Len(wire) : \A s, a : KnowsAfter(n, s, a)' <=> KnowsAfter(n, s, a)
  BY <1>2, <1>3 DEF KnowsAfter
<1>5. ASSUME NEW n \in Nat, NEW s, NEW a, n = Len(wire)
      PROVE  KnowsAfter(n + 1, s, a)' <=> IsActive(m, s, a) \/ (KnowsAfter(n, s, a) /\ ~IsFor(m, s))
  <2>1. /\ Silent(wire', n + 1, s) <=> Silent(wire', n, s) /\ ~IsFor(wire'[n + 1], s)
        /\ LastSays(wire', n + 1, s, a) <=>
                IsActive(wire'[n + 1], s, a) \/ (LastSays(wire', n, s, a) /\ ~IsFor(wire'[n + 1], s))
    BY SaysNext
  <2>2. wire'[n + 1] = m /\ n \in 0..Len(wire)
    BY <1>1, <1>5
  <2>3. QED
    BY <1>2, <1>3, <2>1, <2>2 DEF KnowsAfter
<1>6. QED
  BY <1>4, <1>5

(* What was a reason remains one. *)
LEMMA ReasonsStay ==
  ASSUME setting' = setting, Offered \subseteq Offered', \A a \in Announcements : alive'[a] => alive[a]
  PROVE  \A s : \A a \in Announcements : HasReason(s, a) => HasReason(s, a)'
<1>1. SuffixOf' = SuffixOf
  BY SameSetting
<1>2. QED
  BY <1>1 DEF HasReason

LEMMA KindsDiffer ==
  /\ \A n \in Nat : \A s, a : ~IsFor(OkMsg(n), s) /\ ~IsActive(OkMsg(n), s, a) /\ ~IsEnded(OkMsg(n), s)
  /\ \A r, s \in Suffixes : \A a :
        /\ IsFor(EndedMsg(r), s) <=> r = s
        /\ IsEnded(EndedMsg(r), s) <=> r = s
        /\ ~IsActive(EndedMsg(r), s, a)
  /\ \A r, s \in Suffixes, a, b \in Announcements :
        /\ IsFor(ActiveMsg(r, b), s) <=> r = s
        /\ ~IsEnded(ActiveMsg(r, b), s)
        /\ IsActive(ActiveMsg(r, b), s, a) <=> r = s /\ a = b
  BY DEF OkMsg, EndedMsg, ActiveMsg, IsFor, IsActive, IsEnded

(* The four invariants on what the peer will hold, over a step of the writer. *)
LEMMA WriterShows ==
  ASSUME TypeOK, StreamInv, FaithInv, Speaks, setting' = setting, UNCHANGED readerVars,
         Offered \subseteq Offered', \A a \in Announcements : alive'[a] => alive[a],
         closed => closed', up' => up
  PROVE  StreamInv' /\ FaithInv'
<1>1. /\ Suffixes' = Suffixes /\ Scoped' = Scoped /\ LocalEnds' = LocalEnds
  BY SameSetting
<1>2. /\ held' = held /\ remote' = remote /\ done' = done /\ violation' = violation
      /\ actives \in [Suffixes -> Announcements \cup {NoAnnouncement}]
      /\ wire \in Seq(Messages) /\ Len(wire) \in Nat /\ WireTypeOK
  BY WireIs DEF readerVars, TypeOK, WireTypeOK, WriterTypeOK, ActiveMaps
<1>3. \A s : \A a \in Announcements : HasReason(s, a) => HasReason(s, a)'
  BY ReasonsStay
<1>4. Scoped' <=> Scoped
  BY <1>1
<1>5. \A a \in Announcements : a # NoAnnouncement
  BY SuffixesAre
<1>6. KeptLiveInv'
  BY <1>1, <1>2 DEF FaithInv, KeptLiveInv, Live
<1>7. CASE SaysNothing
  <2>1. wire' = wire /\ Len(wire') = Len(wire)
    BY <1>7 DEF SaysNothing
  <2>2. \A n, s, a : (ShowsAfter(n, s, a)' <=> ShowsAfter(n, s, a)) /\ (KnowsAfter(n, s, a)' <=> KnowsAfter(n, s, a))
    BY <1>2, <2>1 DEF ShowsAfter, PeerHolds, Live, KnowsAfter, KnownAs
  <2>3. ReasonInv'
    BY <1>1, <1>3, <2>1, <2>2 DEF StreamInv, ReasonInv
  <2>4. AheadInv'
    BY <1>1, <1>7, <2>1, <2>2 DEF StreamInv, AheadInv, SaysNothing
  <2>5. EndsHeldInv'
    BY <1>1, <1>4, <2>1, <2>2 DEF FaithInv, EndsHeldInv
  <2>6. BehindInv'
    BY <1>1, <1>4, <1>7, <2>1, <2>2 DEF FaithInv, BehindInv, SaysNothing
  <2>7. QED
    BY <1>6, <2>3, <2>4, <2>5, <2>6 DEF StreamInv, FaithInv
<1>8. ASSUME NEW m \in Messages, wire' = Append(wire, m)
      PROVE  /\ Len(wire') = Len(wire) + 1
             /\ \A n \in Nat : n < Len(wire') => n < Len(wire) \/ n = Len(wire)
             /\ \A n \in Nat : n < Len(wire) => n \in 0..Len(wire) /\ wire'[n + 1] = wire[n + 1]
             /\ \A n \in Nat : n = Len(wire) => n \in 0..Len(wire) /\ wire'[n + 1] = m
             /\ \A n \in Nat : n = Len(wire') => n - 1 \in Nat /\ n - 1 = Len(wire) /\ (n - 1) + 1 = n
             /\ \A n \in Nat : n < Len(wire) =>
                    \A s, a : ShowsAfter(n, s, a)' <=> ShowsAfter(n, s, a)
             /\ \A n \in Nat : n = Len(wire) =>
                    \A s, a : /\ ShowsAfter(n, s, a)' <=> ShowsAfter(n, s, a)
                              /\ ShowsAfter(n + 1, s, a)' <=> IsActive(m, s, a) \/ (ShowsAfter(n, s, a) /\ ~IsFor(m, s))
  <2>1. /\ Len(wire') = Len(wire) + 1 /\ \A i \in 1..Len(wire) : wire'[i] = wire[i]
        /\ wire'[Len(wire) + 1] = m
    BY <1>2, <1>8, AppendIs
  <2>2. \A n \in Nat : n < Len(wire) \/ n = Len(wire) => n \in 0..Len(wire)
    BY <1>2
  <2>3. \A n \in Nat : n < Len(wire) => n + 1 \in 1..Len(wire)
    BY <1>2
  <2>4. \A n \in Nat : n < Len(wire') => n < Len(wire) \/ n = Len(wire)
    BY <1>2, <2>1
  <2>5. \A n \in Nat : n = Len(wire') => n - 1 \in Nat /\ n - 1 = Len(wire) /\ (n - 1) + 1 = n
    BY <1>2, <2>1
  <2>6. /\ \A n \in 0..Len(wire) : \A s, a : ShowsAfter(n, s, a)' <=> ShowsAfter(n, s, a)
        /\ \A n \in Nat : \A s, a : n = Len(wire) =>
              (ShowsAfter(n + 1, s, a)' <=> IsActive(m, s, a) \/ (ShowsAfter(n, s, a) /\ ~IsFor(m, s)))
    BY <1>2, <1>8, ShowsAppend
  <2>7. QED
    BY <2>1, <2>2, <2>3, <2>4, <2>5, <2>6
<1>8k. ASSUME NEW m \in Messages, wire' = Append(wire, m)
       PROVE  /\ \A n \in Nat : n < Len(wire) =>
                     \A s, a : KnowsAfter(n, s, a)' <=> KnowsAfter(n, s, a)
              /\ \A n \in Nat : n = Len(wire) =>
                     \A s, a : /\ KnowsAfter(n, s, a)' <=> KnowsAfter(n, s, a)
                               /\ KnowsAfter(n + 1, s, a)' <=> IsActive(m, s, a) \/ (KnowsAfter(n, s, a) /\ ~IsFor(m, s))
  <2>1. \A n \in Nat : n < Len(wire) \/ n = Len(wire) => n \in 0..Len(wire)
    BY <1>2
  <2>2. /\ \A n \in 0..Len(wire) : \A s, a : KnowsAfter(n, s, a)' <=> KnowsAfter(n, s, a)
        /\ \A n \in Nat : \A s, a : n = Len(wire) =>
              (KnowsAfter(n + 1, s, a)' <=> IsActive(m, s, a) \/ (KnowsAfter(n, s, a) /\ ~IsFor(m, s)))
    BY <1>2, <1>8k, KnowsAppend
  <2>3. QED
    BY <2>1, <2>2
<1>9. CASE SaysOk
  <2>1. PICK k \in Nat : wire' = Append(wire, OkMsg(k))
    BY <1>9 DEF SaysOk
  <2>2. OkMsg(k) \in Messages /\ \A s \in Suffixes : \A a : ~IsFor(OkMsg(k), s) /\ ~IsActive(OkMsg(k), s, a) /\ ~IsEnded(OkMsg(k), s)
    BY MessagesAre, KindsDiffer
  <2> DEFINE m == OkMsg(k)
  <2> HIDE DEF m
  <2>3. UNCHANGED <<actives, todo>>
    BY <1>9 DEF SaysOk
  <2>4. ReasonInv'
    BY <1>1, <1>3, <1>8, <2>1, <2>2 DEF StreamInv, ReasonInv
  <2>5. AheadInv'
    BY <1>1, <1>8, <2>1, <2>2, <2>3 DEF StreamInv, AheadInv
  <2>6. EndsHeldInv'
    <3> SUFFICES ASSUME ~Scoped, NEW n \in Nat, NEW s \in Suffixes, n < Len(wire'), IsEnded(wire'[n + 1], s)
                 PROVE  \E a \in Announcements : KnowsAfter(n, s, a)'
      BY <1>1, <1>4 DEF EndsHeldInv
    <3>1. n < Len(wire)
      BY <1>8, <1>8k, <2>1, <2>2
    <3>2. IsEnded(wire[n + 1], s) /\ \A a : KnowsAfter(n, s, a)' <=> KnowsAfter(n, s, a)
      BY <1>8, <1>8k, <2>1, <2>2, <3>1
    <3>3. QED
      BY <3>1, <3>2 DEF FaithInv, EndsHeldInv
  <2>7. BehindInv'
    BY <1>1, <1>4, <1>8, <1>8k, <2>1, <2>2, <2>3 DEF FaithInv, BehindInv
  <2>8. QED
    BY <1>6, <2>4, <2>5, <2>6, <2>7 DEF StreamInv, FaithInv
<1>10. ASSUME NEW r \in Suffixes, NEW b \in Announcements, SaysEnded(r, b)
       PROVE  StreamInv' /\ FaithInv'
  <2> DEFINE m == EndedMsg(r)
  <2>1. /\ up /\ ~closed /\ actives[r] = b /\ r \notin todo /\ HasReason(r, b)
        /\ wire' = Append(wire, m) /\ todo' = todo
        /\ actives' = [actives EXCEPT ![r] = NoAnnouncement]
    BY <1>10 DEF SaysEnded
  <2>2. m \in Messages /\ \A s \in Suffixes : \A a : (IsFor(m, s) <=> r = s) /\ (IsEnded(m, s) <=> r = s) /\ ~IsActive(m, s, a)
    BY MessagesAre, KindsDiffer
  <2> HIDE DEF m
  <2>3. \A n \in Nat, a \in Announcements : n = Len(wire) /\ ShowsAfter(n, r, a) => HasReason(r, a)
    BY <2>1 DEF StreamInv, AheadInv
  <2>4. ReasonInv'
    BY <1>1, <1>3, <1>8, <2>1, <2>2, <2>3 DEF StreamInv, ReasonInv
  <2>5. AheadInv'
    <3>1. \A s \in Suffixes : s # r => actives'[s] = actives[s]
      BY <1>2, <2>1
    <3>2. QED
      BY <1>1, <1>8, <2>1, <2>2, <3>1 DEF StreamInv, AheadInv
  <2>6. EndsHeldInv'
    <3> SUFFICES ASSUME ~Scoped, NEW n \in Nat, NEW s \in Suffixes, n < Len(wire'), IsEnded(wire'[n + 1], s)
                 PROVE  \E a \in Announcements : KnowsAfter(n, s, a)'
      BY <1>1, <1>4 DEF EndsHeldInv
    <3>1. CASE n < Len(wire)
      <4>1. IsEnded(wire[n + 1], s) /\ \A a : KnowsAfter(n, s, a)' <=> KnowsAfter(n, s, a)
        BY <1>8, <1>8k, <2>1, <2>2, <3>1
      <4>2. QED
        BY <3>1, <4>1 DEF FaithInv, EndsHeldInv
    <3>2. CASE n = Len(wire)
      <4>1. wire'[n + 1] = m /\ \A a : KnowsAfter(n, s, a)' <=> KnowsAfter(n, s, a)
        BY <1>8, <1>8k, <2>1, <2>2, <3>2
      <4>2. IsEnded(m, s)
        BY <4>1
      <4>3. r = s
        BY <2>2, <4>2
      <4>4. KnowsAfter(n, r, b)
        BY <2>1, <3>2 DEF FaithInv, BehindInv
      <4>5. QED
        BY <4>1, <4>3, <4>4
    <3>3. QED
      BY <1>8, <1>8k, <2>1, <2>2, <3>1, <3>2
  <2>7. BehindInv'
    <3>1. \A s \in Suffixes, a \in Announcements : actives'[s] = a => s # r /\ actives[s] = a
      BY <1>2, <1>5, <2>1
    <3>2. QED
      BY <1>1, <1>4, <1>8, <1>8k, <2>1, <2>2, <3>1 DEF FaithInv, BehindInv
  <2>8. QED
    BY <1>6, <2>4, <2>5, <2>6, <2>7 DEF StreamInv, FaithInv
<1>11. ASSUME NEW r \in Suffixes, NEW b \in Announcements, SaysActive(r, b)
       PROVE  StreamInv' /\ FaithInv'
  <2> DEFINE m == ActiveMsg(r, b)
  <2>1. /\ wire' = Append(wire, m)
        /\ \A s \in Suffixes : s # r => actives'[s] = actives[s] /\ (s \in todo => s \in todo')
        /\ closed' \/ actives'[r] = b
        /\ \A a \in Announcements : actives'[r] = a => a = b
    BY <1>11 DEF SaysActive
  <2>2. m \in Messages /\ \A s \in Suffixes, a \in Announcements :
            (IsFor(m, s) <=> r = s) /\ ~IsEnded(m, s) /\ (IsActive(m, s, a) <=> r = s /\ a = b)
    BY MessagesAre, KindsDiffer
  <2> HIDE DEF m
  <2>3. ReasonInv'
    BY <1>1, <1>3, <1>8, <2>1, <2>2 DEF StreamInv, ReasonInv
  <2>4. AheadInv'
    BY <1>1, <1>8, <2>1, <2>2 DEF StreamInv, AheadInv
  <2>5. EndsHeldInv'
    <3> SUFFICES ASSUME ~Scoped, NEW n \in Nat, NEW s \in Suffixes, n < Len(wire'), IsEnded(wire'[n + 1], s)
                 PROVE  \E a \in Announcements : KnowsAfter(n, s, a)'
      BY <1>1, <1>4 DEF EndsHeldInv
    <3>1. n < Len(wire)
      BY <1>8, <2>1, <2>2
    <3>2. IsEnded(wire[n + 1], s) /\ \A a : KnowsAfter(n, s, a)' <=> KnowsAfter(n, s, a)
      BY <1>8, <1>8k, <2>1, <2>2, <3>1
    <3>3. QED
      BY <3>1, <3>2 DEF FaithInv, EndsHeldInv
  <2>6. BehindInv'
    BY <1>1, <1>4, <1>8, <1>8k, <2>1, <2>2 DEF FaithInv, BehindInv
  <2>7. QED
    BY <1>6, <2>3, <2>4, <2>5, <2>6 DEF StreamInv, FaithInv
<1>12. QED
  BY <1>7, <1>9, <1>10, <1>11 DEF Speaks

-----------------------------------------------------------------------------
(* What a step of the reader does to what it holds *)

(* It decodes a message of the stream, or leaves the stream alone.         *)
LEMMA EndingHeld ==
  ASSUME TypeOK, NEW E, remote' = [i \in DOMAIN remote |-> IF i \in E THEN [remote[i] EXCEPT !.live = FALSE] ELSE remote[i]]
  PROVE  /\ Len(remote') = Len(remote) /\ DOMAIN remote' = DOMAIN remote
         /\ \A i \in DOMAIN remote :
                /\ remote'[i].suffix = remote[i].suffix /\ remote'[i].announcement = remote[i].announcement
                /\ remote'[i].live => remote[i].live /\ i \notin E
                /\ i \notin E => remote'[i] = remote[i]
<1>1. DOMAIN remote = 1..Len(remote) /\ \A i \in DOMAIN remote : remote[i] \in RemoteAnnouncements
  BY ReaderIs
<1>2. Len(remote') = Len(remote)
  BY EndSome
<1>3. DOMAIN remote' = DOMAIN remote /\ \A i \in DOMAIN remote :
         remote'[i] = IF i \in E THEN [remote[i] EXCEPT !.live = FALSE] ELSE remote[i]
  OBVIOUS
<1>4. QED
  BY <1>1, <1>2, <1>3, RemotesAre

(* The entry of another suffix is another. *)
LEMMA HeldApart ==
  ASSUME TypeOK, \A s \in Suffixes : held[s] # 0 => remote[held[s]].suffix = s
  PROVE  \A r, s \in Suffixes : held[r] # 0 /\ r # s => held[r] # held[s]
  OBVIOUS

(* What was held for the suffix is ended, and dropped or replaced. *)
LEMMA DropIs ==
  ASSUME TypeOK, ReaderInv, NEW s \in Suffixes, remote' = EndHeld(s), held' = [held EXCEPT ![s] = 0]
  PROVE  /\ held'[s] = 0 /\ \A a : ~PeerHolds(s, a)'
         /\ \A r \in Suffixes : r # s => held'[r] = held[r] /\ (held[r] # 0 => remote'[held[r]] = remote[held[r]])
         /\ \A r \in Suffixes : \A a : r # s => (PeerHolds(r, a)' <=> PeerHolds(r, a))
         /\ \A i \in DOMAIN remote' : i \in DOMAIN remote /\ remote'[i].suffix = remote[i].suffix
                                      /\ (remote'[i].live => remote[i].live /\ i # held[s])
<1>1. /\ Len(remote) \in Nat /\ DOMAIN remote = 1..Len(remote)
      /\ \A i \in 1..Len(remote) : remote[i] \in RemoteAnnouncements
      /\ \A r \in Suffixes : held[r] \in 0..Len(remote)
  BY ReaderIs
<1>2. /\ DOMAIN remote' = DOMAIN remote
      /\ \A i \in DOMAIN remote : remote'[i] = IF i = held[s] THEN [remote[i] EXCEPT !.live = FALSE] ELSE remote[i]
  BY EndHeldIs
<1>3. held'[s] = 0 /\ \A r \in Suffixes : r # s => held'[r] = held[r]
  BY DEF TypeOK, ReaderTypeOK
<1>4. \A r \in Suffixes : held[r] # 0 /\ r # s => held[r] # held[s] /\ held[r] \in DOMAIN remote
  BY <1>1 DEF ReaderInv
<1>5. \A a : ~PeerHolds(s, a)'
  BY <1>3 DEF PeerHolds, Live
<1>6. \A r \in Suffixes : r # s /\ held[r] # 0 => remote'[held[r]] = remote[held[r]]
  BY <1>2, <1>4
<1>7. \A r \in Suffixes : \A a : r # s => (PeerHolds(r, a)' <=> PeerHolds(r, a))
  BY <1>3, <1>6 DEF PeerHolds, Live
<1>8. ASSUME NEW i \in DOMAIN remote
      PROVE  remote'[i].suffix = remote[i].suffix /\ (remote'[i].live => remote[i].live /\ i # held[s])
  <2>1. remote[i] \in RemoteAnnouncements
    BY <1>1
  <2>2. remote'[i] = IF i = held[s] THEN [remote[i] EXCEPT !.live = FALSE] ELSE remote[i]
    BY <1>2
  <2>3. QED
    BY <2>1, <2>2, RemotesAre
<1>9. QED
  BY <1>2, <1>3, <1>5, <1>6, <1>7, <1>8

LEMMA ReplaceIs ==
  ASSUME TypeOK, ReaderInv, NEW s \in Suffixes, NEW b \in Announcements, Activate(s, b)
  PROVE  /\ \A a : PeerHolds(s, a)' <=> ~done /\ a = b
         /\ held'[s] # 0 /\ remote'[held'[s]].announcement = b /\ remote'[held'[s]].live = ~done
         /\ \A r \in Suffixes : r # s => held'[r] = held[r] /\ (held[r] # 0 => remote'[held[r]] = remote[held[r]])
         /\ \A r \in Suffixes : \A a : r # s => (PeerHolds(r, a)' <=> PeerHolds(r, a))
         /\ \A i \in DOMAIN remote' :
                \/ i = held'[s] /\ remote'[i].suffix = s
                \/ i \in DOMAIN remote /\ remote'[i].suffix = remote[i].suffix
                   /\ (remote'[i].live => remote[i].live /\ i # held[s])
<1>1. /\ Len(remote) \in Nat /\ DOMAIN remote = 1..Len(remote)
      /\ \A i \in 1..Len(remote) : remote[i] \in RemoteAnnouncements
      /\ \A r \in Suffixes : held[r] \in 0..Len(remote)
  BY ReaderIs
<1>2. /\ DOMAIN remote' = 1..(Len(remote) + 1)
      /\ \A i \in 1..Len(remote) : remote'[i] = IF i = held[s] THEN [remote[i] EXCEPT !.live = FALSE] ELSE remote[i]
      /\ remote'[Len(remote) + 1] = [suffix |-> s, announcement |-> b, live |-> ~done]
      /\ held' = [held EXCEPT ![s] = Len(remote) + 1]
  BY ActivateIs
<1>3. held'[s] = Len(remote) + 1 /\ Len(remote) + 1 # 0 /\ \A r \in Suffixes : r # s => held'[r] = held[r]
  BY <1>1, <1>2 DEF TypeOK, ReaderTypeOK
<1>4. \A r \in Suffixes : held[r] # 0 /\ r # s => held[r] # held[s] /\ held[r] \in 1..Len(remote)
  BY <1>1 DEF ReaderInv
<1>5. /\ remote'[held'[s]].announcement = b /\ remote'[held'[s]].live = ~done
      /\ \A a : PeerHolds(s, a)' <=> ~done /\ a = b
  <2>1. remote'[held'[s]] = [suffix |-> s, announcement |-> b, live |-> ~done]
    BY <1>2, <1>3
  <2>2. remote'[held'[s]].announcement = b /\ remote'[held'[s]].live = ~done
    BY <2>1
  <2>3. QED
    BY <1>3, <2>2 DEF PeerHolds, Live
<1>6. \A r \in Suffixes : r # s /\ held[r] # 0 => remote'[held[r]] = remote[held[r]]
  BY <1>2, <1>4
<1>7. \A r \in Suffixes : \A a : r # s => (PeerHolds(r, a)' <=> PeerHolds(r, a))
  BY <1>3, <1>6 DEF PeerHolds, Live
<1>8. ASSUME NEW i \in DOMAIN remote'
      PROVE  \/ i = held'[s] /\ remote'[i].suffix = s
             \/ i \in DOMAIN remote /\ remote'[i].suffix = remote[i].suffix
                /\ (remote'[i].live => remote[i].live /\ i # held[s])
  <2>1. CASE i = Len(remote) + 1
    BY <1>2, <1>3, <2>1
  <2>2. CASE i # Len(remote) + 1
    <3>1. i \in 1..Len(remote)
      BY <1>1, <1>2, <2>2
    <3>2. remote[i] \in RemoteAnnouncements
      BY <1>1, <3>1
    <3>3. remote'[i] = IF i = held[s] THEN [remote[i] EXCEPT !.live = FALSE] ELSE remote[i]
      BY <1>2, <3>1
    <3>4. QED
      BY <1>1, <3>1, <3>2, <3>3, RemotesAre
  <2>3. QED
    BY <2>1, <2>2
<1>9. QED
  BY <1>3, <1>5, <1>6, <1>7, <1>8

(* A decode that takes the first message m leaves what it said of its      *)
(* suffix held, or nothing, and the rest as it was.                        *)
Reads(m) ==
    /\ wire # <<>> /\ m = wire[1] /\ wire' = Tail(wire)
    /\ \A s \in Suffixes, a \in Announcements :
        /\ ~IsFor(m, s) => (PeerHolds(s, a)' <=> PeerHolds(s, a))
        /\ IsFor(m, s) => (PeerHolds(s, a)' => IsActive(m, s, a))
        /\ ~Scoped => (IsActive(m, s, a) \/ (~IsFor(m, s) /\ KnownAs(s, a)) => KnownAs(s, a)')

ReadsNothing ==
    /\ wire' = wire
    /\ \A s \in Suffixes, a \in Announcements :
        /\ PeerHolds(s, a)' => PeerHolds(s, a)
        /\ ~Scoped => (KnownAs(s, a) => KnownAs(s, a)')

LEMMA ReaderReads ==
  ASSUME TypeOK, ReaderInv, ReaderNext, setting' = setting
  PROVE  ReadsNothing \/ \E m \in Messages : Reads(m)
<1>1. wire # <<>> => Head(wire) = wire[1] /\ wire[1] \in Messages
  BY TailIs DEF TypeOK, WireTypeOK
<1>2. wire # <<>> /\ Head(wire).type \in {"active", "ended"} => Head(wire).suffix \in Suffixes
  BY <1>1, FieldsAre
<1>3. wire # <<>> /\ Head(wire).type = "active" => Head(wire).announcement \in Announcements
  BY <1>1, FieldsAre
<1>4. Suffixes' = Suffixes /\ Scoped' = Scoped /\ LocalEnds' = LocalEnds
  BY SameSetting
<1>5. remote' = remote /\ held' = held =>
        \A s, a : (PeerHolds(s, a)' <=> PeerHolds(s, a)) /\ (KnownAs(s, a)' <=> KnownAs(s, a))
  BY DEF PeerHolds, Live, KnownAs
<1> USE DEF appVars, wireVars
<1>6. CASE UNCHANGED <<wire, remote, held>>
  BY <1>5, <1>6 DEF ReadsNothing
<1>7. CASE RecvOk
  <2>1. wire # <<>> /\ Head(wire).type = "ok" /\ wire' = Tail(wire) /\ UNCHANGED <<remote, held>>
    BY <1>7 DEF RecvOk, Decode
  <2>2. Reads(wire[1])
    BY <1>1, <1>5, <2>1 DEF Reads, IsFor, IsActive
  <2>3. QED
    BY <1>1, <2>1, <2>2
<1>8. CASE RecvActive
  <2>7. wire # <<>> /\ Head(wire).type = "active" /\ wire' = Tail(wire) /\ done' = done
    BY <1>8 DEF RecvActive, Decode
  <2>2. PICK s \in Suffixes, b \in Announcements : s = Head(wire).suffix /\ b = Head(wire).announcement
    BY <1>2, <1>3, <2>7
  <2>1. /\ wire # <<>> /\ Head(wire).type = "active" /\ wire' = Tail(wire) /\ done' = done
        /\ \/ Activate(s, b)
           \/ s \notin allowed /\ remote' = EndHeld(s) /\ held' = [held EXCEPT ![s] = 0]
    BY <1>8, <2>2, <2>7 DEF RecvActive
  <2>3. \A r \in Suffixes : \A a :
            /\ IsFor(wire[1], r) <=> r = s
            /\ IsActive(wire[1], r, a) <=> r = s /\ a = b
    BY <1>1, <2>1, <2>2 DEF IsFor, IsActive
  <2>4. CASE Activate(s, b)
    <3>1. /\ \A a : PeerHolds(s, a)' <=> ~done /\ a = b
          /\ \A r \in Suffixes : \A a : r # s => (PeerHolds(r, a)' <=> PeerHolds(r, a))
          /\ held'[s] # 0 /\ remote'[held'[s]].announcement = b
          /\ \A r \in Suffixes : r # s => held'[r] = held[r] /\ (held[r] # 0 => remote'[held[r]] = remote[held[r]])
      BY <2>2, <2>4, ReplaceIs
    <3>2. KnownAs(s, b)' /\ \A r \in Suffixes : \A a : r # s /\ KnownAs(r, a) => KnownAs(r, a)'
      BY <3>1 DEF KnownAs
    <3>3. ASSUME NEW r \in Suffixes, NEW a \in Announcements
          PROVE  /\ ~IsFor(wire[1], r) => (PeerHolds(r, a)' <=> PeerHolds(r, a))
                 /\ IsFor(wire[1], r) => (PeerHolds(r, a)' => IsActive(wire[1], r, a))
                 /\ ~Scoped => (IsActive(wire[1], r, a) \/ (~IsFor(wire[1], r) /\ KnownAs(r, a)) => KnownAs(r, a)')
      <4>1. CASE r = s
        BY <2>3, <3>1, <3>2, <4>1
      <4>2. CASE r # s
        BY <2>3, <3>1, <3>2, <4>2
      <4>3. QED
        BY <4>1, <4>2
    <3>4. Reads(wire[1])
      BY <2>1, <3>3 DEF Reads
    <3>5. QED
      BY <1>1, <2>1, <3>4
  <2>5. CASE s \notin allowed /\ remote' = EndHeld(s) /\ held' = [held EXCEPT ![s] = 0]
    <3>1. /\ \A a : ~PeerHolds(s, a)'
          /\ \A r \in Suffixes : \A a : r # s => (PeerHolds(r, a)' <=> PeerHolds(r, a))
      BY <2>2, <2>5, DropIs
    <3>2. Scoped
      BY <2>2, <2>5 DEF ReaderInv
    <3>3. ASSUME NEW r \in Suffixes, NEW a \in Announcements
          PROVE  /\ ~IsFor(wire[1], r) => (PeerHolds(r, a)' <=> PeerHolds(r, a))
                 /\ IsFor(wire[1], r) => (PeerHolds(r, a)' => IsActive(wire[1], r, a))
                 /\ ~Scoped => (IsActive(wire[1], r, a) \/ (~IsFor(wire[1], r) /\ KnownAs(r, a)) => KnownAs(r, a)')
      <4>1. CASE r = s
        BY <2>3, <3>1, <3>2, <4>1
      <4>2. CASE r # s
        BY <2>3, <3>1, <3>2, <4>2
      <4>3. QED
        BY <4>1, <4>2
    <3>4. Reads(wire[1])
      BY <2>1, <3>3 DEF Reads
    <3>5. QED
      BY <1>1, <2>1, <3>4
  <2>6. QED
    BY <2>1, <2>4, <2>5
<1>9. CASE RecvEnded
  <2>7. wire # <<>> /\ Head(wire).type = "ended" /\ wire' = Tail(wire)
    BY <1>9 DEF RecvEnded, Decode
  <2>2. PICK s \in Suffixes : s = Head(wire).suffix
    BY <1>2, <2>7
  <2>1. /\ wire # <<>> /\ Head(wire).type = "ended" /\ wire' = Tail(wire)
        /\ \/ remote' = EndHeld(s) /\ held' = [held EXCEPT ![s] = 0]
           \/ ~Live(held[s]) /\ UNCHANGED <<remote, held>>
    BY <1>9, <2>2, <2>7 DEF RecvEnded
  <2>3. \A r \in Suffixes : \A a : (IsFor(wire[1], r) <=> r = s) /\ ~IsActive(wire[1], r, a)
    BY <1>1, <2>1, <2>2 DEF IsFor, IsActive
  <2>4. /\ \A a : ~PeerHolds(s, a)'
        /\ \A r \in Suffixes : \A a : r # s => (PeerHolds(r, a)' <=> PeerHolds(r, a)) /\ (KnownAs(r, a) => KnownAs(r, a)')
    <3>1. CASE remote' = EndHeld(s) /\ held' = [held EXCEPT ![s] = 0]
      <4>1. /\ \A a : ~PeerHolds(s, a)'
            /\ \A r \in Suffixes : \A a : r # s => (PeerHolds(r, a)' <=> PeerHolds(r, a))
            /\ \A r \in Suffixes : r # s => held'[r] = held[r] /\ (held[r] # 0 => remote'[held[r]] = remote[held[r]])
        BY <2>2, <3>1, DropIs
      <4>2. QED
        BY <4>1 DEF KnownAs
    <3>2. CASE ~Live(held[s]) /\ UNCHANGED <<remote, held>>
      BY <3>2 DEF PeerHolds, Live, KnownAs
    <3>3. QED
      BY <2>1, <3>1, <3>2
  <2>5. Reads(wire[1])
    BY <2>1, <2>3, <2>4 DEF Reads
  <2>6. QED
    BY <1>1, <2>1, <2>5
<1>10. ASSUME NEW E, wire' = wire, held' = held,
              remote' = [i \in DOMAIN remote |-> IF i \in E THEN [remote[i] EXCEPT !.live = FALSE] ELSE remote[i]]
       PROVE  ReadsNothing
  <2>1. \A i \in DOMAIN remote : remote'[i].announcement = remote[i].announcement /\ (remote'[i].live => remote[i].live)
    BY <1>10, EndingHeld
  <2>2. \A s \in Suffixes : held[s] # 0 => held[s] \in DOMAIN remote
    BY ReaderIs
  <2>3. \A s \in Suffixes : \A a : (PeerHolds(s, a)' => PeerHolds(s, a)) /\ (KnownAs(s, a) => KnownAs(s, a)')
    BY <1>10, <2>1, <2>2 DEF PeerHolds, Live, KnownAs
  <2>4. QED
    BY <1>10, <2>3 DEF ReadsNothing
<1>11. ASSUME NEW i \in DOMAIN remote, ContextEnds(i) \/ LocalEnd(i) PROVE ReadsNothing
  <2>1. remote' = [j \in DOMAIN remote |-> IF j \in {i} THEN [remote[j] EXCEPT !.live = FALSE] ELSE remote[j]]
    BY <1>11 DEF ContextEnds, LocalEnd
  <2>2. wire' = wire /\ held' = held
    BY <1>11 DEF ContextEnds, LocalEnd
  <2>3. QED
    BY <1>10, <2>1, <2>2
<1>12. CASE RescopeReader
  <2> DEFINE Refused == {s \in Suffixes \ allowed : held[s] # 0}
             E == {i \in DOMAIN remote : \E s \in Refused : held[s] = i}
  <2>1. wire' = wire /\ Scoped
    BY <1>12 DEF RescopeReader, ReaderInv
  <2>2. \/ UNCHANGED <<remote, held>>
        \/ /\ remote' = [i \in DOMAIN remote |-> IF i \in E THEN [remote[i] EXCEPT !.live = FALSE] ELSE remote[i]]
           /\ held' = [s \in Suffixes |-> IF s \in Refused THEN 0 ELSE held[s]]
    BY <1>12 DEF RescopeReader
  <2> HIDE DEF E, Refused
  <2>3. CASE UNCHANGED <<remote, held>>
    BY <1>6, <2>1, <2>3
  <2>4. CASE /\ remote' = [i \in DOMAIN remote |-> IF i \in E THEN [remote[i] EXCEPT !.live = FALSE] ELSE remote[i]]
             /\ held' = [s \in Suffixes |-> IF s \in Refused THEN 0 ELSE held[s]]
    <3>1. \A i \in DOMAIN remote : remote'[i].announcement = remote[i].announcement /\ (remote'[i].live => remote[i].live)
      BY <2>4, EndingHeld
    <3>2. \A s \in Suffixes : held[s] # 0 => held[s] \in DOMAIN remote
      BY ReaderIs
    <3>3. \A s \in Suffixes : held'[s] = 0 \/ held'[s] = held[s]
      BY <2>4
    <3>4. \A s \in Suffixes : \A a : PeerHolds(s, a)' => PeerHolds(s, a)
      BY <3>1, <3>2, <3>3 DEF PeerHolds, Live
    <3>5. ReadsNothing
      BY <2>1, <3>4 DEF ReadsNothing
    <3>6. QED
      BY <3>5
  <2>5. QED
    BY <2>2, <2>3, <2>4
<1>13. CASE DecodeFails
  BY <1>6, <1>13 DEF DecodeFails
<1>14. ASSUME NEW r \in Receivers, ReceiverStep(r) PROVE UNCHANGED <<wire, remote, held>>
  BY <1>14 DEF ReceiverStep, Receive, Wake
<1>15. CASE UserClose \/ UserCloseWithError \/ ChangeScope
  BY <1>6, <1>15 DEF UserClose, UserCloseWithError, CloseReader, ChangeScope
<1>16. QED
  BY <1>6, <1>7, <1>8, <1>9, <1>11, <1>12, <1>13, <1>14, <1>15 DEF ReaderNext, DecodeStep

(* A flag of the reader or the stream never goes back. *)
LEMMA ReaderProgresses ==
  ASSUME TypeOK, ReaderNext, setting' = setting
  PROVE  (up' => up) /\ (done => done')
<1> USE DEF appVars, wireVars
<1>1. up' => up
  BY DEF ReaderNext, DecodeStep, ReceiverStep, RecvOk, RecvActive, RecvEnded, DecodeFails, ContextEnds, LocalEnd, Receive,
         Wake, UserClose, UserCloseWithError, CloseReader, ChangeScope, RescopeReader
<1>2. done => done'
  BY DEF ReaderNext, DecodeStep, ReceiverStep, RecvOk, RecvActive, RecvEnded, DecodeFails, ContextEnds, LocalEnd, Receive,
         Wake, UserClose, UserCloseWithError, CloseReader, ChangeScope, RescopeReader
<1>3. QED
  BY <1>1, <1>2

(* What the peer will hold, when it reads on. *)
LEMMA ShowsTail ==
  ASSUME WireTypeOK, NEW m \in Messages, Reads(m)
  PROVE  /\ wire # <<>> /\ Len(wire) \in Nat /\ Len(wire') = Len(wire) - 1
         /\ \A n \in Nat : n < Len(wire') => n + 1 < Len(wire) /\ wire'[n + 1] = wire[(n + 1) + 1]
         /\ \A n \in Nat : n = Len(wire') => n + 1 = Len(wire)
         /\ \A n \in Nat, s \in Suffixes, a \in Announcements :
                n < Len(wire') \/ n = Len(wire') =>
                    /\ ShowsAfter(n, s, a)' => ShowsAfter(n + 1, s, a)
                    /\ ~Scoped => (KnowsAfter(n + 1, s, a) => KnowsAfter(n, s, a)')
<1>1. wire \in Seq(Messages) /\ wire # <<>> /\ wire' = Tail(wire) /\ m = wire[1]
  BY DEF WireTypeOK, Reads
<1>2. /\ Len(wire) \in Nat \ {0} /\ Len(wire') = Len(wire) - 1
      /\ \A i \in 1..(Len(wire) - 1) : wire'[i] = wire[i + 1]
  BY <1>1, TailIs
<1>3. \A n \in Nat : n < Len(wire') => n + 1 < Len(wire) /\ n + 1 \in 1..(Len(wire) - 1)
  BY <1>2
<1>4. \A n \in Nat : n < Len(wire') => wire'[n + 1] = wire[(n + 1) + 1]
  BY <1>2, <1>3
<1>5. \A n \in Nat : n = Len(wire') => n + 1 = Len(wire)
  BY <1>2
<1>6. ASSUME NEW n \in Nat, NEW s \in Suffixes, NEW a \in Announcements, n < Len(wire)
      PROVE  /\ ShowsAfter(n, s, a)' => ShowsAfter(n + 1, s, a)
             /\ ~Scoped => (KnowsAfter(n + 1, s, a) => KnowsAfter(n, s, a)')
  <2>1. /\ Silent(wire, n + 1, s) <=> ~IsFor(m, s) /\ Silent(wire', n, s)
        /\ LastSays(wire, n + 1, s, a) <=> LastSays(wire', n, s, a) \/ (IsActive(m, s, a) /\ Silent(wire', n, s))
    BY <1>1, <1>6, SaysTail
  <2>2. /\ ~IsFor(m, s) => (PeerHolds(s, a)' <=> PeerHolds(s, a))
        /\ IsFor(m, s) => (PeerHolds(s, a)' => IsActive(m, s, a))
        /\ ~Scoped => (IsActive(m, s, a) \/ (~IsFor(m, s) /\ KnownAs(s, a)) => KnownAs(s, a)')
    BY DEF Reads
  <2>3. ShowsAfter(n, s, a)' => ShowsAfter(n + 1, s, a)
    BY <2>1, <2>2 DEF ShowsAfter
  <2>4. ~Scoped => (KnowsAfter(n + 1, s, a) => KnowsAfter(n, s, a)')
    BY <2>1, <2>2 DEF KnowsAfter
  <2>5. QED
    BY <2>3, <2>4
<1>7. \A n \in Nat : n < Len(wire') \/ n = Len(wire') => n < Len(wire)
  BY <1>2
<1>8. QED
  BY <1>1, <1>2, <1>3, <1>4, <1>5, <1>6, <1>7

(* An ENDED never finds nothing, without a scope, and finds it live unless *)
(* the subscriber's side ended it.                                         *)
LEMMA AccusedIs ==
  ASSUME TypeOK, FaithInv, ReaderNext, violation' # violation
  PROVE  held[Head(wire).suffix] # 0 /\ (done \/ LocalEnds)
<1>1. RecvEnded
  BY DEF ReaderNext, DecodeStep, ReceiverStep, RecvOk, RecvActive, DecodeFails, ContextEnds, LocalEnd, Receive,
         Wake, UserClose, UserCloseWithError, CloseReader, ChangeScope, RescopeReader
<1>2. wire # <<>> /\ Head(wire).type = "ended"
  BY <1>1 DEF RecvEnded, Decode
<1>3. Head(wire) = wire[1] /\ wire[1] \in Messages /\ Len(wire) \in Nat \ {0}
  BY <1>2, TailIs DEF TypeOK, WireTypeOK
<1>4. Head(wire).suffix \in Suffixes
  BY <1>2, <1>3, FieldsAre
<1>5. PICK s \in Suffixes : s = Head(wire).suffix
  BY <1>4
<1>6. ~Scoped /\ ~Live(held[s])
  BY <1>1, <1>5 DEF RecvEnded
<1>7. held[s] # 0
  <2>1. 0 < Len(wire) /\ wire[0 + 1] = wire[1]
    BY <1>3
  <2>2. IsEnded(wire[0 + 1], s)
    BY <1>2, <1>3, <1>5, <2>1 DEF IsEnded
  <2>3. \E a \in Announcements : KnowsAfter(0, s, a)
    BY <1>6, <2>1, <2>2 DEF FaithInv, EndsHeldInv
  <2>4. \E a \in Announcements : KnownAs(s, a)
    BY <2>3, SaysNothingAtFirst DEF KnowsAfter
  <2>5. QED
    BY <2>4 DEF KnownAs
<1>8. done \/ LocalEnds
  BY <1>6, <1>7 DEF FaithInv, KeptLiveInv
<1>9. QED
  BY <1>5, <1>7, <1>8

(* What the reader keeps is live, over a step of the reader. *)
LEMMA ReaderKeepsLive ==
  ASSUME TypeOK, ReaderInv, KeptLiveInv, ReaderNext, setting' = setting
  PROVE  KeptLiveInv'
<1>1. Suffixes' = Suffixes /\ Scoped' = Scoped /\ LocalEnds' = LocalEnds /\ (done => done')
  BY SameSetting, ReaderProgresses
<1> SUFFICES ASSUME ~done, ~done', ~Scoped, ~LocalEnds PROVE KeptLiveInv'
  BY <1>1 DEF KeptLiveInv
<1>2. \A r \in Suffixes : held[r] # 0 => Live(held[r])
  BY DEF KeptLiveInv
<1>3. allowed = Suffixes /\ ~rescoping
  BY DEF ReaderInv
<1> USE DEF appVars, wireVars
<1>4. CASE UNCHANGED <<remote, held>>
  BY <1>1, <1>2, <1>4 DEF KeptLiveInv, Live
<1>5. ASSUME NEW s \in Suffixes, remote' = EndHeld(s), held' = [held EXCEPT ![s] = 0]
      PROVE  KeptLiveInv'
  <2>1. /\ held'[s] = 0
        /\ \A r \in Suffixes : r # s => held'[r] = held[r] /\ (held[r] # 0 => remote'[held[r]] = remote[held[r]])
    BY <1>5, DropIs
  <2>2. QED
    BY <1>1, <1>2, <2>1 DEF KeptLiveInv, Live
<1>6. ASSUME NEW s \in Suffixes, NEW b \in Announcements, Activate(s, b)
      PROVE  KeptLiveInv'
  <2>1. /\ held'[s] # 0 /\ remote'[held'[s]].live = ~done
        /\ \A r \in Suffixes : r # s => held'[r] = held[r] /\ (held[r] # 0 => remote'[held[r]] = remote[held[r]])
    BY <1>6, ReplaceIs
  <2>2. \A r \in Suffixes : held'[r] # 0 => Live(held[r])'
    BY <1>2, <2>1 DEF Live
  <2>3. QED
    BY <1>1, <2>2 DEF KeptLiveInv
<1>7. wire # <<>> => Head(wire) \in Messages
  BY TailIs DEF TypeOK, WireTypeOK
<1>8. CASE RecvActive
  <2>1. wire # <<>> /\ Head(wire).type = "active"
    BY <1>8 DEF RecvActive, Decode
  <2>2. PICK s \in Suffixes, b \in Announcements : s = Head(wire).suffix /\ b = Head(wire).announcement
    BY <1>7, <2>1, FieldsAre
  <2>3. Activate(s, b)
    BY <1>3, <1>8, <2>2 DEF RecvActive
  <2>4. QED
    BY <1>6, <2>3
<1>9. CASE RecvEnded
  <2>1. wire # <<>> /\ Head(wire).type = "ended"
    BY <1>9 DEF RecvEnded, Decode
  <2>2. PICK s \in Suffixes : s = Head(wire).suffix
    BY <1>7, <2>1, FieldsAre
  <2>3. \/ remote' = EndHeld(s) /\ held' = [held EXCEPT ![s] = 0]
        \/ UNCHANGED <<remote, held>>
    BY <1>9, <2>2 DEF RecvEnded
  <2>4. QED
    BY <1>4, <1>5, <2>3
<1>10. QED
  BY <1>3, <1>4, <1>8, <1>9 DEF ReaderNext, DecodeStep, ReceiverStep, RecvOk, DecodeFails, ContextEnds, LocalEnd,
         Receive, Wake, UserClose, UserCloseWithError, CloseReader, ChangeScope, RescopeReader

(* The four invariants on what the peer will hold, over a step of the reader. *)
LEMMA ReaderShows ==
  ASSUME TypeOK, ReaderInv, StreamInv, FaithInv, ReaderNext, setting' = setting, UNCHANGED writerVars
  PROVE  StreamInv' /\ FaithInv'
<1>1. Suffixes' = Suffixes /\ SuffixOf' = SuffixOf /\ Scoped' = Scoped /\ LocalEnds' = LocalEnds
  BY SameSetting
<1>2. up' => up
  BY ReaderProgresses
<1>3. KeptLiveInv'
  BY ReaderKeepsLive DEF FaithInv
<1>4. UNCHANGED <<alive, snapshot, pushed, actives, closed, todo>>
  BY DEF writerVars, sourceVars, serveVars, entryVars
<1>5. \A s, a : HasReason(s, a)' <=> HasReason(s, a)
  BY <1>1, <1>4 DEF HasReason, Offered
<1>6. WireTypeOK
  BY DEF TypeOK
<1>7. CASE ReadsNothing
  <2>1. wire' = wire
    BY <1>7 DEF ReadsNothing
  <2>2. \A n, s, a : s \in Suffixes /\ a \in Announcements =>
            /\ ShowsAfter(n, s, a)' => ShowsAfter(n, s, a)
            /\ ~Scoped => (KnowsAfter(n, s, a) => KnowsAfter(n, s, a)')
    BY <1>7, <2>1 DEF ReadsNothing, ShowsAfter, KnowsAfter
  <2>3. ReasonInv'
    BY <1>1, <1>5, <2>1, <2>2 DEF StreamInv, ReasonInv
  <2>4. AheadInv'
    BY <1>1, <1>2, <1>4, <2>1, <2>2 DEF StreamInv, AheadInv
  <2>5. EndsHeldInv'
    BY <1>1, <1>2, <2>1, <2>2 DEF FaithInv, EndsHeldInv
  <2>6. BehindInv'
    BY <1>1, <1>2, <1>4, <2>1, <2>2 DEF FaithInv, BehindInv
  <2>7. QED
    BY <1>3, <2>3, <2>4, <2>5, <2>6 DEF StreamInv, FaithInv
<1>8. ASSUME NEW m \in Messages, Reads(m)
      PROVE  StreamInv' /\ FaithInv'
  <2>1. /\ \A n \in Nat : n < Len(wire') => n + 1 < Len(wire) /\ wire'[n + 1] = wire[(n + 1) + 1]
        /\ \A n \in Nat : n = Len(wire') => n + 1 = Len(wire)
        /\ \A n \in Nat, s \in Suffixes, a \in Announcements :
                n < Len(wire') \/ n = Len(wire') =>
                    /\ ShowsAfter(n, s, a)' => ShowsAfter(n + 1, s, a)
                    /\ ~Scoped => (KnowsAfter(n + 1, s, a) => KnowsAfter(n, s, a)')
    BY <1>6, <1>8, ShowsTail
  <2>2. \A n \in Nat : n + 1 \in Nat
    OBVIOUS
  <2>3. ReasonInv'
    BY <1>1, <1>5, <2>1, <2>2 DEF StreamInv, ReasonInv
  <2>4. AheadInv'
    BY <1>1, <1>2, <1>4, <2>1, <2>2 DEF StreamInv, AheadInv
  <2>5. EndsHeldInv'
    BY <1>1, <1>2, <2>1, <2>2 DEF FaithInv, EndsHeldInv
  <2>6. BehindInv'
    BY <1>1, <1>2, <1>4, <2>1, <2>2 DEF FaithInv, BehindInv
  <2>7. QED
    BY <1>3, <2>3, <2>4, <2>5, <2>6 DEF StreamInv, FaithInv
<1>9. QED
  BY <1>7, <1>8, ReaderReads

-----------------------------------------------------------------------------
(* The reader's map *)

LEMMA ReaderKeeps ==
  ASSUME TypeOK, ReaderInv, ReaderNext, setting' = setting
  PROVE  ReaderInv'
<1>1. Suffixes' = Suffixes /\ Scoped' = Scoped /\ Receivers' = Receivers
  BY SameSetting
<1>2. wire # <<>> => Head(wire) = wire[1] /\ wire[1] \in Messages
  BY TailIs DEF TypeOK, WireTypeOK
<1>3. /\ Len(remote) \in Nat /\ DOMAIN remote = 1..Len(remote)
      /\ \A i \in 1..Len(remote) : remote[i] \in RemoteAnnouncements
      /\ \A s \in Suffixes : held[s] \in 0..Len(remote)
      /\ held \in [Suffixes -> 0..Len(remote)]
  BY ReaderIs DEF TypeOK, ReaderTypeOK
<1>4. \A i \in DOMAIN remote : remote[i].suffix \in Suffixes
  BY <1>3, RemotesAre
<1>5. /\ \A s \in Suffixes : held[s] # 0 => held[s] \in DOMAIN remote /\ remote[held[s]].suffix = s
      /\ \A i \in DOMAIN remote : remote[i].live => held[remote[i].suffix] = i
  BY <1>3 DEF ReaderInv, LiveIsHeld
<1> DEFINE Map == /\ \A s \in Suffixes : held'[s] # 0 => remote'[held'[s]].suffix = s
                  /\ \A i \in DOMAIN remote' : remote'[i].live => held'[remote'[i].suffix] = i
<1> USE DEF appVars, wireVars
<1>6. Map
  <2>1. CASE UNCHANGED <<remote, held>>
    BY <1>5, <2>1
  <2>2. ASSUME NEW s \in Suffixes, NEW b \in Announcements, Activate(s, b)
        PROVE  Map
    <3>1. /\ DOMAIN remote' = 1..(Len(remote) + 1)
          /\ \A i \in 1..Len(remote) :
                 remote'[i] = IF i = held[s] THEN [remote[i] EXCEPT !.live = FALSE] ELSE remote[i]
          /\ remote'[Len(remote) + 1] = [suffix |-> s, announcement |-> b, live |-> ~done]
          /\ held' = [held EXCEPT ![s] = Len(remote) + 1]
      BY <2>2, ActivateIs
    <3>2. held'[s] = Len(remote) + 1 /\ \A r \in Suffixes : r # s => held'[r] = held[r]
      BY <1>3, <3>1
    <3>3. remote'[Len(remote) + 1].suffix = s
      BY <3>1
    <3>4. \A i \in DOMAIN remote' : i \in DOMAIN remote \/ i = Len(remote) + 1
      BY <1>3, <3>1
    <3>5. ASSUME NEW i \in DOMAIN remote
          PROVE  remote'[i].suffix = remote[i].suffix /\ (remote'[i].live => remote[i].live /\ i # held[s])
      <4>1. remote[i] \in RemoteAnnouncements
        BY <1>3
      <4>2. remote'[i] = IF i = held[s] THEN [remote[i] EXCEPT !.live = FALSE] ELSE remote[i]
        BY <1>3, <3>1
      <4>3. QED
        BY <4>1, <4>2, RemotesAre
    <3>6. \A r \in Suffixes : held'[r] # 0 => remote'[held'[r]].suffix = r
      BY <1>5, <3>2, <3>3, <3>5
    <3>7. \A i \in DOMAIN remote : remote'[i].live => held'[remote'[i].suffix] = i
      BY <1>4, <1>5, <3>2, <3>5
    <3>8. QED
      BY <3>2, <3>3, <3>4, <3>6, <3>7
  <2>3. ASSUME NEW s \in Suffixes, remote' = EndHeld(s), held' = [held EXCEPT ![s] = 0]
        PROVE  Map
    <3>1. held'[s] = 0 /\ \A r \in Suffixes : r # s => held'[r] = held[r]
      BY <1>3, <2>3
    <3>2. \A i \in DOMAIN remote' : i \in DOMAIN remote /\ remote'[i].suffix = remote[i].suffix
                                    /\ (remote'[i].live => remote[i].live /\ i # held[s])
      BY <2>3, DropIs
    <3>3. DOMAIN remote' = DOMAIN remote
      BY <2>3, EndHeldIs
    <3>4. \A r \in Suffixes : held'[r] # 0 => remote'[held'[r]].suffix = r
      BY <1>5, <3>1, <3>2, <3>3
    <3>5. \A i \in DOMAIN remote' : remote'[i].live => held'[remote'[i].suffix] = i
      BY <1>4, <1>5, <3>1, <3>2
    <3>6. QED
      BY <3>4, <3>5
  <2>4. ASSUME NEW E, held' = held,
               remote' = [i \in DOMAIN remote |-> IF i \in E THEN [remote[i] EXCEPT !.live = FALSE] ELSE remote[i]]
        PROVE  Map
    <3>1. /\ DOMAIN remote' = DOMAIN remote
          /\ \A i \in DOMAIN remote : remote'[i].suffix = remote[i].suffix /\ (remote'[i].live => remote[i].live)
      BY <2>4, EndingHeld
    <3>2. QED
      BY <1>5, <2>4, <3>1
  <2>5. CASE RecvActive
    <3>1. wire # <<>> /\ Head(wire).type = "active"
      BY <2>5 DEF RecvActive, Decode
    <3>2. PICK s \in Suffixes, b \in Announcements : s = Head(wire).suffix /\ b = Head(wire).announcement
      BY <1>2, <3>1, FieldsAre
    <3>3. Activate(s, b) \/ (remote' = EndHeld(s) /\ held' = [held EXCEPT ![s] = 0])
      BY <2>5, <3>2 DEF RecvActive
    <3>4. QED
      BY <2>2, <2>3, <3>3
  <2>6. CASE RecvEnded
    <3>1. wire # <<>> /\ Head(wire).type = "ended"
      BY <2>6 DEF RecvEnded, Decode
    <3>2. PICK s \in Suffixes : s = Head(wire).suffix
      BY <1>2, <3>1, FieldsAre
    <3>3. UNCHANGED <<remote, held>> \/ (remote' = EndHeld(s) /\ held' = [held EXCEPT ![s] = 0])
      BY <2>6, <3>2 DEF RecvEnded
    <3>4. QED
      BY <2>1, <2>3, <3>3
  <2>7. ASSUME NEW i \in DOMAIN remote, ContextEnds(i) \/ LocalEnd(i) PROVE Map
    <3>1. remote' = [j \in DOMAIN remote |-> IF j \in {i} THEN [remote[j] EXCEPT !.live = FALSE] ELSE remote[j]]
      BY <2>7 DEF ContextEnds, LocalEnd
    <3>2. held' = held
      BY <2>7 DEF ContextEnds, LocalEnd
    <3>3. QED
      BY <2>4, <3>1, <3>2
  <2>8. CASE RescopeReader
    <3> DEFINE Refused == {s \in Suffixes \ allowed : held[s] # 0}
               E == {i \in DOMAIN remote : \E s \in Refused : held[s] = i}
    <3>1. \/ UNCHANGED <<remote, held>>
          \/ /\ remote' = [i \in DOMAIN remote |-> IF i \in E THEN [remote[i] EXCEPT !.live = FALSE] ELSE remote[i]]
             /\ held' = [s \in Suffixes |-> IF s \in Refused THEN 0 ELSE held[s]]
      BY <2>8 DEF RescopeReader
    <3>2. CASE UNCHANGED <<remote, held>>
      BY <2>1, <3>2
    <3>3. CASE /\ remote' = [i \in DOMAIN remote |-> IF i \in E THEN [remote[i] EXCEPT !.live = FALSE] ELSE remote[i]]
               /\ held' = [s \in Suffixes |-> IF s \in Refused THEN 0 ELSE held[s]]
      <4>1. /\ DOMAIN remote' = DOMAIN remote
            /\ \A i \in DOMAIN remote : /\ remote'[i].suffix = remote[i].suffix
                                        /\ remote'[i].live => remote[i].live /\ i \notin E
        <5> HIDE DEF E
        <5>1. QED
          BY <3>3, EndingHeld
      <4>2. \A s \in Suffixes : held'[s] = IF s \in Refused THEN 0 ELSE held[s]
        BY <3>3
      <4>3. \A i \in DOMAIN remote : i \notin E => \A s \in Refused : held[s] # i
        OBVIOUS
      <4> HIDE DEF E, Refused
      <4>4. \A s \in Suffixes : held'[s] # 0 => remote'[held'[s]].suffix = s
        BY <1>5, <4>1, <4>2
      <4>5. \A i \in DOMAIN remote' : remote'[i].live => held'[remote'[i].suffix] = i
        BY <1>4, <1>5, <4>1, <4>2, <4>3
      <4>6. QED
        BY <4>4, <4>5
    <3>4. QED
      BY <3>1, <3>2, <3>3
  <2>9. QED
    BY <2>1, <2>5, <2>6, <2>7, <2>8 DEF ReaderNext, DecodeStep, ReceiverStep, RecvOk, DecodeFails, Receive, Wake,
       UserClose, UserCloseWithError, CloseReader, ChangeScope
<1> HIDE DEF Map
<1>7. ~Scoped' => allowed' = Suffixes' /\ ~rescoping'
  BY <1>1 DEF ReaderInv, ReaderNext, DecodeStep, ReceiverStep, RecvOk, RecvActive, RecvEnded, DecodeFails, ContextEnds,
     LocalEnd, Receive, Wake, UserClose, UserCloseWithError, CloseReader, ChangeScope, RescopeReader
<1>8. NoLostWakeup'
  <2> SUFFICES ASSUME waiting' = Receivers, waiting' # {}, pendings' # <<>> PROVE signal' # "empty" \/ done'
    BY <1>1 DEF NoLostWakeup
  <2>1. waiting = Receivers /\ pendings # <<>> => signal # "empty" \/ done
    BY DEF ReaderInv, NoLostWakeup
  <2>2. CASE UNCHANGED <<waiting, pendings, signal>> /\ (done => done')
    BY <2>1, <2>2 DEF ReaderInv, NoLostWakeup
  <2>3. CASE RecvActive
    <3>1. \/ signal' = IF signal = "empty" THEN "full" ELSE signal
          \/ UNCHANGED <<waiting, pendings, signal, done>>
      BY <2>3 DEF RecvActive, Activate
    <3>2. QED
      BY <2>2, <3>1
  <2>4. CASE RecvEnded \/ UserClose \/ UserCloseWithError
    <3>1. signal' = "nil" \/ UNCHANGED <<waiting, pendings, signal, done>>
      BY <2>4 DEF RecvEnded, UserClose, UserCloseWithError, CloseReader
    <3>2. QED
      BY <2>2, <3>1
  <2>5. ASSUME NEW r \in Receivers, ReceiverStep(r) PROVE FALSE
    BY <2>5 DEF ReceiverStep, Receive, Wake
  <2>6. QED
    BY <2>2, <2>3, <2>4, <2>5 DEF ReaderNext, DecodeStep, RecvOk, DecodeFails, ContextEnds, LocalEnd, ChangeScope, RescopeReader
<1>9. LiveIsHeld'
  BY <1>6 DEF Map, LiveIsHeld
<1>10. QED
  BY <1>1, <1>6, <1>7, <1>8, <1>9 DEF Map, ReaderInv

-----------------------------------------------------------------------------
(* What is sent was offered *)

(* The announcement on its way: where it comes from, and what does not move it. *)
LEMMA ChannelMoves ==
  ASSUME TypeOK, WriterNext
  PROVE  \/ chan' = chan /\ (pc' \in Sending => pc \in Sending /\ cur' = cur)
         \/ \E a \in Announcements : /\ PushAnnouncement(a)
                                     /\ UNCHANGED <<pc, cur>> /\ pushed' = Append(pushed, a)
                                     /\ chan' \in {chan, Append(chan, a)}
         \/ ServeReceive /\ chan # <<>> /\ cur' = Head(chan) /\ chan' = Tail(chan)
<1> USE DEF sourceVars, serveVars, entryVars, wireVars, Goto, ServeFails, Sending
<1>1. CASE InitFilter \/ InitStore \/ InitOk \/ InitSend \/ InitRegister
  BY <1>1 DEF InitFilter, InitStore, InitOk, InitSend, InitRegister
<1>2. CASE SendCheck \/ SendStopOld \/ SendRemoveOld \/ SendActive \/ ServeReturns
  BY <1>2 DEF SendCheck, SendStopOld, SendRemoveOld, SendActive, ServeReturns
<1>3. CASE ServeReceive
  BY <1>3 DEF ServeReceive
<1>4. ASSUME NEW a \in Announcements, PushAnnouncement(a)
      PROVE  UNCHANGED <<pc, cur>> /\ pushed' = Append(pushed, a) /\ chan' \in {chan, Append(chan, a)}
  BY <1>4 DEF PushAnnouncement
<1>5. ASSUME NEW a \in Announcements, EndAnnouncement(a) \/ WatchStep(a) PROVE UNCHANGED <<chan, pc, cur>>
  BY <1>5 DEF EndAnnouncement, WatchStep, TakeWatch, RunWatch
<1>6. ASSUME NEW k \in Closers, CloserStep(k) PROVE UNCHANGED <<chan, pc, cur>>
  BY <1>6 DEF CloserStep, StopAll, CancelStream
<1>7. CASE RescopeWriter
  BY <1>7 DEF RescopeWriter
<1>8. QED
  BY <1>1, <1>2, <1>3, <1>4, <1>5, <1>6, <1>7 DEF WriterNext, ServeStep

LEMMA WriterOffers ==
  ASSUME TypeOK, ServeInv, OfferInv, WriterNext, Speaks, setting' = setting
  PROVE  OfferInv'
<1>1. SuffixOf' = SuffixOf /\ Suffixes' = Suffixes
  BY SameSetting
<1>2. pushed \in Seq(Announcements) /\ chan \in Seq(Announcements) /\ wire \in Seq(Messages)
  BY DEF TypeOK, WriterTypeOK, WireTypeOK
<1>3. \A a \in Announcements : Range(Append(pushed, a)) = Range(pushed) \cup {a}
  BY <1>2, RangeOfAppend
<1>4. Offered \subseteq Offered'
  BY WriterProgresses
<1> DEFINE Mine == /\ \A i \in DOMAIN chan' : chan'[i] \in Range(pushed')
                   /\ pc' \in Sending => cur' \in Range(pushed')
<1>5. /\ \A i \in DOMAIN chan : chan[i] \in Range(pushed)
      /\ pc \in Sending => cur \in Range(pushed)
  BY DEF OfferInv, Sending
<1>6. Mine
  <2>1. CASE chan' = chan /\ (pc' \in Sending => pc \in Sending /\ cur' = cur)
    <3>1. Range(pushed) \subseteq Range(pushed')
      <4>1. pushed' = pushed \/ \E a \in Announcements : pushed' = Append(pushed, a)
        BY DEF WriterNext, ServeStep, WatchStep, CloserStep, EndAnnouncement, PushAnnouncement, TakeWatch, RunWatch,
               StopAll, CancelStream, InitFilter, InitStore, InitOk, InitSend, InitRegister, ServeReceive, SendCheck,
               SendStopOld, SendRemoveOld, SendActive, RescopeWriter, ServeReturns, sourceVars
      <4>2. QED
        BY <1>3, <4>1
    <3>2. QED
      BY <1>5, <2>1, <3>1
  <2>2. ASSUME NEW a \in Announcements, UNCHANGED <<pc, cur>>, pushed' = Append(pushed, a),
               chan' \in {chan, Append(chan, a)}
        PROVE  Mine
    <3>1. Range(pushed') = Range(pushed) \cup {a}
      BY <1>3, <2>2
    <3>2. \A i \in DOMAIN chan' : chan'[i] = a \/ (i \in DOMAIN chan /\ chan'[i] = chan[i])
      <4>1. /\ Len(chan) \in Nat /\ DOMAIN chan = 1..Len(chan) /\ DOMAIN Append(chan, a) = 1..(Len(chan) + 1)
            /\ \A i \in 1..Len(chan) : Append(chan, a)[i] = chan[i]
            /\ Append(chan, a)[Len(chan) + 1] = a
        BY <1>2, AppendIs
      <4>2. \A i \in 1..(Len(chan) + 1) : i \in 1..Len(chan) \/ i = Len(chan) + 1
        BY <4>1
      <4>3. QED
        BY <2>2, <4>1, <4>2
    <3>3. QED
      BY <1>5, <2>2, <3>1, <3>2
  <2>3. CASE ServeReceive /\ chan # <<>> /\ cur' = Head(chan) /\ chan' = Tail(chan)
    <3>1. /\ Len(chan) \in Nat \ {0} /\ DOMAIN chan = 1..Len(chan) /\ DOMAIN Tail(chan) = 1..(Len(chan) - 1)
          /\ Head(chan) = chan[1] /\ \A i \in 1..(Len(chan) - 1) : Tail(chan)[i] = chan[i + 1]
      BY <1>2, <2>3, TailIs
    <3>2. 1 \in 1..Len(chan) /\ \A i \in 1..(Len(chan) - 1) : i + 1 \in 1..Len(chan)
      BY <3>1
    <3>3. pushed' = pushed
      BY <2>3 DEF ServeReceive, sourceVars
    <3>4. QED
      BY <1>5, <2>3, <3>1, <3>2, <3>3
  <2>4. QED
    BY <2>1, <2>2, <2>3, ChannelMoves
<1>7. \A i \in DOMAIN wire' : wire'[i].type = "active" =>
        wire'[i].announcement \in Offered' /\ SuffixOf[wire'[i].announcement] = wire'[i].suffix
  <2>1. ASSUME NEW m \in Messages, wire' = Append(wire, m),
               m.type = "active" => m.announcement \in Offered /\ SuffixOf[m.announcement] = m.suffix
        PROVE  \A i \in DOMAIN wire' : wire'[i].type = "active" =>
                 wire'[i].announcement \in Offered' /\ SuffixOf[wire'[i].announcement] = wire'[i].suffix
    <3>1. /\ Len(wire) \in Nat /\ DOMAIN wire = 1..Len(wire) /\ DOMAIN wire' = 1..(Len(wire) + 1)
          /\ \A i \in 1..Len(wire) : wire'[i] = wire[i]
          /\ wire'[Len(wire) + 1] = m
      BY <1>2, <2>1, AppendIs
    <3>2. \A i \in 1..(Len(wire) + 1) : i \in 1..Len(wire) \/ i = Len(wire) + 1
      BY <3>1
    <3>3. QED
      BY <1>4, <2>1, <3>1, <3>2 DEF OfferInv
  <2>2. CASE SaysNothing
    BY <1>4, <2>2 DEF SaysNothing, OfferInv
  <2>3. CASE SaysOk
    BY <2>1, <2>3, MessagesAre DEF SaysOk
  <2>4. ASSUME NEW s \in Suffixes, NEW a \in Announcements, SaysEnded(s, a) \/ SaysActive(s, a)
        PROVE  \E m \in Messages : /\ wire' = Append(wire, m)
                                   /\ m.type = "active" => m.announcement \in Offered /\ SuffixOf[m.announcement] = m.suffix
    <3>1. CASE SaysEnded(s, a)
      <4>1. wire' = Append(wire, EndedMsg(s)) /\ EndedMsg(s) \in Messages /\ EndedMsg(s).type = "ended"
        BY <3>1, MessagesAre DEF SaysEnded
      <4>2. QED
        BY <4>1
    <3>2. CASE SaysActive(s, a)
      <4>1. /\ wire' = Append(wire, ActiveMsg(s, a)) /\ ActiveMsg(s, a) \in Messages
            /\ ActiveMsg(s, a).announcement = a /\ ActiveMsg(s, a).suffix = s
            /\ a \in Offered /\ SuffixOf[a] = s
        BY <3>2, MessagesAre DEF SaysActive
      <4>2. QED
        BY <4>1
    <3>3. QED
      BY <2>4, <3>1, <3>2
  <2>5. CASE \E s \in Suffixes, a \in Announcements : SaysEnded(s, a) \/ SaysActive(s, a)
    <3>1. PICK s \in Suffixes, a \in Announcements : SaysEnded(s, a) \/ SaysActive(s, a)
      BY <2>5
    <3>2. PICK m \in Messages : /\ wire' = Append(wire, m)
                                /\ m.type = "active" => m.announcement \in Offered /\ SuffixOf[m.announcement] = m.suffix
      BY <2>4, <3>1
    <3>3. QED
      BY <2>1, <3>2
  <2>6. QED
    BY <2>2, <2>3, <2>5 DEF Speaks
<1>8. QED
  BY <1>1, <1>6, <1>7 DEF OfferInv, Sending

LEMMA ReaderOffers ==
  ASSUME TypeOK, OfferInv, ReaderNext \/ StreamDown, setting' = setting, UNCHANGED writerVars
  PROVE  OfferInv'
<1>1. SuffixOf' = SuffixOf
  BY SameSetting
<1>2. UNCHANGED <<chan, pushed, pc, cur, snapshot>>
  BY DEF writerVars, sourceVars, serveVars
<1>3. wire' = wire \/ (wire # <<>> /\ wire' = Tail(wire))
  BY DEF ReaderNext, DecodeStep, ReceiverStep, RecvOk, RecvActive, RecvEnded, Decode, DecodeFails, ContextEnds, LocalEnd,
         Receive, Wake, UserClose, UserCloseWithError, ChangeScope, RescopeReader, StreamDown, wireVars
<1>4. \A i \in DOMAIN wire' : \E j \in DOMAIN wire : wire'[i] = wire[j]
  <2>1. CASE wire # <<>> /\ wire' = Tail(wire)
    <3>1. /\ Len(wire) \in Nat \ {0} /\ DOMAIN wire = 1..Len(wire) /\ DOMAIN wire' = 1..(Len(wire) - 1)
          /\ \A i \in 1..(Len(wire) - 1) : wire'[i] = wire[i + 1]
      BY <2>1, TailIs DEF TypeOK, WireTypeOK
    <3>2. \A i \in 1..(Len(wire) - 1) : i + 1 \in 1..Len(wire)
      BY <3>1
    <3>3. QED
      BY <3>1, <3>2
  <2>2. QED
    BY <1>3, <2>1
<1>5. QED
  BY <1>1, <1>2, <1>4 DEF OfferInv, Offered

-----------------------------------------------------------------------------
(* The announcement offered last *)

LEMMA LatestSame ==
  ASSUME setting' = setting, snapshot' = snapshot, pushed' = pushed
  PROVE  \A a : IsLatest(a)' <=> IsLatest(a)
<1>1. SuffixOf' = SuffixOf
  BY SameSetting
<1>2. QED
  BY <1>1 DEF IsLatest

(* Another for the path takes its place. *)
LEMMA LatestPushed ==
  ASSUME TypeOK, setting' = setting, snapshot' = snapshot,
         NEW p \in Announcements, pushed' = Append(pushed, p), NEW a, IsLatest(a)'
  PROVE  a = p \/ (IsLatest(a) /\ SuffixOf[a] # SuffixOf[p])
<1>1. SuffixOf' = SuffixOf
  BY SameSetting
<1>2. /\ Len(pushed) \in Nat /\ DOMAIN pushed = 1..Len(pushed) /\ DOMAIN pushed' = 1..(Len(pushed) + 1)
      /\ \A i \in 1..Len(pushed) : pushed'[i] = pushed[i]
      /\ pushed'[Len(pushed) + 1] = p
  BY AppendIs DEF TypeOK, WriterTypeOK
<1>3. /\ Len(pushed) + 1 \in DOMAIN pushed' /\ \A i \in DOMAIN pushed : i \in DOMAIN pushed' /\ Len(pushed) + 1 > i
      /\ \A i \in DOMAIN pushed' : i \in DOMAIN pushed \/ i = Len(pushed) + 1
  BY <1>2
<1>4. CASE a \in snapshot /\ \A j \in DOMAIN pushed' : SuffixOf[pushed'[j]] # SuffixOf[a]
  <2>1. SuffixOf[p] # SuffixOf[a]
    BY <1>2, <1>3, <1>4
  <2>2. \A j \in DOMAIN pushed : SuffixOf[pushed[j]] # SuffixOf[a]
    BY <1>2, <1>3, <1>4
  <2>3. QED
    BY <1>4, <2>1, <2>2 DEF IsLatest
<1>5. ASSUME NEW i \in DOMAIN pushed', pushed'[i] = a, \A j \in DOMAIN pushed' : j > i => SuffixOf[pushed'[j]] # SuffixOf[a]
      PROVE  a = p \/ (IsLatest(a) /\ SuffixOf[a] # SuffixOf[p])
  <2>1. CASE i = Len(pushed) + 1
    BY <1>2, <1>5, <2>1
  <2>2. CASE i \in DOMAIN pushed
    <3>1. SuffixOf[p] # SuffixOf[a]
      BY <1>2, <1>3, <1>5, <2>2
    <3>2. pushed[i] = a /\ \A j \in DOMAIN pushed : j > i => SuffixOf[pushed[j]] # SuffixOf[a]
      BY <1>2, <1>3, <1>5, <2>2
    <3>3. QED
      BY <2>2, <3>1, <3>2 DEF IsLatest
  <2>3. QED
    BY <1>3, <2>1, <2>2
<1>6. QED
  BY <1>1, <1>4, <1>5 DEF IsLatest

(* What a push does to a subscription that remains one. *)
LEMMA PushIs ==
  ASSUME TypeOK, NEW p \in Announcements, PushAnnouncement(p), subscribed'
  PROVE  /\ subscribed
         /\ pushed' = Append(pushed, p)
         /\ UNCHANGED <<alive, snapshot, pc, cand, cur, actives, closed, up>>
         /\ Len(chan) \in Nat /\ DOMAIN chan = 1..Len(chan)
         /\ \/ chan' = chan /\ ~alive[p]
            \/ /\ DOMAIN chan' = 1..(Len(chan) + 1)
               /\ \A i \in 1..Len(chan) : chan'[i] = chan[i]
               /\ chan'[Len(chan) + 1] = p
         /\ \A i \in DOMAIN chan : i \in DOMAIN chan' /\ chan'[i] = chan[i]
<1>1. chan \in Seq(Announcements)
  BY DEF TypeOK, WriterTypeOK
<1>2. /\ Len(chan) \in Nat /\ DOMAIN chan = 1..Len(chan) /\ DOMAIN Append(chan, p) = 1..(Len(chan) + 1)
      /\ \A i \in 1..Len(chan) : Append(chan, p)[i] = chan[i]
      /\ Append(chan, p)[Len(chan) + 1] = p
  BY <1>1, AppendIs
<1>3. \A i \in 1..Len(chan) : i \in 1..(Len(chan) + 1)
  BY <1>2
<1>4. \/ chan' = chan /\ ~alive[p] /\ subscribed
      \/ chan' = Append(chan, p) /\ subscribed
  BY DEF PushAnnouncement
<1>5. QED
  BY <1>2, <1>3, <1>4 DEF PushAnnouncement, wireVars

LEMMA WriterFollows ==
  ASSUME TypeOK, ServeInv, LatestInv, WriterNext, setting' = setting
  PROVE  FollowInv'
<1> SUFFICES ASSUME subscribed' PROVE FollowInv'
  BY DEF FollowInv
<1>1. SuffixOf' = SuffixOf
  BY SameSetting
<1>2. \A a \in Announcements : alive'[a] => alive[a]
  BY WriterProgresses
<1>3. ASSUME NEW p \in Announcements, PushAnnouncement(p)
      PROVE  FollowInv'
  <2>1. /\ subscribed /\ pushed' = Append(pushed, p) /\ alive' = alive /\ snapshot' = snapshot /\ pc' = pc /\ cur' = cur
        /\ Len(chan) \in Nat /\ DOMAIN chan = 1..Len(chan)
        /\ \/ chan' = chan /\ ~alive[p]
           \/ /\ DOMAIN chan' = 1..(Len(chan) + 1)
              /\ \A i \in 1..Len(chan) : chan'[i] = chan[i]
              /\ chan'[Len(chan) + 1] = p
        /\ \A i \in DOMAIN chan : i \in DOMAIN chan' /\ chan'[i] = chan[i]
    BY <1>3, PushIs
  <2>2. \A a : IsLatest(a)' => a = p \/ (IsLatest(a) /\ SuffixOf[a] # SuffixOf[p])
    BY <2>1, LatestPushed
  <2>3. ASSUME NEW b \in Announcements, NEW i \in 0..Len(chan), Follows(b, i)
        PROVE  Follows(b, i)'
    <3> SUFFICES ASSUME NEW a \in Announcements, IsLatest(a)', alive[a], SuffixOf[a] = SuffixOf[b], a # b
                 PROVE  \E j \in DOMAIN chan' : j > i /\ chan'[j] = a
      BY <1>1, <2>1 DEF Follows
    <3>1. CASE IsLatest(a)
      <4>1. \E j \in DOMAIN chan : j > i /\ chan[j] = a
        BY <2>3, <3>1 DEF Follows
      <4>2. QED
        BY <2>1, <4>1
    <3>2. CASE a = p
      <4>1. DOMAIN chan' = 1..(Len(chan) + 1) /\ chan'[Len(chan) + 1] = p
        BY <2>1, <3>2
      <4>2. Len(chan) + 1 \in 1..(Len(chan) + 1) /\ Len(chan) + 1 > i
        BY <2>1
      <4>3. QED
        BY <3>2, <4>1, <4>2
    <3>3. QED
      BY <2>2, <3>1, <3>2
  <2>4. ASSUME NEW i \in DOMAIN chan', NEW b \in Announcements, chan'[i] = b
        PROVE  Follows(b, i)'
    <3>1. CASE i \in DOMAIN chan
      <4>1. Follows(b, i) /\ i \in 0..Len(chan)
        BY <2>1, <2>4, <3>1 DEF LatestInv, FollowInv
      <4>2. QED
        BY <2>3, <4>1
    <3>2. CASE i \notin DOMAIN chan
      <4>1. i = Len(chan) + 1 /\ b = p
        BY <2>1, <2>4, <3>2
      <4>2. QED
        BY <1>1, <2>2, <4>1 DEF Follows
    <3>3. QED
      BY <3>1, <3>2
  <2>5. ASSUME pc' \in Sending, NEW b \in Announcements, cur' = b
        PROVE  Follows(b, 0)'
    <3>1. Follows(b, 0) /\ 0 \in 0..Len(chan)
      BY <2>1, <2>5 DEF LatestInv, FollowInv
    <3>2. QED
      BY <2>3, <3>1
  <2>6. QED
    BY <2>4, <2>5 DEF FollowInv
<1>4. ASSUME ~\E p \in Announcements : PushAnnouncement(p)
      PROVE  FollowInv'
  <2>1. snapshot' = snapshot /\ pushed' = pushed /\ (subscribed' => subscribed)
    BY <1>4 DEF WriterNext, ServeStep, WatchStep, CloserStep, EndAnnouncement, TakeWatch, RunWatch,
       StopAll, CancelStream, InitFilter, InitStore, InitOk, InitSend, InitRegister, ServeReceive, SendCheck,
       SendStopOld, SendRemoveOld, SendActive, RescopeWriter, ServeReturns, sourceVars, serveVars
  <2>2. \A a : IsLatest(a)' <=> IsLatest(a)
    BY <2>1, LatestSame
  <2>3. CASE chan' = chan /\ (pc' \in Sending => pc \in Sending /\ cur' = cur)
    <3>1. \A b \in Announcements : \A i : Follows(b, i) => Follows(b, i)'
      BY <1>1, <1>2, <2>2, <2>3 DEF Follows
    <3>2. QED
      BY <2>1, <2>3, <3>1 DEF LatestInv, FollowInv
  <2>4. CASE ServeReceive /\ chan # <<>> /\ cur' = Head(chan) /\ chan' = Tail(chan)
    <3>1. /\ Len(chan) \in Nat \ {0} /\ DOMAIN chan = 1..Len(chan) /\ DOMAIN chan' = 1..(Len(chan) - 1)
          /\ cur' = chan[1] /\ \A i \in 1..(Len(chan) - 1) : chan'[i] = chan[i + 1]
      BY <2>4, TailIs DEF TypeOK, WriterTypeOK
    <3>2. ASSUME NEW b \in Announcements, NEW i \in Nat, Follows(b, i + 1)
          PROVE  Follows(b, i)'
      <4> SUFFICES ASSUME NEW a \in Announcements, IsLatest(a), alive[a], SuffixOf[a] = SuffixOf[b], a # b
                   PROVE  \E j \in DOMAIN chan' : j > i /\ chan'[j] = a
        BY <1>1, <1>2, <2>2 DEF Follows
      <4>1. PICK j \in DOMAIN chan : j > i + 1 /\ chan[j] = a
        BY <3>2 DEF Follows
      <4>2. j - 1 \in 1..(Len(chan) - 1) /\ j - 1 > i /\ (j - 1) + 1 = j
        BY <3>1, <4>1
      <4>3. chan'[j - 1] = a
        BY <3>1, <4>1, <4>2
      <4>4. QED
        BY <3>1, <4>2, <4>3
    <3>3. ASSUME NEW i \in DOMAIN chan', NEW b \in Announcements, chan'[i] = b
          PROVE  Follows(b, i)'
      <4>1. i \in Nat /\ i + 1 \in DOMAIN chan /\ chan[i + 1] = b
        BY <3>1, <3>3
      <4>2. QED
        BY <2>1, <3>2, <4>1 DEF LatestInv, FollowInv
    <3>4. ASSUME NEW b \in Announcements, cur' = b
          PROVE  Follows(b, 0)'
      <4>1. 1 \in DOMAIN chan /\ chan[1] = b /\ 0 + 1 = 1
        BY <3>1, <3>4
      <4>2. Follows(b, 0 + 1)
        BY <2>1, <4>1 DEF LatestInv, FollowInv
      <4>3. QED
        BY <3>2, <4>2
    <3>5. QED
      BY <3>3, <3>4 DEF FollowInv
  <2>5. QED
    BY <1>4, <2>3, <2>4, ChannelMoves
<1>5. QED
  BY <1>3, <1>4

LEMMA WriterDelivers ==
  ASSUME TypeOK, ServeInv, InitInv, WatchInv, LatestInv, WriterNext, setting' = setting
  PROVE  WayInv'
<1> SUFFICES ASSUME subscribed', ~closed', up' PROVE \A a \in Announcements \ Excluded : IsLatest(a)' /\ alive'[a] => OnTheWay(a)'
  BY SameSetting DEF WayInv
<1>1. SuffixOf' = SuffixOf /\ Suffixes' = Suffixes
  BY SameSetting
<1>2. /\ \A a \in Announcements : alive'[a] => alive[a]
      /\ ~closed /\ up
  BY WriterProgresses
<1>3. /\ \A a \in Announcements : SuffixOf[a] \in Suffixes /\ a # NoAnnouncement
      /\ \A s \in Suffixes : NoActives[s] = NoAnnouncement
      /\ actives \in [Suffixes -> Announcements \cup {NoAnnouncement}]
      /\ pc \in {"filter", "store", "ok", "send", "register", "loop", "check", "stop",
                 "remove", "announce", "closing", "done"}
  BY SuffixesAre DEF TypeOK, WriterTypeOK, ActiveMaps
<1> DEFINE Goal == \A a \in Announcements \ Excluded : IsLatest(a)' /\ alive'[a] => OnTheWay(a)'
<1> SUFFICES Goal
  OBVIOUS
<1>4. ASSUME NEW p \in Announcements, PushAnnouncement(p)
      PROVE  Goal
  <2>1. /\ subscribed /\ pushed' = Append(pushed, p)
        /\ UNCHANGED <<alive, snapshot, pc, cand, cur, actives>>
        /\ Len(chan) \in Nat /\ DOMAIN chan = 1..Len(chan)
        /\ \/ chan' = chan /\ ~alive[p]
           \/ DOMAIN chan' = 1..(Len(chan) + 1) /\ chan'[Len(chan) + 1] = p
        /\ \A i \in DOMAIN chan : i \in DOMAIN chan' /\ chan'[i] = chan[i]
    BY <1>4, PushIs
  <2>2. ASSUME NEW a \in Announcements \ Excluded, IsLatest(a)', alive'[a]
        PROVE  OnTheWay(a)'
    <3>1. CASE a = p
      <4>1. DOMAIN chan' = 1..(Len(chan) + 1) /\ chan'[Len(chan) + 1] = p
        BY <2>1, <2>2, <3>1
      <4>2. Len(chan) + 1 \in 1..(Len(chan) + 1)
        BY <2>1
      <4>3. QED
        BY <3>1, <4>1, <4>2 DEF OnTheWay
    <3>2. CASE a # p
      <4>1. IsLatest(a)
        BY <2>1, <2>2, <3>2, LatestPushed
      <4>2. OnTheWay(a)
        BY <1>2, <2>1, <2>2, <4>1 DEF LatestInv, WayInv
      <4>3. QED
        BY <1>1, <2>1, <4>2 DEF OnTheWay
    <3>3. QED
      BY <3>1, <3>2
  <2>3. QED
    BY <2>2
<1>5. ASSUME ~\E p \in Announcements : PushAnnouncement(p)
      PROVE  Goal
  <2>1. snapshot' = snapshot /\ pushed' = pushed /\ (subscribed' => subscribed)
    BY <1>5 DEF WriterNext, ServeStep, WatchStep, CloserStep, EndAnnouncement, TakeWatch, RunWatch,
       StopAll, CancelStream, InitFilter, InitStore, InitOk, InitSend, InitRegister, ServeReceive, SendCheck,
       SendStopOld, SendRemoveOld, SendActive, RescopeWriter, ServeReturns, sourceVars, serveVars
  <2>2. \A a : IsLatest(a)' <=> IsLatest(a)
    BY <2>1, LatestSame
  <2>3. \A a \in Announcements \ Excluded : IsLatest(a) /\ alive[a] => OnTheWay(a)
    BY <1>2, <2>1 DEF LatestInv, WayInv
  <2> SUFFICES ASSUME NEW a \in Announcements \ Excluded, IsLatest(a), alive[a], alive'[a], OnTheWay(a)
               PROVE  OnTheWay(a)'
    BY <1>2, <2>2, <2>3
  <2> USE DEF sourceVars, serveVars, entryVars, wireVars, Goto, ServeFails, Sending
  (* Another that is being sent, or replaced, is followed by this one. *)
  <2>4. pc \in Sending =>
            \A b \in Announcements : cur = b /\ SuffixOf[a] = SuffixOf[b] /\ a # b => \E j \in DOMAIN chan : chan[j] = a
    BY <2>1 DEF LatestInv, FollowInv, Follows
  <2>5. CASE /\ chan' = chan /\ actives' = actives
             /\ pc \in Sending => pc' \in Sending /\ cur' = cur
             /\ pc \notin {"filter", "store"}
    BY <1>1, <2>5 DEF OnTheWay
  <2>6. CASE UNCHANGED <<chan, actives, pc, cand, cur>>
    BY <1>1, <2>1, <2>6 DEF OnTheWay
  <2>7. ASSUME NEW s \in Suffixes, NEW b, chan' = chan,
               Remove(s, b), pc' \in Sending \/ pc' = pc, cur' = cur, cand' = cand,
               a # b \/ \E j \in DOMAIN chan : chan[j] = a, pc' \in Sending \/ pc \notin Sending, pc' = pc \/ pc \in Sending
        PROVE  OnTheWay(a)'
    <3>1. \A r \in Suffixes : actives'[r] = actives[r] \/ actives[r] = b
      BY <1>3, <2>7 DEF Remove
    <3>2. QED
      BY <1>1, <1>3, <2>1, <2>7, <3>1 DEF OnTheWay
  <2>8. CASE InitFilter
    <3>1. chan' = chan /\ actives' = actives /\ pc = "filter" /\ pc' = "store"
      BY <1>2, <2>8 DEF InitFilter
    <3>2. CASE a \in snapshot
      <4>1. a \in Eligible(SuffixOf[a])
        BY <3>2 DEF Eligible
      <4>2. cand'[SuffixOf[a]] \in Eligible(SuffixOf[a])
        BY <1>2, <1>3, <2>8, <4>1 DEF InitFilter
      <4>3. cand'[SuffixOf[a]] = a
        BY <4>2, <3>2 DEF Eligible, LatestInv
      <4>4. QED
        BY <1>1, <3>1, <4>3 DEF OnTheWay
    <3>3. CASE a \notin snapshot
      BY <1>1, <3>1, <3>3 DEF OnTheWay
    <3>4. QED
      BY <3>2, <3>3
  <2>9. CASE InitStore
    <3>1. chan' = chan /\ actives' = cand /\ pc = "store" /\ actives = NoActives
      BY <1>2, <2>9 DEF InitStore, ServeInv
    <3>2. actives[SuffixOf[a]] # a
      BY <1>3, <3>1
    <3>3. QED
      BY <1>1, <3>1, <3>2 DEF OnTheWay
  <2>10. CASE InitOk \/ InitSend \/ InitRegister
    BY <2>5, <2>10 DEF InitOk, InitSend, InitRegister
  <2>11. CASE ServeReceive
    <3>1. pc = "loop" /\ pc' = "check" /\ actives' = actives /\ chan # <<>> /\ chan' = Tail(chan) /\ cur' = Head(chan)
      BY <1>2, <2>11 DEF ServeReceive
    <3>2. /\ Len(chan) \in Nat \ {0} /\ DOMAIN chan = 1..Len(chan) /\ DOMAIN chan' = 1..(Len(chan) - 1)
          /\ cur' = chan[1] /\ \A i \in 1..(Len(chan) - 1) : chan'[i] = chan[i + 1]
      BY <3>1, TailIs DEF TypeOK, WriterTypeOK
    <3>3. ASSUME NEW j \in DOMAIN chan, chan[j] = a
          PROVE  cur' = a \/ \E i \in DOMAIN chan' : chan'[i] = a
      <4>1. CASE j = 1
        BY <3>2, <3>3, <4>1
      <4>2. CASE j # 1
        <5>1. j - 1 \in 1..(Len(chan) - 1) /\ (j - 1) + 1 = j
          BY <3>2, <4>2
        <5>2. chan'[j - 1] = a
          BY <3>2, <3>3, <5>1
        <5>3. QED
          BY <3>2, <5>1, <5>2
      <4>3. QED
        BY <4>1, <4>2
    <3>4. QED
      BY <1>1, <3>1, <3>3 DEF OnTheWay
  <2>12. CASE SendCheck
    <3>1. pc = "check" /\ chan' = chan /\ actives' = actives /\ cur' = cur
      BY <2>12 DEF SendCheck
    <3>2. pc' \in Sending \/ cur # a \/ actives[SuffixOf[a]] = a
      BY <2>12 DEF SendCheck
    <3>3. QED
      BY <1>1, <3>1, <3>2 DEF OnTheWay
  <2>13. CASE SendStopOld
    BY <2>5, <2>13 DEF SendStopOld
  <2>14. CASE SendRemoveOld
    <3>1. /\ pc = "remove" /\ pc' = "announce" /\ chan' = chan /\ cur' = cur /\ cand' = cand
          /\ cur \in Announcements /\ old \in Announcements /\ old # cur /\ SuffixOf[old] = SuffixOf[cur]
          /\ Remove(SuffixOf[old], old)
      BY <2>14 DEF SendRemoveOld, ServeInv
    <3>2. a # old \/ \E j \in DOMAIN chan : chan[j] = a
      BY <2>4, <3>1
    <3>3. QED
      BY <1>3, <2>7, <3>1, <3>2
  <2>15. CASE SendActive
    <3>1. /\ pc = "announce" /\ chan' = chan /\ cur \in Announcements
          /\ actives' = [actives EXCEPT ![SuffixOf[cur]] = cur]
      BY <1>2, <2>15 DEF SendActive, ServeInv
    <3>2. actives'[SuffixOf[cur]] = cur /\ \A r \in Suffixes : r # SuffixOf[cur] => actives'[r] = actives[r]
      BY <1>3, <3>1
    <3>3. CASE a = cur
      BY <1>1, <3>2, <3>3 DEF OnTheWay
    <3>4. CASE a # cur /\ SuffixOf[a] = SuffixOf[cur]
      BY <2>4, <3>1, <3>4 DEF OnTheWay
    <3>5. CASE a # cur /\ SuffixOf[a] # SuffixOf[cur]
      BY <1>1, <1>3, <3>1, <3>2, <3>5 DEF OnTheWay
    <3>6. QED
      BY <3>3, <3>4, <3>5
  <2>16. ASSUME NEW b \in Announcements, RunWatch(b) PROVE OnTheWay(a)'
    <3>1. /\ chan' = chan /\ pc' = pc /\ cur' = cur /\ cand' = cand /\ Remove(SuffixOf[b], b) /\ ~alive[b]
      BY <2>16 DEF RunWatch, WatchInv
    <3>2. QED
      BY <1>3, <2>7, <3>1
  <2>17. ASSUME NEW b \in Announcements, EndAnnouncement(b) \/ TakeWatch(b) PROVE OnTheWay(a)'
    BY <2>6, <2>17 DEF EndAnnouncement, TakeWatch
  <2>18. ASSUME NEW k \in Closers, StopAll(k) \/ CancelStream(k) PROVE FALSE
    BY <2>18 DEF StopAll, CancelStream
  <2>19. CASE RescopeWriter
    BY <2>6, <2>19 DEF RescopeWriter
  <2>20. CASE ServeReturns
    BY <2>20 DEF ServeReturns
  <2>21. QED
    BY <1>5, <2>8, <2>9, <2>10, <2>11, <2>12, <2>13, <2>14, <2>15, <2>16, <2>17, <2>18, <2>19, <2>20
       DEF WriterNext, ServeStep, WatchStep, CloserStep
<1>6. QED
  BY <1>4, <1>5

LEMMA WriterKeepsLatest ==
  ASSUME TypeOK, ServeInv, InitInv, WatchInv, LatestInv, WriterNext, setting' = setting
  PROVE  LatestInv'
<1>1. SuffixOf' = SuffixOf
  BY SameSetting
<1> USE DEF sourceVars, serveVars, entryVars, wireVars
<1>2. snapshot' = snapshot
  BY DEF WriterNext, ServeStep, WatchStep, CloserStep, EndAnnouncement, PushAnnouncement, TakeWatch, RunWatch, StopAll,
         CancelStream, InitFilter, InitStore, InitOk, InitSend, InitRegister, ServeReceive, SendCheck, SendStopOld,
         SendRemoveOld, SendActive, RescopeWriter, ServeReturns
<1>3. closer \in [Closers -> {"idle", "stop", "cancel", "done"}] /\ {"serve", "overflow", "rescope"} \subseteq Closers
  BY DEF TypeOK, WriterTypeOK, Closers
<1>4. ASSUME NEW k \in Closers, closer[k] # "idle" PROVE closer'[k] # "idle"
  BY <1>3, <1>4 DEF WriterNext, ServeStep, WatchStep, CloserStep, EndAnnouncement, PushAnnouncement, TakeWatch, RunWatch,
     StopAll, CancelStream, InitFilter, InitStore, InitOk, InitSend, InitRegister, ServeReceive, SendCheck, SendStopOld,
     SendRemoveOld, SendActive, RescopeWriter, ServeReturns, ServeFails
<1>5. closed' => closed \/ \E k \in Closers : StopAll(k)
  BY DEF WriterNext, ServeStep, WatchStep, CloserStep, EndAnnouncement, PushAnnouncement, TakeWatch, RunWatch,
     CancelStream, InitFilter, InitStore, InitOk, InitSend, InitRegister, ServeReceive, SendCheck, SendStopOld,
     SendRemoveOld, SendActive, RescopeWriter, ServeReturns
<1>6. \A k \in Closers : StopAll(k) => closer[k] # "idle"
  BY DEF StopAll
<1>7. closed' => \E k \in Closers : closer'[k] # "idle"
  BY <1>4, <1>5, <1>6 DEF LatestInv
<1>8. \A a, b \in snapshot' : SuffixOf'[a] = SuffixOf'[b] => a = b
  BY <1>1, <1>2 DEF LatestInv
<1>9. QED
  BY <1>7, <1>8, WriterFollows, WriterDelivers DEF LatestInv

-----------------------------------------------------------------------------
(* The invariant is inductive *)

LEMMA OthersKeep ==
  ASSUME ServeInv, InitInv, WatchInv, LatestInv, setting' = setting, UNCHANGED writerVars, up' => up
  PROVE  ServeInv' /\ InitInv' /\ WatchInv' /\ LatestInv'
<1>1. SuffixOf' = SuffixOf /\ Suffixes' = Suffixes /\ NoActives' = NoActives /\ Excluded' = Excluded
  BY SameSetting
<1>2. UNCHANGED <<alive, snapshot, pushed, subscribed, chan, pc, cand, todo, cur, old, actives, watch, closed, closer>>
  BY DEF writerVars, sourceVars, serveVars, entryVars
<1>3. ServeInv' /\ InitInv'
  BY <1>1, <1>2 DEF ServeInv, InitInv
<1>4. WatchInv'
  BY <1>1, <1>2 DEF WatchInv, WatchedIsHeld, ClosedHoldsNothing
<1>5. \A a : (IsLatest(a)' <=> IsLatest(a)) /\ (OnTheWay(a)' <=> OnTheWay(a))
  BY <1>1, <1>2 DEF IsLatest, OnTheWay
<1>6. \A b, i : Follows(b, i)' <=> Follows(b, i)
  BY <1>1, <1>2, <1>5 DEF Follows
<1>7. FollowInv' /\ WayInv'
  BY <1>1, <1>2, <1>5, <1>6 DEF LatestInv, FollowInv, WayInv
<1>8. QED
  BY <1>1, <1>2, <1>3, <1>4, <1>7 DEF LatestInv

LEMMA StepIInv == IInv /\ [Next]_vars => IInv'
<1> SUFFICES ASSUME IInv, [Next]_vars PROVE IInv'
  OBVIOUS
<1>1. TypeOK /\ ServeInv /\ InitInv /\ WatchInv /\ OfferInv /\ ReaderInv /\ StreamInv /\ FaithInv /\ LatestInv
  BY DEF IInv
<1>2. CASE WriterNext /\ UNCHANGED <<setting, readerVars>>
  <2>1. setting' = setting /\ UNCHANGED readerVars
    BY <1>2
  <2>2. /\ Offered \subseteq Offered'
        /\ \A a \in Announcements : alive'[a] => alive[a]
        /\ closed => closed'
        /\ up' => up
    BY <1>1, <1>2, WriterProgresses
  <2>3. Speaks
    BY <1>1, <1>2, <2>1, WriterSpeaks
  <2>4. WireTypeOK' /\ WriterTypeOK'
    BY <1>1, <1>2, <2>1, WriterTypes
  <2>5. ServeInv' /\ InitInv' /\ WatchInv'
    BY <1>1, <1>2, <2>1, WriterKeeps
  <2>6. OfferInv'
    BY <1>1, <1>2, <2>1, <2>3, WriterOffers
  <2>7. StreamInv' /\ FaithInv'
    BY <1>1, <2>1, <2>2, <2>3, WriterShows
  <2>8. LatestInv'
    BY <1>1, <1>2, <2>1, WriterKeepsLatest
  <2>9. ReaderTypeOK' /\ ReaderInv'
    <3>1. /\ Suffixes' = Suffixes /\ RemoteAnnouncements' = RemoteAnnouncements /\ Scoped' = Scoped
          /\ Receivers' = Receivers /\ MaxRescopes' = MaxRescopes
      BY <2>1, SameSetting
    <3>2. UNCHANGED <<decoding, done, remote, held, pendings, signal, waiting, received, allowed, rescoping, rescopes, violation>>
      BY <2>1 DEF readerVars, appVars
    <3>3. ReaderTypeOK'
      BY <1>1, <3>1, <3>2 DEF TypeOK, ReaderTypeOK
    <3>4. ReaderInv'
      BY <1>1, <3>1, <3>2 DEF ReaderInv, LiveIsHeld, NoLostWakeup
    <3>5. QED
      BY <3>3, <3>4
  <2>10. QED
    BY <2>4, <2>5, <2>6, <2>7, <2>8, <2>9 DEF IInv, TypeOK
<1>3. ASSUME setting' = setting, UNCHANGED writerVars
      PROVE  WriterTypeOK'
  <2>1. ActiveMaps' = ActiveMaps /\ Suffixes' = Suffixes
    BY <1>3, SameSetting
  <2>2. UNCHANGED <<alive, snapshot, pushed, subscribed, chan, pc, cand, todo, cur, old, actives, watch, closed, closer>>
    BY <1>3 DEF writerVars, sourceVars, serveVars, entryVars
  <2>3. QED
    BY <1>1, <2>1, <2>2 DEF TypeOK, WriterTypeOK
<1>4. CASE ReaderNext /\ UNCHANGED <<setting, writerVars>>
  <2>1. setting' = setting /\ UNCHANGED writerVars /\ ReaderNext
    BY <1>4
  <2>2. up' => up
    BY <1>1, <2>1, ReaderProgresses
  <2>3. WireTypeOK' /\ ReaderTypeOK'
    BY <1>1, <2>1, ReaderTypes
  <2>4. ServeInv' /\ InitInv' /\ WatchInv' /\ LatestInv'
    BY <1>1, <2>1, <2>2, OthersKeep
  <2>5. OfferInv'
    BY <1>1, <2>1, ReaderOffers
  <2>6. ReaderInv'
    BY <1>1, <2>1, ReaderKeeps
  <2>7. StreamInv' /\ FaithInv'
    BY <1>1, <2>1, ReaderShows
  <2>8. QED
    BY <1>3, <2>1, <2>3, <2>4, <2>5, <2>6, <2>7 DEF IInv, TypeOK
<1>5. ASSUME setting' = setting, UNCHANGED writerVars, UNCHANGED readerVars, wire' = wire, up' \in BOOLEAN, up' => up
      PROVE  IInv'
  <2>1. /\ Suffixes' = Suffixes /\ RemoteAnnouncements' = RemoteAnnouncements /\ Scoped' = Scoped /\ Messages' = Messages
        /\ Receivers' = Receivers /\ MaxRescopes' = MaxRescopes /\ LocalEnds' = LocalEnds /\ SuffixOf' = SuffixOf
    BY <1>5, SameSetting
  <2>2. UNCHANGED <<decoding, done, remote, held, pendings, signal, waiting, received, allowed, rescoping, rescopes, violation>>
    BY <1>5 DEF readerVars, appVars
  <2>3. UNCHANGED <<alive, snapshot, pushed, chan, pc, cur, todo, actives, closed>>
    BY <1>5 DEF writerVars, sourceVars, serveVars, entryVars
  <2>4. ReaderTypeOK'
    BY <1>1, <2>1, <2>2 DEF TypeOK, ReaderTypeOK
  <2>5. WireTypeOK'
    BY <1>1, <1>5, <2>1 DEF TypeOK, WireTypeOK
  <2>6. ReaderInv'
    BY <1>1, <2>1, <2>2 DEF ReaderInv, LiveIsHeld, NoLostWakeup
  <2>7. OfferInv'
    BY <1>1, <1>5, <2>1, <2>3 DEF OfferInv, Offered
  <2>8. /\ \A n, s, a : (ShowsAfter(n, s, a)' <=> ShowsAfter(n, s, a)) /\ (KnowsAfter(n, s, a)' <=> KnowsAfter(n, s, a))
        /\ \A s, a : HasReason(s, a)' <=> HasReason(s, a)
    BY <1>5, <2>1, <2>2, <2>3 DEF ShowsAfter, PeerHolds, Live, HasReason, Offered, KnowsAfter, KnownAs
  <2>9. StreamInv'
    BY <1>1, <1>5, <2>1, <2>3, <2>8 DEF StreamInv, ReasonInv, AheadInv
  <2>10. FaithInv'
    BY <1>1, <1>5, <2>1, <2>2, <2>3, <2>8 DEF FaithInv, EndsHeldInv, BehindInv, KeptLiveInv, Live
  <2>11. QED
    BY <1>1, <1>3, <1>5, <2>4, <2>5, <2>6, <2>7, <2>9, <2>10, OthersKeep DEF IInv, TypeOK
<1>6. CASE StreamDown /\ UNCHANGED <<setting, writerVars, readerVars>>
  BY <1>5, <1>6 DEF StreamDown
<1>7. CASE UNCHANGED vars
  <2>1. setting' = setting /\ UNCHANGED writerVars /\ UNCHANGED readerVars /\ wire' = wire /\ up' = up
    BY <1>7 DEF vars, wireVars
  <2>2. up \in BOOLEAN
    BY <1>1 DEF TypeOK, WireTypeOK
  <2>3. QED
    BY <1>5, <2>1, <2>2
<1>8. QED
  BY <1>2, <1>4, <1>6, <1>7 DEF Next

THEOREM IInvHolds == Spec => []IInv
<1>1. QED
  BY InitIInv, StepIInv, PTL DEF Spec

-----------------------------------------------------------------------------
(* What the runs check, for any announcements, settings and receivers *)

(* The two ends hold all they have to end, and nothing else: a closed      *)
(* writer holds nothing, only what is held is watched, and no announcement *)
(* lives on outside the reader's map.                                      *)
THEOREM NothingIsLeaked == Spec => []NothingLeaks
<1>1. IInv => NothingLeaks
  BY DEF IInv, NothingLeaks, WatchInv, ReaderInv
<1>2. QED
  BY <1>1, IInvHolds, PTL

(* ReceiveAnnouncement does not sleep on a queue while nobody is left to   *)
(* take from it.                                                           *)
THEOREM ReceiversAreWoken == Spec => []NoLostWakeup
<1>1. IInv => NoLostWakeup
  BY DEF IInv, ReaderInv
<1>2. QED
  BY <1>1, IInvHolds, PTL

(* An ENDED finds the announcement it is for, and finds it live unless the *)
(* subscriber's own side has ended it, by closing its reader or in a mux:  *)
(* only then is the stream reset as one that breaks the protocol.          *)
THEOREM NobodyElseIsAccused == Spec => OnlyLocalEndsAreAccused
<1>1. IInv /\ [Next]_vars => [violation' # violation => held[Head(wire).suffix] # 0 /\ (done \/ LocalEnds)]_vars
  <2> SUFFICES ASSUME IInv, Next, violation' # violation
               PROVE  held[Head(wire).suffix] # 0 /\ (done \/ LocalEnds)
    BY DEF vars, readerVars
  <2>1. ReaderNext
    BY DEF Next, readerVars
  <2>2. QED
    BY <2>1, AccusedIs DEF IInv
<1>2. QED
  BY <1>1, IInvHolds, PTL DEF Spec, OnlyLocalEndsAreAccused

(* Once nothing is under way, both ends hold the announcement offered last *)
(* for each path, as long as it lives, and nothing that has ended.         *)
THEOREM EndsAgree == Spec => []Agreement
<1>1. IInv => Agreement
  <2> SUFFICES ASSUME IInv, Settled PROVE Agreement
    BY DEF Agreement
  <2>1. TypeOK /\ ServeInv /\ InitInv /\ WatchInv /\ OfferInv /\ ReaderInv /\ StreamInv /\ FaithInv /\ LatestInv
    BY DEF IInv
  <2>2. /\ pc = "loop" /\ chan = <<>> /\ wire = <<>> /\ up /\ subscribed
        /\ \A k \in Closers : closer[k] = "idle"
        /\ \A a \in Announcements : watch[a] # "taken" /\ (watch[a] = "queued" => alive[a])
    BY DEF Settled
  <2>3. ~closed
    BY <2>1, <2>2 DEF LatestInv
  <2>4. /\ \A a \in Announcements : SuffixOf[a] \in Suffixes /\ a # NoAnnouncement
        /\ actives \in [Suffixes -> Announcements \cup {NoAnnouncement}]
        /\ Offered \subseteq Announcements
    BY <2>1, SuffixesAre, RangeIs DEF TypeOK, WriterTypeOK, ActiveMaps, Offered
  <2>5. \A a \in Offered \ Excluded : alive[a] /\ IsLatest(a) => actives[SuffixOf[a]] = a
    <3>1. \A a \in Announcements \ Excluded : IsLatest(a) /\ alive[a] => OnTheWay(a)
      BY <2>1, <2>2, <2>3 DEF LatestInv, WayInv
    <3>2. \A a : OnTheWay(a) => actives[SuffixOf[a]] = a
      BY <2>2 DEF OnTheWay, Sending
    <3>3. QED
      BY <2>4, <3>1, <3>2
  <2>6. \A s \in Suffixes : actives[s] # NoAnnouncement => alive[actives[s]]
    <3>1. todo = {}
      BY <2>1, <2>2 DEF ServeInv
    <3>2. QED
      BY <2>1, <2>2, <2>4, <3>1 DEF WatchInv
  <2>7. 0 = Len(wire) /\ \A s, a : ShowsAfter(0, s, a) <=> PeerHolds(s, a)
    BY <2>2, SaysNothingAtFirst DEF ShowsAfter
  <2>8. \A s \in Suffixes, a \in Announcements : PeerHolds(s, a) => actives[s] = a
    BY <2>1, <2>2, <2>3, <2>7 DEF StreamInv, AheadInv
  <2>9. \A s \in Suffixes : Live(held[s]) => remote[held[s]].announcement \in Announcements
    BY <2>1, ReaderIs, RemotesAre
  <2>10. \A s \in Suffixes : Live(held[s]) => remote[held[s]].announcement = actives[s]
    BY <2>8, <2>9 DEF PeerHolds
  <2>11. ~Scoped /\ ~LocalEnds /\ ~done => \A s \in Suffixes : actives[s] # NoAnnouncement => Live(held[s])
    <3> SUFFICES ASSUME ~Scoped, ~LocalEnds, ~done, NEW s \in Suffixes, NEW a \in Announcements, actives[s] = a
                 PROVE  Live(held[s])
      BY <2>4
    <3>1. todo = {}
      BY <2>1, <2>2 DEF ServeInv
    <3>2. 0 = Len(wire) /\ \A b : KnowsAfter(0, s, b) <=> KnownAs(s, b)
      BY <2>2, SaysNothingAtFirst DEF KnowsAfter
    <3>3. KnownAs(s, a)
      BY <2>1, <3>1, <3>2 DEF FaithInv, BehindInv
    <3>4. QED
      BY <2>1, <3>3 DEF KnownAs, FaithInv, KeptLiveInv
  <2>12. ~Scoped /\ ~LocalEnds /\ ~done => \A s \in Suffixes : Live(held[s]) = (actives[s] # NoAnnouncement)
    <3>1. \A s \in Suffixes : Live(held[s]) => actives[s] # NoAnnouncement
      BY <2>4, <2>9, <2>10
    <3>2. \A s \in Suffixes : Live(held[s]) \in BOOLEAN
      BY <2>1, ReaderIs, RemotesAre DEF Live
    <3>3. QED
      BY <2>11, <3>1, <3>2
  <2>13. QED
    BY <2>5, <2>6, <2>10, <2>12 DEF Agreement
<1>2. QED
  BY <1>1, IInvHolds, PTL

-----------------------------------------------------------------------------
(* The abstract view *)

(* What AnnounceView sees of a state. *)
ViewOf == [s \in Suffixes |-> IF held[s] = 0 THEN NoAnnouncement ELSE remote[held[s]].announcement]
AliveOnes == {a \in Announcements : alive[a]}

LEMMA ViewIs ==
  ASSUME TypeOK
  PROVE  \A s \in Suffixes : /\ ViewOf[s] = IF held[s] = 0 THEN NoAnnouncement ELSE remote[held[s]].announcement
                             /\ held[s] # 0 => held[s] \in DOMAIN remote /\ ViewOf[s] \in Announcements
                                               /\ ViewOf[s] # NoAnnouncement
<1>1. /\ Len(remote) \in Nat /\ DOMAIN remote = 1..Len(remote)
      /\ \A i \in 1..Len(remote) : remote[i].announcement \in Announcements
      /\ \A s \in Suffixes : held[s] \in 0..Len(remote)
  BY ReaderIs, RemotesAre
<1>2. \A s \in Suffixes : ViewOf[s] = IF held[s] = 0 THEN NoAnnouncement ELSE remote[held[s]].announcement
  BY DEF ViewOf
<1>3. \A s \in Suffixes : held[s] # 0 => held[s] \in DOMAIN remote
  BY <1>1
<1>4. QED
  BY <1>1, <1>2, <1>3, SuffixesAre

LEMMA ViewInit == Init => View!Init
<1> SUFFICES ASSUME Init PROVE View!Init
  OBVIOUS
<1>1. SuffixOf = [a \in Announcements |-> SuffixOf[a]] /\ setting \in Settings
  BY SettingsAssumption DEF Init, WireInit, SuffixOf
<1>2. \A a \in Announcements : SuffixOf[a] \in UNION {{x.suffixOf[b] : b \in Announcements} : x \in Settings}
  BY <1>1 DEF SuffixOf
<1>3. SuffixOf \in [Announcements -> UNION {{x.suffixOf[b] : b \in Announcements} : x \in Settings}]
  BY <1>1, <1>2
<1>4. AliveOnes = Announcements
  BY DEF Init, WriterInit, AliveOnes
<1>5. Offered \in SUBSET Announcements
  <2>1. pushed = <<>> /\ snapshot \subseteq Announcements
    BY DEF Init, WriterInit
  <2>2. DOMAIN pushed = {}
    BY <2>1
  <2>3. QED
    BY <2>1, <2>2 DEF Offered, Range
<1>6. allowed \in SUBSET Suffixes
  BY DEF Init, ReaderInit
<1>7. ViewOf = [s \in Suffixes |-> NoAnnouncement]
  BY DEF Init, ReaderInit, ViewOf
<1>8. QED
  BY <1>3, <1>4, <1>5, <1>6, <1>7 DEF View!Init, View!Suffixes, Suffixes, AliveOnes, ViewOf


LEMMA ViewWriterStep ==
  ASSUME TypeOK, WriterNext, setting' = setting, UNCHANGED readerVars
  PROVE  [View!Next]_(View!vars)
<1>1. SuffixOf' = SuffixOf /\ Suffixes' = Suffixes
  BY SameSetting
<1>2. allowed' = allowed /\ ViewOf' = ViewOf
  BY <1>1 DEF readerVars, appVars, ViewOf
<1>3. alive \in [Announcements -> BOOLEAN] /\ pushed \in Seq(Announcements)
  BY DEF TypeOK, WriterTypeOK
<1> USE DEF sourceVars, serveVars, entryVars, wireVars
<1>4. ASSUME NEW a \in Announcements, EndAnnouncement(a)
      PROVE  View!End(a)
  <2>1. AliveOnes' = AliveOnes \ {a}
    BY <1>3, <1>4 DEF EndAnnouncement, AliveOnes
  <2>2. Offered' = Offered
    BY <1>4 DEF EndAnnouncement, Offered
  <2>3. QED
    BY <1>1, <1>2, <2>1, <2>2 DEF View!End, AliveOnes, ViewOf
<1>5. ASSUME NEW a \in Announcements, PushAnnouncement(a)
      PROVE  View!Offer(a)
  <2>1. pushed' = Append(pushed, a) /\ UNCHANGED <<alive, snapshot>>
    BY <1>5 DEF PushAnnouncement
  <2>2. Offered' = Offered \cup {a}
    BY <1>3, <2>1, RangeOfAppend DEF Offered
  <2>3. AliveOnes' = AliveOnes
    BY <2>1 DEF AliveOnes
  <2>4. QED
    BY <1>1, <1>2, <2>2, <2>3 DEF View!Offer, AliveOnes, ViewOf
<1>6. ASSUME UNCHANGED sourceVars
      PROVE  UNCHANGED View!vars
  <2>1. AliveOnes' = AliveOnes /\ Offered' = Offered
    BY <1>6 DEF AliveOnes, Offered
  <2>2. QED
    BY <1>1, <1>2, <2>1 DEF View!vars, AliveOnes, ViewOf
<1>7. \/ \E a \in Announcements : EndAnnouncement(a) \/ PushAnnouncement(a)
      \/ UNCHANGED sourceVars
  BY DEF WriterNext, ServeStep, WatchStep, CloserStep, TakeWatch, RunWatch, StopAll, CancelStream, InitFilter,
         InitStore, InitOk, InitSend, InitRegister, ServeReceive, SendCheck, SendStopOld, SendRemoveOld, SendActive,
         RescopeWriter, ServeReturns
<1>8. QED
  BY <1>4, <1>5, <1>6, <1>7 DEF View!Next

LEMMA ViewReaderStep ==
  ASSUME TypeOK, OfferInv, ReaderInv, StreamInv, ReaderNext, setting' = setting, UNCHANGED writerVars
  PROVE  [View!Next]_(View!vars)
<1>1. SuffixOf' = SuffixOf /\ Suffixes' = Suffixes
  BY SameSetting
<1>2. UNCHANGED <<alive, snapshot, pushed>>
  BY DEF writerVars, sourceVars
<1>3. AliveOnes' = AliveOnes /\ Offered' = Offered
  BY <1>2 DEF AliveOnes, Offered
<1>4. /\ Len(remote) \in Nat /\ DOMAIN remote = 1..Len(remote)
      /\ \A i \in 1..Len(remote) : remote[i] \in RemoteAnnouncements
      /\ held \in [Suffixes -> 0..Len(remote)]
  BY ReaderIs DEF TypeOK, ReaderTypeOK
<1>5. wire # <<>> => Head(wire) = wire[1] /\ wire[1] \in Messages /\ 1 \in DOMAIN wire /\ 0 < Len(wire)
  BY TailIs DEF TypeOK, WireTypeOK
<1>6. \A s \in Suffixes : /\ ViewOf[s] = IF held[s] = 0 THEN NoAnnouncement ELSE remote[held[s]].announcement
                          /\ held[s] # 0 => held[s] \in DOMAIN remote /\ ViewOf[s] \in Announcements
                                            /\ ViewOf[s] # NoAnnouncement
  BY ViewIs
<1>7. ViewOf' = [s \in Suffixes |-> IF held'[s] = 0 THEN NoAnnouncement ELSE remote'[held'[s]].announcement]
  BY <1>1 DEF ViewOf
<1> USE DEF appVars, wireVars
<1>8. ASSUME allowed' = allowed, ViewOf' = ViewOf
      PROVE  UNCHANGED View!vars
  BY <1>1, <1>3, <1>8 DEF View!vars, AliveOnes, ViewOf
<1>9. ASSUME allowed' = allowed, NEW S \in SUBSET Suffixes,
             \A s \in S : /\ ViewOf[s] # NoAnnouncement
                          /\ \/ ViewOf[s] \notin AliveOnes
                             \/ s \notin allowed
                             \/ \E b \in Offered \ {ViewOf[s]} : SuffixOf[b] = s,
             \A s \in Suffixes : ViewOf'[s] = IF s \in S THEN NoAnnouncement ELSE ViewOf[s]
      PROVE  View!Next
  <2>1. ViewOf' = [s \in Suffixes |-> IF s \in S THEN NoAnnouncement ELSE ViewOf[s]]
    BY <1>7, <1>9
  <2>2. View!Hide(S)
    BY <1>1, <1>3, <1>9, <2>1 DEF View!Hide, View!Suffixes, Suffixes, AliveOnes, ViewOf
  <2>3. QED
    BY <2>2 DEF View!Next, View!Suffixes, Suffixes
(* The prior advertisement is dropped. *)
<1>10. ASSUME allowed' = allowed, NEW s \in Suffixes, remote' = EndHeld(s), held' = [held EXCEPT ![s] = 0],
              held[s] # 0 => \/ ViewOf[s] \notin AliveOnes
                             \/ s \notin allowed
                             \/ \E b \in Offered \ {ViewOf[s]} : SuffixOf[b] = s
       PROVE  [View!Next]_(View!vars)
  <2>1. /\ DOMAIN remote' = DOMAIN remote
        /\ \A i \in DOMAIN remote :
              remote'[i] = IF i = held[s] THEN [remote[i] EXCEPT !.live = FALSE] ELSE remote[i]
    BY <1>10, EndHeldIs
  <2>2. \A i \in DOMAIN remote : remote'[i].announcement = remote[i].announcement
    BY <1>4, <2>1, RemotesAre
  <2>3. held'[s] = 0 /\ \A r \in Suffixes : r # s => held'[r] = held[r]
    BY <1>4, <1>10
  <2>4. \A r \in Suffixes : ViewOf'[r] = IF r \in {s} THEN NoAnnouncement ELSE ViewOf[r]
    BY <1>6, <1>7, <2>2, <2>3
  <2>5. CASE held[s] = 0
    <3>1. ViewOf' = ViewOf
      BY <1>6, <1>7, <2>4, <2>5 DEF ViewOf
    <3>2. QED
      BY <1>8, <1>10, <3>1
  <2>6. CASE held[s] # 0
    <3>1. \A r \in {s} : /\ ViewOf[r] # NoAnnouncement
                         /\ \/ ViewOf[r] \notin AliveOnes
                            \/ r \notin allowed
                            \/ \E b \in Offered \ {ViewOf[r]} : SuffixOf[b] = r
      BY <1>6, <1>10, <2>6
    <3>2. {s} \in SUBSET Suffixes
      OBVIOUS
    <3>3. View!Next
      BY <1>9, <1>10, <2>4, <3>1, <3>2
    <3>4. QED
      BY <3>3
  <2>7. QED
    BY <2>5, <2>6
<1>11. CASE RecvActive
  <2>1. wire # <<>> /\ Head(wire).type = "active" /\ allowed' = allowed
    BY <1>11 DEF RecvActive, Decode
  <2>2. PICK s \in Suffixes, b \in Announcements : s = Head(wire).suffix /\ b = Head(wire).announcement
    BY <1>5, <2>1, FieldsAre
  <2>3. b \in Offered /\ SuffixOf[b] = s
    BY <1>5, <2>1, <2>2 DEF OfferInv
  <2>4. CASE s \in allowed /\ Activate(s, b)
    <3>1. /\ DOMAIN remote' = 1..(Len(remote) + 1)
          /\ \A i \in 1..Len(remote) :
                 remote'[i] = IF i = held[s] THEN [remote[i] EXCEPT !.live = FALSE] ELSE remote[i]
          /\ remote'[Len(remote) + 1] = [suffix |-> s, announcement |-> b, live |-> ~done]
          /\ held' = [held EXCEPT ![s] = Len(remote) + 1]
      BY <2>4, ActivateIs
    <3>2. /\ held'[s] = Len(remote) + 1 /\ Len(remote) + 1 # 0
          /\ \A r \in Suffixes : r # s => held'[r] = held[r]
      BY <1>4, <3>1
    <3>3. \A i \in DOMAIN remote : remote'[i].announcement = remote[i].announcement
      BY <1>4, <3>1, RemotesAre
    <3>4. remote'[Len(remote) + 1].announcement = b
      BY <3>1
    <3>5. ViewOf'[s] = b /\ \A r \in Suffixes : r # s => ViewOf'[r] = ViewOf[r]
      BY <1>6, <1>7, <3>2, <3>3, <3>4
    <3>6. ViewOf' = [ViewOf EXCEPT ![s] = b]
      BY <1>7, <3>5 DEF ViewOf
    <3>7. View!Show(b)
      BY <1>1, <1>3, <2>1, <2>3, <2>4, <3>6 DEF View!Show, AliveOnes, ViewOf
    <3>8. QED
      BY <3>7 DEF View!Next
  <2>5. CASE s \notin allowed /\ remote' = EndHeld(s) /\ held' = [held EXCEPT ![s] = 0]
    BY <1>10, <2>1, <2>5
  <2>6. QED
    BY <1>11, <2>2, <2>4, <2>5 DEF RecvActive
<1>12. CASE RecvEnded
  <2>1. wire # <<>> /\ Head(wire).type = "ended" /\ allowed' = allowed
    BY <1>12 DEF RecvEnded, Decode
  <2>2. PICK s \in Suffixes : s = Head(wire).suffix
    BY <1>5, <2>1, FieldsAre
  <2>3. CASE Live(held[s]) /\ remote' = EndHeld(s) /\ held' = [held EXCEPT ![s] = 0]
    <3>1. ViewOf[s] \in Announcements /\ PeerHolds(s, ViewOf[s])
      BY <1>6, <2>3 DEF PeerHolds, Live
    <3>2. 0 < Len(wire) /\ 0 + 1 = 1 /\ IsEnded(wire[0 + 1], s)
      BY <1>5, <2>1, <2>2 DEF IsEnded
    <3>3. ShowsAfter(0, s, ViewOf[s])
      BY <3>1, SaysNothingAtFirst DEF ShowsAfter
    <3>4. HasReason(s, ViewOf[s])
      BY <3>1, <3>2, <3>3 DEF StreamInv, ReasonInv
    <3>5. \/ ViewOf[s] \notin AliveOnes
          \/ \E b \in Offered \ {ViewOf[s]} : SuffixOf[b] = s
      BY <3>4 DEF HasReason, AliveOnes
    <3>6. QED
      BY <1>10, <2>1, <2>3, <3>5
  <2>4. CASE UNCHANGED <<remote, held>>
    BY <1>1, <1>8, <2>1, <2>4 DEF ViewOf
  <2>5. QED
    BY <1>12, <2>2, <2>3, <2>4 DEF RecvEnded
<1>13. ASSUME NEW i \in DOMAIN remote, ContextEnds(i) \/ LocalEnd(i)
       PROVE  UNCHANGED View!vars
  <2>1. remote' = [j \in DOMAIN remote |-> IF j \in {i} THEN [remote[j] EXCEPT !.live = FALSE] ELSE remote[j]]
    BY <1>13 DEF ContextEnds, LocalEnd
  <2>2. held' = held /\ allowed' = allowed
    BY <1>13 DEF ContextEnds, LocalEnd
  <2>3. \A j \in DOMAIN remote : remote'[j].announcement = remote[j].announcement
    BY <2>1, EndingHeld
  <2>4. \A s \in Suffixes : ViewOf'[s] = ViewOf[s]
    BY <1>6, <1>7, <2>2, <2>3
  <2>5. ViewOf' = ViewOf
    BY <1>7, <2>4 DEF ViewOf
  <2>6. QED
    BY <1>8, <2>2, <2>5
<1>14. CASE RescopeReader
  <2> DEFINE Refused == {s \in Suffixes \ allowed : held[s] # 0}
             E == {i \in DOMAIN remote : \E s \in Refused : held[s] = i}
  <2>1. /\ allowed' = allowed
        /\ \/ UNCHANGED <<remote, held>>
           \/ /\ remote' = [i \in DOMAIN remote |-> IF i \in E THEN [remote[i] EXCEPT !.live = FALSE] ELSE remote[i]]
              /\ held' = [s \in Suffixes |-> IF s \in Refused THEN 0 ELSE held[s]]
    BY <1>14 DEF RescopeReader
  <2>2. CASE UNCHANGED <<remote, held>>
    BY <1>1, <1>8, <2>1, <2>2 DEF ViewOf
  <2>3. CASE /\ remote' = [i \in DOMAIN remote |-> IF i \in E THEN [remote[i] EXCEPT !.live = FALSE] ELSE remote[i]]
             /\ held' = [s \in Suffixes |-> IF s \in Refused THEN 0 ELSE held[s]]
    <3>1. Refused \in SUBSET Suffixes /\ \A s \in Refused : held[s] # 0 /\ s \notin allowed
      OBVIOUS
    <3> HIDE DEF E, Refused
    <3>2. \A i \in DOMAIN remote : remote'[i].announcement = remote[i].announcement
      BY <2>3, EndingHeld
    <3>3. \A s \in Suffixes : held'[s] = IF s \in Refused THEN 0 ELSE held[s]
      BY <2>3
    <3>4. \A s \in Suffixes : ViewOf'[s] = IF s \in Refused THEN NoAnnouncement ELSE ViewOf[s]
      BY <1>6, <1>7, <3>2, <3>3
    <3>5. \A s \in Refused : ViewOf[s] # NoAnnouncement /\ s \notin allowed
      BY <1>6, <3>1
    <3>6. QED
      BY <1>9, <2>1, <3>1, <3>4, <3>5
  <2>4. QED
    BY <2>1, <2>2, <2>3
<1>15. CASE ChangeScope
  <2>1. PICK S \in SUBSET Suffixes : allowed' = S
    BY <1>15 DEF ChangeScope
  <2>2. ViewOf' = ViewOf
    BY <1>1, <1>15 DEF ChangeScope, ViewOf
  <2>3. View!ChangeScope(S)
    BY <1>1, <1>3, <2>1, <2>2 DEF View!ChangeScope, AliveOnes, ViewOf
  <2>4. QED
    BY <2>3 DEF View!Next, View!Suffixes, Suffixes
<1>16. CASE UNCHANGED <<remote, held, allowed>>
  BY <1>1, <1>8, <1>16 DEF ViewOf
<1>17. QED
  BY <1>11, <1>12, <1>13, <1>14, <1>15, <1>16 DEF ReaderNext, DecodeStep, ReceiverStep, RecvOk, DecodeFails, Receive, Wake,
     UserClose, UserCloseWithError, CloseReader

(* Announcements reach the peer's map and leave it only as AnnounceView    *)
(* allows: each only after it was offered and while the scope allows its   *)
(* path, and none is hidden while it is live, the last offered for its     *)
(* path and in scope.                                                      *)
THEOREM ViewIsImplemented == Spec => ImplementsView
<1>1. Init => View!Init
  BY ViewInit
<1>2. IInv /\ [Next]_vars => [View!Next]_(View!vars)
  <2> SUFFICES ASSUME IInv, [Next]_vars PROVE [View!Next]_(View!vars)
    OBVIOUS
  <2>1. TypeOK /\ OfferInv /\ ReaderInv /\ StreamInv
    BY DEF IInv
  <2>2. CASE WriterNext /\ UNCHANGED <<setting, readerVars>>
    BY <2>1, <2>2, ViewWriterStep
  <2>3. CASE ReaderNext /\ UNCHANGED <<setting, writerVars>>
    BY <2>1, <2>3, ViewReaderStep
  <2>4. CASE UNCHANGED <<setting, writerVars, readerVars>>
    BY <2>4 DEF View!vars, SuffixOf, Suffixes, Offered, writerVars, sourceVars, readerVars, appVars
  <2>5. QED
    BY <2>2, <2>3, <2>4 DEF Next, vars
<1>3. QED
  BY <1>1, <1>2, IInvHolds, PTL DEF Spec, ImplementsView, View!Spec
=============================================================================
