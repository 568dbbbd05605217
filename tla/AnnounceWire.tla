---------------------------- MODULE AnnounceWire ----------------------------
(***************************************************************************)
(* The announce stream between a publisher's AnnouncementWriter and a      *)
(* subscriber's AnnouncementReader: an ordered QUIC stream that carries    *)
(* one ANNOUNCE_OK and then ANNOUNCE_BROADCAST messages                    *)
(* (moqt/internal/message/announce_ok.go, announce_broadcast.go).          *)
(***************************************************************************)
EXTENDS Naturals, Sequences, FiniteSets

CONSTANTS
    Announcements,   \* the publisher's *Announcement objects
    NoAnnouncement,
    Settings         \* the ways the two ends may be set up

ASSUME NoAnnouncementAssumption == NoAnnouncement \notin Announcements
ASSUME SettingsAssumption ==
    \A x \in Settings :
        /\ x.suffixOf = [a \in Announcements |-> x.suffixOf[a]]
        /\ x.excluded \subseteq Announcements
        /\ {x.writerScoped, x.scoped, x.localEnds, x.closable} \subseteq BOOLEAN
        /\ x.rescopes \in Nat
        /\ IsFiniteSet(x.receivers)

VARIABLES
    setting,  \* chosen once, before the stream is opened
    wire,     \* messages written and not yet decoded
    up        \* the stream's context is not done: it has not been closed or reset

wireVars == <<wire, up>>

SuffixOf == setting.suffixOf          \* an announcement's path below the writer's prefix
Excluded == setting.excluded          \* what shouldExclude skips, for its hop path
WriterScoped == setting.writerScoped  \* the writer was given an authScope
Scoped == setting.scoped              \* the reader was given an authScope
MaxRescopes == setting.rescopes       \* bound: how often the reader's scope changes
LocalEnds == setting.localEnds        \* a mux may replace what the reader received
Closable == setting.closable          \* the application may close the reader
Receivers == setting.receivers        \* goroutines calling ReceiveAnnouncement

Suffixes == {SuffixOf[a] : a \in Announcements}

OkMsg(n) == [type |-> "ok", count |-> n]
ActiveMsg(s, a) == [type |-> "active", suffix |-> s, announcement |-> a]
EndedMsg(s) == [type |-> "ended", suffix |-> s]

Messages ==
    [type : {"ok"}, count : Nat]
        \cup [type : {"active"}, suffix : Suffixes, announcement : Announcements]
        \cup [type : {"ended"}, suffix : Suffixes]

WireTypeOK == setting \in Settings /\ wire \in Seq(Messages) /\ up \in BOOLEAN

WireInit == setting \in Settings /\ wire = <<>> /\ up = TRUE

(* Encode: one Write of a whole message, which fails once the stream is down. *)
Encode(m) == up /\ wire' = Append(wire, m)

(* The session or the peer ends the stream: what is in flight may be lost. *)
StreamDown ==
    /\ up
    /\ up' = FALSE
    /\ UNCHANGED wire
=============================================================================
