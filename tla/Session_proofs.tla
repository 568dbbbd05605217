--------------------------- MODULE Session_proofs ---------------------------
(***************************************************************************)
(* The safety of a Session for any streams, tokens, requests and grants.   *)
(*                                                                         *)
(* The authorization comes first (AuthInv), for the session's other steps  *)
(* leave it alone.  That nothing outside the scope is served is not        *)
(* inductive: ServedInv says what a request that the scope no longer       *)
(* covers still waits for, and RegisteredInv whom a pass finds.  That only *)
(* the grant in force lapses depends on which timers may still fire, which *)
(* is GrantInv.  CloseInv and SetupInv are why no channel of the session   *)
(* is closed twice.                                                        *)
(***************************************************************************)
EXTENDS Session, PathPattern, SequenceTheorems, TLAPS

(* The generations whose timer is set, or has fired and waits for w.mu.    *)
Armed(w) == ({timer[w]} \ {0}) \cup fired[w]

(* A timer of the latest grant is one the grant has set.  While a grant is *)
(* under way it is not the latest yet.                                     *)
GrantInv ==
    \A w \in Writers :
        /\ section[w] = "grant" => w \notin ended /\ generation[w] < Len(Offers[cast][w])
        /\ section[w] # "grant" /\ generation[w] \in Armed(w) => w \in limited
        /\ granted[w] = IF section[w] = "grant" THEN generation[w] + 1 ELSE generation[w]

(* What has ended grants no more. *)
EndInv ==
    \A w \in Writers :
        /\ w \in ended => scope[w] = None
        /\ lapsed[w] # 0 => w \in ended /\ w \in limited /\ lapsed[w] = granted[w]

(* The loop has still to look at the scope, or has ended. *)
Unseen == dirty # {} \/ rescopeCh \/ pass = "over"

(* What is served without a grant is about to be cut.                      *)
ServedInv ==
    Enforced =>
        /\ \A r \in Subscribes : req[r] = "served" /\ OwnId(r) =>
            Covers(r) \/ Unseen \/ (pass = "close" /\ r \in revoked)
        /\ \A r \in Listings : req[r] = "served" =>
            Covers(r) \/ Unseen \/ pass = "close" \/ (pass = "watchers" /\ r \in left)

(* The entry of an id that only one SUBSCRIBE has is its own. *)
RegisteredInv ==
    /\ \A r \in Requests : (req[r] = "watching" => r \in Listings) /\ (req[r] = "judged" => r \in Subscribes)
    /\ \A r \in Subscribes : req[r] \in {"added", "served"} /\ OwnId(r) => r \in Registered

AuthInv ==
    cast \in Casts /\ AuthTypeOK /\ GrantInv /\ EndInv /\ ServedInv /\ RegisteredInv

(* The type invariant, by what can disturb it. *)
WriterTypeOK ==
    /\ scope \in [Writers -> (SUBSET Requests) \cup {None}]
    /\ ended \subseteq Writers /\ dirty \subseteq Writers
    /\ limited \subseteq Writers
    /\ granted \in [Writers -> Nat] /\ lapsed \in [Writers -> Nat]
    /\ section \in [Writers -> {"free", "grant", "end", "refuse"}]
    /\ generation \in [Writers -> Nat] /\ timer \in [Writers -> Nat] /\ fired \in [Writers -> SUBSET Nat]
    /\ \A w \in Writers :
        /\ generation[w] \in 0..Len(Offers[cast][w]) /\ timer[w] \in 0..generation[w]
        /\ fired[w] \subseteq 1..generation[w]

HandlerTypeOK ==
    /\ handler \in [Writers -> {"none", "run", "deferred", "over"}]
    /\ watch \in [Tokens -> {"none", "reading", "ending", "over"}]
    /\ accused \subseteq Tokens

SignalTypeOK == ready \in BOOLEAN /\ rescopeCh \in BOOLEAN

PassTypeOK ==
    /\ pass \in {"idle", "close", "watchers", "over"}
    /\ left \subseteq Requests /\ revoked \subseteq Requests
    /\ req \in [Requests -> {"none", "wait", "judged", "added", "watching", "served", "cut", "done"}]
    /\ trackWriters \in [SubscribeIDs -> Subscribes \cup {None}]

CredTypeOK ==
    /\ replies \in [Tokens -> Seq({"ok", "end"})]
    /\ side \in [Tokens -> {"open", "fin", "more", "reset"}]
    /\ cred \in [Tokens -> {"none", "asking", "held", "over"}]

LEMMA AuthTypeParts ==
    /\ AuthTypeOK <=> WriterTypeOK /\ HandlerTypeOK /\ SignalTypeOK /\ PassTypeOK /\ CredTypeOK
    /\ AuthTypeOK' <=> WriterTypeOK' /\ HandlerTypeOK' /\ SignalTypeOK' /\ PassTypeOK' /\ CredTypeOK'
  BY DEF AuthTypeOK, WriterTypeOK, HandlerTypeOK, SignalTypeOK, PassTypeOK, CredTypeOK

LEMMA AuthInitInv == cast \in Casts /\ AuthInit => AuthInv
<1> SUFFICES ASSUME cast \in Casts, AuthInit PROVE AuthInv
  OBVIOUS
<1>1. \A w \in Writers : Len(Offers[cast][w]) \in Nat
  BY OffersAssumption DEF Writers
<1>2. WriterTypeOK
  BY <1>1 DEF AuthInit, WriterTypeOK, Writers
<1>3. HandlerTypeOK /\ PassTypeOK /\ CredTypeOK
  BY DEF AuthInit, HandlerTypeOK, PassTypeOK, CredTypeOK
<1>4. SignalTypeOK
  BY DEF AuthInit, SignalTypeOK, Declined, Enforced
<1>5. GrantInv /\ EndInv
  BY <1>2 DEF AuthInit, GrantInv, EndInv, Armed, WriterTypeOK
<1>6. ServedInv /\ RegisteredInv
  BY DEF AuthInit, ServedInv, RegisteredInv, Requests
<1>7. QED
  BY <1>2, <1>3, <1>4, <1>5, <1>6, AuthTypeParts DEF AuthInv

LEMMA ReplyType ==
  ASSUME CredTypeOK, NEW w, NEW m \in {"ok", "end"}, Reply(w, m)
  PROVE  replies' \in [Tokens -> Seq({"ok", "end"})]
<1>1. CASE replies' = [replies EXCEPT ![w] = Append(@, m)] /\ w \in Tokens
  <2>1. Append(replies[w], m) \in Seq({"ok", "end"})
    BY <1>1 DEF CredTypeOK
  <2>2. QED
    BY <1>1, <2>1 DEF CredTypeOK
<1>2. CASE replies' = replies
  BY <1>2 DEF CredTypeOK
<1>3. QED
  BY <1>1, <1>2 DEF Reply

-----------------------------------------------------------------------------
(* A writer, with w.mu held or about to be. *)

LEMMA WriterStepInv ==
  ASSUME AuthInv, NEW w \in Writers, UNCHANGED cast,
         \/ \E n \in DOMAIN Offers[cast][w] : n = generation[w] + 1 /\ \E g \in Offers[cast][w][n] : Grant(w, g)
         \/ FinishGrant(w) \/ FinishEnd(w) \/ Refuse(w) \/ TimerFires(w) \/ Expire(w) \/ End(w)
  PROVE  AuthInv'
<1> USE DEF AuthInv
<1>1. WriterTypeOK /\ HandlerTypeOK /\ SignalTypeOK /\ PassTypeOK /\ CredTypeOK
  BY AuthTypeParts
<1>2. Len(Offers[cast][w]) \in Nat /\ DOMAIN Offers[cast][w] = 1..Len(Offers[cast][w])
  BY OffersAssumption DEF Writers
<1>3. UNCHANGED <<handlerVars, passVars, reqVars, side, cred>>
  BY DEF Grant, FinishGrant, FinishEnd, Refuse, TimerFires, Expire, End, credVars
<1>4. HandlerTypeOK' /\ PassTypeOK'
  BY <1>1, <1>3 DEF HandlerTypeOK, PassTypeOK, handlerVars, passVars, reqVars
<1>5. CredTypeOK' /\ SignalTypeOK'
  <2>1. \/ UNCHANGED replies
        \/ \E m \in {"ok", "end"} : Reply(w, m)
    BY DEF Grant, FinishGrant, FinishEnd, Refuse, TimerFires, Expire, End
  <2>2. replies' \in [Tokens -> Seq({"ok", "end"})]
    BY <1>1, <2>1, ReplyType DEF CredTypeOK
  <2>3. \/ UNCHANGED <<ready, rescopeCh>>
        \/ Answered(w) /\ Changed(w)
    BY DEF Grant, FinishGrant, FinishEnd, Refuse, TimerFires, Expire, End
  <2>4. ready' \in BOOLEAN /\ rescopeCh' \in BOOLEAN
    BY <1>1, <2>3 DEF Answered, Changed, SignalTypeOK
  <2>5. QED
    BY <1>1, <1>3, <2>2, <2>4 DEF CredTypeOK, SignalTypeOK
<1>6. WriterTypeOK' /\ GrantInv' /\ EndInv'
  <2> USE DEF WriterTypeOK, GrantInv, EndInv, Armed, Goes
  <2>1. ASSUME NEW n \in DOMAIN Offers[cast][w], n = generation[w] + 1,
               NEW g \in Offers[cast][w][n], Grant(w, g)
        PROVE  WriterTypeOK' /\ GrantInv' /\ EndInv'
    <3>1. g.allows \in SUBSET Requests
      BY OffersAssumption DEF Writers, Requests
    <3>2. /\ w \notin ended /\ section[w] = "free" /\ section' = [section EXCEPT ![w] = "grant"]
          /\ scope' = [scope EXCEPT ![w] = g.allows]
          /\ dirty' \subseteq dirty \cup {w} /\ limited' \in {limited \cup {w}, limited \ {w}}
          /\ granted' = [granted EXCEPT ![w] = @ + 1]
          /\ UNCHANGED <<ended, generation, timer, fired, lapsed>>
      BY <2>1 DEF Grant
    <3>3. generation[w] < Len(Offers[cast][w])
      BY <1>1, <1>2, <2>1
    <3>4. WriterTypeOK'
      BY <1>1, <3>1, <3>2
    <3>5. GrantInv'
      BY <1>1, <3>2, <3>3
    <3>6. EndInv'
      BY <1>1, <3>2
    <3>7. QED
      BY <3>4, <3>5, <3>6
  <2>2. CASE FinishGrant(w)
    <3>1. /\ section[w] = "grant" /\ section' = [section EXCEPT ![w] = "free"]
          /\ dirty' = dirty \ {w} /\ generation' = [generation EXCEPT ![w] = @ + 1]
          /\ timer' = [timer EXCEPT ![w] = IF w \in limited THEN generation[w] + 1 ELSE 0]
          /\ UNCHANGED <<scope, ended, fired, limited, granted, lapsed>>
      BY <2>2 DEF FinishGrant
    <3>2. generation[w] < Len(Offers[cast][w])
      BY <3>1
    <3>3. WriterTypeOK'
      BY <1>1, <1>2, <3>1, <3>2
    <3>4. GrantInv'
      BY <1>1, <3>1
    <3>5. EndInv'
      BY <3>1
    <3>6. QED
      BY <3>3, <3>4, <3>5
  <2>3. CASE FinishEnd(w)
    <3>1. /\ section[w] # "grant" /\ section' = [section EXCEPT ![w] = "free"] /\ dirty' = dirty \ {w}
          /\ UNCHANGED <<scope, ended, generation, timer, fired, limited, granted, lapsed>>
      BY <2>3 DEF FinishEnd
    <3>2. QED
      BY <1>1, <3>1
  <2>4. CASE TimerFires(w)
    <3>1. /\ timer[w] # 0 /\ fired' = [fired EXCEPT ![w] = @ \cup {timer[w]}]
          /\ timer' = [timer EXCEPT ![w] = 0]
          /\ UNCHANGED <<scope, ended, section, dirty, generation, limited, granted, lapsed>>
      BY <2>4 DEF TimerFires
    <3>2. WriterTypeOK'
      BY <1>1, <3>1
    <3>3. GrantInv' /\ EndInv'
      BY <1>1, <3>1
    <3>4. QED
      BY <3>2, <3>3
  <2>5. ASSUME NEW how \in {"end", "refuse"}, Remove(w, how), UNCHANGED <<generation, limited, granted>>,
               \/ UNCHANGED <<fired, lapsed>>
               \/ \E g \in fired[w] : /\ fired' = [fired EXCEPT ![w] = @ \ {g}] /\ generation[w] = g
                                      /\ lapsed' = [lapsed EXCEPT ![w] = g]
        PROVE  WriterTypeOK' /\ GrantInv' /\ EndInv'
    <3>1. /\ w \notin ended /\ ended' = ended \cup {w} /\ timer' = [timer EXCEPT ![w] = 0]
          /\ scope' = [scope EXCEPT ![w] = None] /\ dirty' \subseteq dirty \cup {w}
          /\ section[w] = "free" /\ section' = [section EXCEPT ![w] = how]
      BY <2>5 DEF Remove
    <3>2. /\ fired' \in [Writers -> SUBSET Nat] /\ lapsed' \in [Writers -> Nat]
          /\ \A v \in Writers : fired'[v] \subseteq fired[v] /\ (v # w => lapsed'[v] = lapsed[v])
          /\ lapsed'[w] # 0 => w \in limited /\ lapsed'[w] = granted[w]
      <4>1. CASE UNCHANGED <<fired, lapsed>>
        BY <1>1, <3>1, <4>1
      <4>2. CASE ~UNCHANGED <<fired, lapsed>>
        <5> PICK g \in fired[w] : /\ fired' = [fired EXCEPT ![w] = @ \ {g}] /\ generation[w] = g
                                 /\ lapsed' = [lapsed EXCEPT ![w] = g]
          BY <2>5, <4>2
        <5>1. g \in Nat /\ w \in limited /\ granted[w] = g
          BY <1>1, <3>1
        <5>2. QED
          BY <1>1, <5>1
      <4>3. QED
        BY <4>1, <4>2
    <3>3. WriterTypeOK'
      <4>1. /\ scope' \in [Writers -> (SUBSET Requests) \cup {None}]
            /\ section' \in [Writers -> {"free", "grant", "end", "refuse"}]
            /\ timer' \in [Writers -> Nat] /\ generation' \in [Writers -> Nat]
        BY <1>1, <2>5, <3>1
      <4>2. ended' \subseteq Writers /\ dirty' \subseteq Writers /\ limited' \subseteq Writers /\ granted' \in [Writers -> Nat]
        BY <1>1, <2>5, <3>1, <3>2
      <4>3. \A v \in Writers :
              /\ generation'[v] \in 0..Len(Offers[cast][v]) /\ timer'[v] \in 0..generation'[v]
              /\ fired'[v] \subseteq 1..generation'[v]
        BY <1>1, <2>5, <3>1, <3>2
      <4>4. QED
        BY <3>2, <4>1, <4>2, <4>3
    <3>4. GrantInv'
      BY <1>1, <2>5, <3>1, <3>2
    <3>5. EndInv'
      BY <1>1, <2>5, <3>1, <3>2
    <3>6. QED
      BY <3>3, <3>4, <3>5
  <2>6. CASE Refuse(w)
    BY <2>5, <2>6 DEF Refuse
  <2>7. CASE End(w)
    BY <2>5, <2>7 DEF End
  <2>8. CASE Expire(w)
    <3> PICK g \in fired[w] :
          /\ section[w] = "free" /\ fired' = [fired EXCEPT ![w] = @ \ {g}]
          /\ IF w \in ended \/ generation[w] # g
             THEN UNCHANGED <<scope, ended, timer, dirty, section, lapsed>>
             ELSE Remove(w, "refuse") /\ lapsed' = [lapsed EXCEPT ![w] = g]
          /\ UNCHANGED <<generation, limited, granted>>
      BY <2>8 DEF Expire
    <3>1. CASE w \in ended \/ generation[w] # g
      BY <1>1, <3>1
    <3>2. CASE ~(w \in ended \/ generation[w] # g)
      BY <2>5, <3>2
    <3>3. QED
      BY <3>1, <3>2
  <2>9. QED
    BY <2>1, <2>2, <2>3, <2>4, <2>6, <2>7, <2>8
<1>7. ServedInv' /\ RegisteredInv'
  <2> DEFINE Shrinks == UNCHANGED rescopeCh /\ dirty \subseteq dirty' /\ (dirty' # {} \/ UNCHANGED scope)
  <2>1. \/ dirty' = dirty \ {w} /\ Changed(w) /\ UNCHANGED scope
        \/ Shrinks
    <3>1. ASSUME NEW how, Remove(w, how), UNCHANGED rescopeCh
          PROVE  Shrinks
      BY <1>1, <3>1 DEF Remove, WriterTypeOK
    <3>2. ASSUME NEW g, Grant(w, g)
          PROVE  Shrinks
      BY <1>1, <3>2 DEF Grant, WriterTypeOK
    <3>3. CASE FinishGrant(w) \/ FinishEnd(w) \/ TimerFires(w)
      BY <3>3 DEF FinishGrant, FinishEnd, TimerFires
    <3>4. CASE Refuse(w) \/ End(w)
      BY <3>1, <3>4 DEF Refuse, End
    <3>5. CASE Expire(w)
      <4>1. CASE UNCHANGED <<dirty, scope>>
        BY <3>5, <4>1 DEF Expire
      <4>2. CASE Remove(w, "refuse")
        BY <3>1, <3>5, <4>2 DEF Expire
      <4>3. QED
        BY <3>5, <4>1, <4>2 DEF Expire
    <3>6. QED
      BY <3>2, <3>3, <3>4, <3>5
  <2>2. Unseen => Unseen'
    BY <1>3, <2>1 DEF Unseen, Changed, passVars
  <2>3. UNCHANGED scope \/ Unseen'
    BY <2>1 DEF Unseen
  <2>4. RegisteredInv'
    BY <1>3 DEF RegisteredInv, Registered, OwnId, reqVars
  <2>5. CASE UNCHANGED scope
    <3>1. UNCHANGED <<req, pass, revoked, left>>
      BY <1>3 DEF passVars, reqVars
    <3>2. \A r \in Subscribes : OwnId(r)' => OwnId(r)
      BY <3>1 DEF OwnId
    <3>3. QED
      BY <2>2, <2>4, <2>5, <3>1, <3>2 DEF ServedInv, Covers, Enforced
  <2>6. CASE Unseen'
    BY <2>4, <2>6 DEF ServedInv
  <2>7. QED
    BY <2>3, <2>5, <2>6
<1>8. QED
  BY <1>4, <1>5, <1>6, <1>7, AuthTypeParts

-----------------------------------------------------------------------------
(* The goroutines of a token, and its presenter, leave the scope alone.    *)

LEMMA ScopeUntouched ==
  ASSUME AuthInv, UNCHANGED <<cast, writerVars, rescopeCh, passVars, reqVars>>,
         HandlerTypeOK', SignalTypeOK', CredTypeOK'
  PROVE  AuthInv'
<1> USE DEF AuthInv
<1>1. WriterTypeOK' /\ PassTypeOK'
  BY AuthTypeParts DEF WriterTypeOK, PassTypeOK, writerVars, passVars, reqVars
<1>2. GrantInv' /\ EndInv'
  BY DEF GrantInv, EndInv, Armed, writerVars
<1>3. ServedInv' /\ RegisteredInv'
  BY DEF ServedInv, RegisteredInv, Registered, OwnId, Unseen, Covers, Enforced, writerVars, passVars, reqVars
<1>4. QED
  BY <1>1, <1>2, <1>3, AuthTypeParts

LEMMA HandlerStepInv ==
  ASSUME AuthInv, UNCHANGED cast,
         \/ \E w \in Writers : ServeAuthReturns(w) \/ LeaveServe(w)
         \/ \E t \in Tokens : AcceptAuth(t) \/ WatchReturns(t) \/ Withdraw(t)
  PROVE  AuthInv'
<1> USE DEF AuthInv, Goes
<1>1. HandlerTypeOK /\ SignalTypeOK /\ CredTypeOK
  BY AuthTypeParts
<1>2. UNCHANGED <<writerVars, ready, rescopeCh, passVars, reqVars, credVars>>
  BY DEF ServeAuthReturns, LeaveServe, AcceptAuth, WatchReturns, Withdraw
<1>3. HandlerTypeOK'
  <2>1. ASSUME NEW w \in Writers, ServeAuthReturns(w) \/ LeaveServe(w)
        PROVE  HandlerTypeOK'
    BY <1>1, <2>1 DEF ServeAuthReturns, LeaveServe, HandlerTypeOK
  <2>2. ASSUME NEW t \in Tokens, AcceptAuth(t)
        PROVE  HandlerTypeOK'
    BY <1>1, <2>2 DEF AcceptAuth, HandlerTypeOK
  <2>3. ASSUME NEW t \in Tokens, WatchReturns(t) \/ Withdraw(t)
        PROVE  HandlerTypeOK'
    BY <1>1, <2>3 DEF WatchReturns, Withdraw, HandlerTypeOK
  <2>4. QED
    BY <2>1, <2>2, <2>3
<1>4. CredTypeOK'
  <2>1. UNCHANGED replies \/ \E w \in Writers : Reply(w, "end")
    BY DEF ServeAuthReturns, LeaveServe, AcceptAuth, WatchReturns, Withdraw, Writers
  <2>2. replies' \in [Tokens -> Seq({"ok", "end"})]
    BY <1>1, <2>1, ReplyType DEF CredTypeOK
  <2>3. QED
    BY <1>1, <1>2, <2>2 DEF CredTypeOK, credVars
<1>5. SignalTypeOK'
  BY <1>1, <1>2 DEF SignalTypeOK
<1>6. QED
  BY <1>2, <1>3, <1>4, <1>5, ScopeUntouched

LEMMA PresenterStepInv ==
  ASSUME AuthInv, UNCHANGED cast, NEW t \in Tokens,
         Auth(t) \/ ReadReply(t) \/ GiveUp(t) \/ CloseSide(t)
  PROVE  AuthInv'
<1> USE DEF AuthInv, Goes, CredTypeOK
<1>1. HandlerTypeOK /\ SignalTypeOK /\ CredTypeOK
  BY AuthTypeParts
<1>2. UNCHANGED <<writerVars, handlerVars, ready, rescopeCh, passVars, reqVars>>
  BY DEF Auth, ReadReply, GiveUp, CloseSide, CredUnchanged
<1>3. CredTypeOK'
  <2>1. CASE Over(t)
    <3>1. <<>> \in Seq({"ok", "end"})
      OBVIOUS
    <3>2. QED
      BY <1>1, <2>1, <3>1 DEF Over
  <2>2. CASE Auth(t) \/ CloseSide(t)
    BY <1>1, <2>2 DEF Auth, CloseSide
  <2>3. CASE ReadReply(t) /\ Head(replies[t]) = "ok"
    <3>1. replies[t] \in Seq({"ok", "end"}) /\ replies[t] # <<>>
      BY <1>1, <2>3 DEF ReadReply
    <3>2. Tail(replies[t]) \in Seq({"ok", "end"})
      BY <3>1
    <3>3. QED
      BY <1>1, <2>3, <3>2 DEF ReadReply
  <2>4. QED
    BY <2>1, <2>2, <2>3 DEF ReadReply, GiveUp
<1>4. HandlerTypeOK' /\ SignalTypeOK'
  BY <1>1, <1>2 DEF HandlerTypeOK, SignalTypeOK, handlerVars
<1>5. QED
  BY <1>2, <1>3, <1>4, ScopeUntouched

-----------------------------------------------------------------------------
(* A request and the loop change what is served, never the scope. *)

(* What a step may do to a request: an id's entry becomes that of a writer *)
(* which is registered, and is lost when one with the id ends.             *)
Moves(r) ==
    \E to \in {"wait", "judged", "added", "watching", "served", "cut", "done"} :
        /\ req' = [req EXCEPT ![r] = to]
        /\ to = "served" => Covers(r)
        /\ (to = "watching" => r \in Listings) /\ (to = "judged" => r \in Subscribes)
        /\ \/ UNCHANGED trackWriters
           \/ r \in Subscribes /\ \E x \in {r, None} : trackWriters' = [trackWriters EXCEPT ![idOf[r]] = x]
        /\ to \in {"added", "served"} /\ r \in Subscribes =>
            \/ trackWriters' = [trackWriters EXCEPT ![idOf[r]] = r]
            \/ req[r] = "added" /\ UNCHANGED trackWriters

LEMMA MovesInv ==
  ASSUME PassTypeOK, RegisteredInv, NEW r \in Requests, Moves(r)
  PROVE  /\ req' \in [Requests -> {"none", "wait", "judged", "added", "watching", "served", "cut", "done"}]
         /\ trackWriters' \in [SubscribeIDs -> Subscribes \cup {None}]
         /\ RegisteredInv'
         /\ \A q \in Subscribes : OwnId(q)' => OwnId(q)
<1> USE DEF Requests
<1> PICK to \in {"wait", "judged", "added", "watching", "served", "cut", "done"} :
        /\ req' = [req EXCEPT ![r] = to]
        /\ (to = "watching" => r \in Listings) /\ (to = "judged" => r \in Subscribes)
        /\ \/ UNCHANGED trackWriters
           \/ r \in Subscribes /\ \E x \in {r, None} : trackWriters' = [trackWriters EXCEPT ![idOf[r]] = x]
        /\ to \in {"added", "served"} /\ r \in Subscribes =>
            \/ trackWriters' = [trackWriters EXCEPT ![idOf[r]] = r]
            \/ req[r] = "added" /\ UNCHANGED trackWriters
  BY DEF Moves
<1>1. /\ req' \in [Requests -> {"none", "wait", "judged", "added", "watching", "served", "cut", "done"}]
      /\ req'[r] = to /\ \A q \in Requests \ {r} : req'[q] = req[q]
  BY DEF PassTypeOK
<1>2. trackWriters' \in [SubscribeIDs -> Subscribes \cup {None}]
  BY IdAssumption DEF PassTypeOK
<1>3. \A q \in Subscribes : OwnId(q)' => OwnId(q)
  BY <1>1 DEF OwnId
<1>4. \A q \in Requests : /\ req'[q] = "watching" => q \in Listings
                         /\ req'[q] = "judged" => q \in Subscribes
  BY <1>1 DEF RegisteredInv
<1>5. ASSUME NEW q \in Subscribes, req'[q] \in {"added", "served"}, OwnId(q)'
      PROVE  trackWriters'[idOf[q]] = q
  <2>1. CASE q = r
    <3>1. idOf[r] \in SubscribeIDs
      BY <2>1, IdAssumption
    <3>2. CASE trackWriters' = [trackWriters EXCEPT ![idOf[r]] = r]
      BY <2>1, <3>1, <3>2 DEF PassTypeOK
    <3>3. CASE req[r] = "added" /\ UNCHANGED trackWriters
      BY <1>3, <1>5, <2>1, <3>3 DEF RegisteredInv, Registered
    <3>4. QED
      BY <1>1, <1>5, <2>1, <3>2, <3>3
  <2>2. CASE q # r
    <3>1. req[q] \in {"added", "served"} /\ trackWriters[idOf[q]] = q
      BY <1>1, <1>3, <1>5, <2>2 DEF RegisteredInv, Registered
    <3>2. r \in Subscribes => idOf[r] # idOf[q]
      BY <1>1, <1>5, <2>2 DEF OwnId
    <3>3. trackWriters'[idOf[q]] = trackWriters[idOf[q]]
      BY <3>2, IdAssumption DEF PassTypeOK
    <3>4. QED
      BY <3>1, <3>3
  <2>3. QED
    BY <2>1, <2>2
<1>6. QED
  BY <1>1, <1>2, <1>3, <1>4, <1>5 DEF RegisteredInv, Registered

LEMMA RequestStepInv ==
  ASSUME AuthInv, UNCHANGED cast, NEW r \in Requests,
         Request(r) \/ RequestStep(r) \/ RequestReturns(r)
  PROVE  AuthInv'
<1> USE DEF AuthInv
<1>1. WriterTypeOK /\ HandlerTypeOK /\ SignalTypeOK /\ PassTypeOK /\ CredTypeOK
  BY AuthTypeParts
<1>2. UNCHANGED <<writerVars, handlerVars, ready, rescopeCh, passVars, replies, credVars>>
  BY DEF Request, RequestStep, RequestReturns, GiveUpWaiting, MayServe, AddTrackWriter, WatchScope,
         ServeRequest, ReqUnchanged
<1>3. WriterTypeOK' /\ HandlerTypeOK' /\ SignalTypeOK' /\ CredTypeOK'
  BY <1>1, <1>2 DEF WriterTypeOK, HandlerTypeOK, SignalTypeOK, CredTypeOK, writerVars, handlerVars, credVars
<1>4. Moves(r)
  <2> USE DEF Goes, Moves
  <2>1. CASE Request(r) \/ GiveUpWaiting(r)
    BY <2>1 DEF Request, GiveUpWaiting
  <2>2. CASE MayServe(r)
    <3>1. CASE r \in Onces
      <4>1. r \notin Subscribes
        BY <3>1, KindsAssumption
      <4>2. QED
        BY <2>2, <3>1, <4>1 DEF MayServe
    <3>2. CASE r \notin Onces
      BY <2>2, <3>2 DEF MayServe, Requests
    <3>3. QED
      BY <3>1, <3>2
  <2>3. CASE AddTrackWriter(r)
    <3>1. r \in Subscribes
      BY <2>3 DEF AddTrackWriter, RegisteredInv
    <3>2. QED
      BY <2>3, <3>1 DEF AddTrackWriter
  <2>4. CASE WatchScope(r)
    <3>1. r \notin Subscribes
      BY <2>4, KindsAssumption DEF WatchScope
    <3>2. QED
      BY <2>4, <3>1 DEF WatchScope
  <2>5. CASE ServeRequest(r)
    <3>1. req[r] = "added" \/ r \notin Subscribes
      BY <2>5, KindsAssumption DEF ServeRequest, RegisteredInv
    <3>2. CASE Covers(r)
      BY <2>5, <3>1, <3>2 DEF ServeRequest
    <3>3. CASE ~Covers(r)
      BY <2>5, <3>3 DEF ServeRequest, RemoveTrackWriter
    <3>4. QED
      BY <3>2, <3>3
  <2>6. CASE RequestReturns(r)
    BY <2>6 DEF RequestReturns, RemoveTrackWriter
  <2>7. QED
    BY <2>1, <2>2, <2>3, <2>4, <2>5, <2>6 DEF RequestStep
<1>5. PassTypeOK' /\ RegisteredInv'
  BY <1>1, <1>2, <1>4, MovesInv DEF PassTypeOK, passVars
<1>6. GrantInv' /\ EndInv'
  BY <1>2 DEF GrantInv, EndInv, Armed, writerVars
<1>7. ServedInv'
  <2>1. \A q \in Subscribes : OwnId(q)' => OwnId(q)
    BY <1>1, <1>4, MovesInv
  <2>2. \E to : req' = [req EXCEPT ![r] = to] /\ (to = "served" => Covers(r))
    BY <1>4 DEF Moves
  <2>3. QED
    BY <1>1, <1>2, <2>1, <2>2 DEF ServedInv, Covers, Enforced, Unseen, PassTypeOK, writerVars, passVars
<1>8. QED
  BY <1>3, <1>5, <1>6, <1>7, AuthTypeParts

LEMMA PassStepInv ==
  ASSUME AuthInv, UNCHANGED cast, PassStep \/ LoopEndsWithSession
  PROVE  AuthInv'
<1> USE DEF AuthInv
<1>1. WriterTypeOK /\ HandlerTypeOK /\ SignalTypeOK /\ PassTypeOK /\ CredTypeOK
  BY AuthTypeParts
<1>2. UNCHANGED <<writerVars, handlerVars, ready, replies, credVars>>
  BY DEF PassStep, LoopEndsWithSession, StartPass, ListWatchers, CloseRevoked, RescopeWatcher, PassUnchanged
<1>3. WriterTypeOK' /\ HandlerTypeOK' /\ CredTypeOK'
  BY <1>1, <1>2 DEF WriterTypeOK, HandlerTypeOK, CredTypeOK, writerVars, handlerVars, credVars
<1>4. GrantInv' /\ EndInv'
  BY <1>2 DEF GrantInv, EndInv, Armed, writerVars
<1>5. \A q \in Requests : Covers(q)' = Covers(q)
  BY <1>2 DEF Covers, Enforced, writerVars
<1>6. UNCHANGED <<cast, dirty>>
  BY <1>2 DEF writerVars
<1>7. SignalTypeOK' /\ PassTypeOK' /\ ServedInv' /\ RegisteredInv'
  <2> USE DEF SignalTypeOK, PassTypeOK, ServedInv, Unseen, Enforced, Requests
  <2> DEFINE Undisturbed == /\ RegisteredInv' /\ trackWriters' \in [SubscribeIDs -> Subscribes \cup {None}]
                     /\ \A q \in Subscribes : OwnId(q)' => OwnId(q)
  <2>same. UNCHANGED reqVars => Undisturbed
    BY <1>1 DEF reqVars, RegisteredInv, Registered, OwnId
  <2>cut. ASSUME NEW r \in Requests, Cut(r)
        PROVE  Undisturbed
    <3>1. CASE UNCHANGED reqVars
      BY <2>same, <3>1
    <3>2. CASE req' = [req EXCEPT ![r] = "cut"] /\ RemoveTrackWriter(r)
      <4>1. Moves(r)
        BY <3>2 DEF Moves, RemoveTrackWriter
      <4>2. QED
        BY <1>1, <4>1, MovesInv
    <3>3. QED
      BY <2>cut, <3>1, <3>2 DEF Cut
  <2>1. CASE StartPass
    <3>1. revoked' = {r \in Registered : ~Covers(r)} /\ pass' = "close" /\ req' = req
          /\ rescopeCh' = FALSE /\ UNCHANGED <<left, reqVars>>
      BY <2>1 DEF StartPass, reqVars
    <3>2. /\ Registered \subseteq Subscribes
          /\ \A r \in Subscribes : req[r] = "served" /\ OwnId(r) => r \in Registered
      BY DEF Registered, RegisteredInv
    <3>kept. Undisturbed
      BY <2>same, <3>1
    <3>3. SignalTypeOK' /\ PassTypeOK'
      BY <1>1, <1>2, <3>1, <3>2, <3>kept
    <3>4. ServedInv'
      BY <1>1, <1>5, <1>6, <3>1, <3>2, <3>kept
    <3>5. QED
      BY <3>3, <3>4, <3>kept
  <2>2. CASE LoopEndsWithSession
    <3>1. UNCHANGED <<left, revoked, req, rescopeCh>> /\ pass' = "over" /\ Undisturbed
      BY <2>2, <2>same DEF LoopEndsWithSession, reqVars
    <3>2. QED
      BY <1>1, <1>2, <3>1
  <2>3. ASSUME NEW r \in Requests, CloseRevoked(r)
        PROVE  SignalTypeOK' /\ PassTypeOK' /\ ServedInv' /\ RegisteredInv'
    <3>1. /\ pass = "close" /\ revoked' = revoked \ {r} /\ UNCHANGED <<pass, left, rescopeCh>>
          /\ req' = req \/ req' = [req EXCEPT ![r] = "cut"]
          /\ r \in Subscribes /\ req[r] = "served" => req' = [req EXCEPT ![r] = "cut"]
      BY <2>3 DEF CloseRevoked, Cut, TrackWriters, reqVars
    <3>kept. Undisturbed
      BY <2>3, <2>cut DEF CloseRevoked
    <3>2. SignalTypeOK' /\ PassTypeOK'
      BY <1>1, <1>2, <3>1, <3>kept
    <3>3. ServedInv'
      BY <1>1, <1>5, <1>6, <3>1, <3>kept
    <3>4. QED
      BY <3>2, <3>3, <3>kept
  <2>4. CASE ListWatchers
    <3>1. /\ pass = "close" /\ revoked = {} /\ left' = Watchers /\ UNCHANGED <<revoked, req, rescopeCh>>
          /\ pass' = IF Watchers = {} THEN "idle" ELSE "watchers"
      BY <2>4 DEF ListWatchers, reqVars
    <3>kept. Undisturbed
      BY <2>4, <2>same DEF ListWatchers
    <3>2. Watchers \subseteq Listings /\ \A r \in Listings : req[r] = "served" => r \in Watchers
      BY DEF Watchers
    <3>3. SignalTypeOK' /\ PassTypeOK'
      BY <1>1, <1>2, <3>1, <3>2, <3>kept
    <3>4. ServedInv'
      BY <1>1, <1>5, <1>6, <3>1, <3>2, <3>kept
    <3>5. QED
      BY <3>3, <3>4, <3>kept
  <2>5. ASSUME NEW r \in Requests, RescopeWatcher(r)
        PROVE  SignalTypeOK' /\ PassTypeOK' /\ ServedInv' /\ RegisteredInv'
    <3>1. /\ pass = "watchers" /\ left' = left \ {r} /\ UNCHANGED <<revoked, rescopeCh>>
          /\ pass' = IF left' = {} THEN "idle" ELSE "watchers"
          /\ req' = req \/ req' = [req EXCEPT ![r] = "cut"]
          /\ r \in Listings /\ req[r] = "served" /\ ~Covers(r) => req' = [req EXCEPT ![r] = "cut"]
      BY <2>5 DEF RescopeWatcher, Cut, Watchers, reqVars
    <3>kept. Undisturbed
      BY <2>5, <2>same, <2>cut DEF RescopeWatcher
    <3>2. SignalTypeOK' /\ PassTypeOK'
      BY <1>1, <1>2, <3>1, <3>kept
    <3>3. ServedInv'
      BY <1>1, <1>5, <1>6, <3>1, <3>kept
    <3>4. QED
      BY <3>2, <3>3, <3>kept
  <2>6. QED
    BY <2>1, <2>2, <2>3, <2>4, <2>5 DEF PassStep
<1>8. QED
  BY <1>3, <1>4, <1>7, AuthTypeParts

LEMMA AuthStepInv == AuthInv /\ AuthStep /\ UNCHANGED cast => AuthInv'
<1> SUFFICES ASSUME AuthInv, AuthStep, UNCHANGED cast PROVE AuthInv'
  OBVIOUS
<1>1. ASSUME NEW w \in Writers, WriterStep(w) PROVE AuthInv'
  BY <1>1, WriterStepInv, HandlerStepInv DEF WriterStep, WriterRuns
<1>2. ASSUME NEW t \in Tokens,
             \/ AcceptAuth(t) \/ WatchReturns(t) \/ Withdraw(t)
             \/ Auth(t) \/ ReadReply(t) \/ GiveUp(t) \/ CloseSide(t)
      PROVE  AuthInv'
  BY <1>2, HandlerStepInv, PresenterStepInv
<1>3. ASSUME NEW r \in Requests, Request(r) \/ RequestStep(r) \/ RequestReturns(r) PROVE AuthInv'
  BY <1>3, RequestStepInv
<1>4. QED
  BY <1>1, <1>2, <1>3, PassStepInv DEF AuthStep

-----------------------------------------------------------------------------
(* The session *)

Closing == {"conn", "join", "channels"}

(* One call closes, and the channels are closed by it. *)
CloseInv ==
    /\ \A k \in Calls : closer[k] \in Closing => closed /\ channels = "open"
    /\ \A k, l \in Calls : closer[k] \in Closing /\ closer[l] \in Closing => k = l
    /\ channels = "closed" => closed

Reading == {"decode", "write", "signal"}

(* One Setup Stream is read, and its signal is given once.                 *)
SetupInv ==
    /\ \A u, v \in SetupStreams : setup[u] \in Reading /\ setup[v] \in Reading => u = v
    /\ \A u \in SetupStreams : setup[u] \in Reading => peerSetupReceived /\ ~peerSetup
    /\ \A u \in SetupStreams : setup[u] \in {"write", "signal"} => message[u] # "malformed"
    /\ peerSetup => peerSetupReceived

IInv == TypeOK /\ AuthInv /\ CloseInv /\ SetupInv /\ NoPanic /\ NewestIsReported

CloseTypeOK ==
    /\ conn \in {"open", "down"} /\ closed \in BOOLEAN /\ tracked \in BOOLEAN
    /\ channels \in {"open", "closed"}
    /\ closer \in [Calls -> {"idle", "swap", "conn", "join", "channels", "returned", "failed"}]
    /\ loops \subseteq {"bi", "uni"}

SetupTypeOK ==
    /\ peerSetupReceived \in BOOLEAN /\ peerSetup \in BOOLEAN
    /\ peerProbeLevel \in {"none", "report"}
    /\ setup \in [SetupStreams -> {"none", "check", "decode", "write", "signal", "accepted", "refused"}]
    /\ message \in [SetupStreams -> {"none", "report", "malformed"}]

ProbeTypeOK ==
    /\ prober \in [Probers -> {"idle", "wait", "level", "lock", "open", "spawn", "send",
                               "returned", "failed", "unsupported"}]
    /\ using \in [Probers -> Outgoing \cup {None}]
    /\ lock \in Probers \cup {None} /\ outgoing \in Outgoing \cup {None}
    /\ out \in [Outgoing -> {"none", "live", "done"}]
    /\ reader \in [Outgoing -> {"none", "reading", "got", "ended"}]
    /\ \A p \in Probers : prober[p] \in {"open", "spawn", "send"} => lock = p

ServeTypeOK ==
    /\ serving \in [ProbeStreams -> {"none", "register", "decode", "got", "leave", "ended"}]
    /\ cut \subseteq ProbeStreams
    /\ incoming \in ProbeStreams \cup {None}
    /\ monitor \in {"none", "running", "ended"}

(* What a flag that has not been raised is, as a value of its own.         *)
PanicOK == panicked \in BOOLEAN /\ ~panicked

LEMMA TypeParts ==
    /\ TypeOK /\ NoPanic <=> CloseTypeOK /\ SetupTypeOK /\ ProbeTypeOK /\ ServeTypeOK /\ PanicOK /\ AuthTypeOK
    /\ TypeOK' /\ NoPanic' <=> CloseTypeOK' /\ SetupTypeOK' /\ ProbeTypeOK' /\ ServeTypeOK' /\ PanicOK' /\ AuthTypeOK'
  BY DEF TypeOK, NoPanic, CloseTypeOK, SetupTypeOK, ProbeTypeOK, ServeTypeOK, PanicOK

LEMMA InitIInv == Init => IInv
<1> SUFFICES ASSUME Init PROVE IInv
  OBVIOUS
<1>1. AuthInv
  BY AuthInitInv DEF Init
<1>2. CloseTypeOK /\ ProbeTypeOK /\ ServeTypeOK
  BY DEF Init, CloseTypeOK, ProbeTypeOK, ServeTypeOK
<1>3. PanicOK
  BY DEF Init, PanicOK
<1>4. SetupTypeOK /\ SetupInv
  <2>1. CASE NotSeeded
    BY <2>1 DEF NotSeeded, SetupTypeOK, SetupInv, Reading
  <2>2. ASSUME NEW u \in SetupStreams, SeededBy(u) PROVE SetupTypeOK /\ SetupInv
    BY <2>2 DEF SeededBy, SetupTypeOK, SetupInv, Reading
  <2>3. QED
    BY <2>1, <2>2 DEF Init
<1>5. CloseInv /\ NewestIsReported
  BY DEF Init, CloseInv, NewestIsReported, Closing
<1>6. QED
  BY <1>1, <1>2, <1>3, <1>4, <1>5, TypeParts DEF IInv, AuthInv

(* The steps of CloseWithError, and who else starts it.                    *)
LEMMA CloseStepInv ==
  ASSUME IInv, UNCHANGED <<cast, authVars>>,
         \/ \E k \in Closers : CallClose(k)
         \/ \E k \in Calls : CloseStep(k)
         \/ ConnGoesDown \/ \E l \in loops : LoopEnds(l)
         \/ \E t \in Tokens : TerminateForToken(t)
  PROVE  CloseTypeOK' /\ PanicOK' /\ CloseInv' /\ UNCHANGED <<setupVars, probeVars, serveVars>>
<1> USE DEF CloseTypeOK, CloseInv, Closing, Goto
<1>1. CloseTypeOK /\ PanicOK /\ CloseInv
  BY TypeParts DEF IInv, AuthInv
<1>2. UNCHANGED <<setupVars, probeVars, serveVars>>
  BY DEF CallClose, CloseStep, SwapClosed, CloseConn, Join, CloseChannels, ConnGoesDown, LoopEnds, TerminateForToken
<1>3. CASE ConnGoesDown \/ \E l \in loops : LoopEnds(l)
  <2>1. UNCHANGED <<closed, tracked, channels, closer>> /\ conn' \in {"open", "down"} /\ loops' \subseteq loops
    BY <1>1, <1>3 DEF ConnGoesDown, LoopEnds
  <2>2. UNCHANGED panicked
    BY <1>3 DEF ConnGoesDown, LoopEnds
  <2>3. PanicOK'
    BY <1>1, <2>2 DEF PanicOK
  <2>4. CloseTypeOK'
    BY <1>1, <2>1
  <2>5. CloseInv'
    BY <1>1, <2>1
  <2>6. QED
    BY <1>2, <2>3, <2>4, <2>5
<1>4. ASSUME NEW k \in Calls, CallClose(k) \/ TerminateForToken(k)
      PROVE  CloseTypeOK' /\ PanicOK' /\ CloseInv'
  <2>1. UNCHANGED <<closed, tracked, channels, conn, loops>> /\ closer' = [closer EXCEPT ![k] = "swap"]
    BY <1>4 DEF CallClose, TerminateForToken
  <2>2. UNCHANGED panicked
    BY <1>4 DEF CallClose, TerminateForToken
  <2>3. PanicOK'
    BY <1>1, <2>2 DEF PanicOK
  <2>4. CloseTypeOK'
    BY <1>1, <2>1
  <2>5. CloseInv'
    BY <1>1, <2>1
  <2>6. QED
    BY <2>3, <2>4, <2>5
<1>5. ASSUME NEW k \in Calls, SwapClosed(k)
      PROVE  CloseTypeOK' /\ PanicOK' /\ CloseInv'
  <2>1. UNCHANGED <<conn, tracked, channels, loops>> /\ closed' = TRUE
    BY <1>5 DEF SwapClosed
  <2>2. UNCHANGED panicked
    BY <1>5 DEF SwapClosed
  <2>3. closer' = [closer EXCEPT ![k] = "returned"] \/ (~closed /\ closer' = [closer EXCEPT ![k] = "conn"])
    BY <1>5 DEF SwapClosed
  <2>4. PanicOK'
    BY <1>1, <2>2 DEF PanicOK
  <2>5. CloseTypeOK'
    BY <1>1, <2>1, <2>3
  <2>6. CloseInv'
    BY <1>1, <2>1, <2>3
  <2>7. QED
    BY <2>4, <2>5, <2>6
<1>6. ASSUME NEW k \in Calls, CloseConn(k) \/ Join(k)
      PROVE  CloseTypeOK' /\ PanicOK' /\ CloseInv'
  <2>1. /\ UNCHANGED <<closed, channels, loops>> /\ conn' \in {"open", "down"}
        /\ closer[k] \in Closing
        /\ \E to \in {"join", "channels", "failed"} : closer' = [closer EXCEPT ![k] = to]
    BY <1>1, <1>6 DEF CloseConn, Join
  <2>2. UNCHANGED panicked
    BY <1>6 DEF CloseConn, Join
  <2>3. tracked' \in BOOLEAN
    <3>1. tracked' = tracked \/ tracked' = FALSE
      BY <1>6 DEF CloseConn, Join
    <3>2. QED
      BY <1>1, <3>1
  <2>4. PanicOK'
    BY <1>1, <2>2 DEF PanicOK
  <2>5. CloseTypeOK'
    BY <1>1, <2>1, <2>3
  <2>6. CloseInv'
    BY <1>1, <2>1
  <2>7. QED
    BY <2>4, <2>5, <2>6
<1>7. ASSUME NEW k \in Calls, CloseChannels(k)
      PROVE  CloseTypeOK' /\ PanicOK' /\ CloseInv'
  <2>1. /\ closer[k] = "channels" /\ closer' = [closer EXCEPT ![k] = "returned"]
        /\ channels' = "closed" /\ tracked' = FALSE /\ UNCHANGED <<conn, closed, loops>>
    BY <1>7 DEF CloseChannels
  <2>2. channels = "open" /\ closed
    BY <1>1, <2>1
  <2>3. PanicOK'
    BY <1>1, <1>7, <2>2 DEF CloseChannels, PanicOK
  <2>4. CloseTypeOK' /\ CloseInv'
    BY <1>1, <2>1, <2>2
  <2>5. QED
    BY <2>3, <2>4
<1>8. QED
  BY <1>2, <1>3, <1>4, <1>5, <1>6, <1>7 DEF CloseStep, Calls

LEMMA SetupStepInv ==
  ASSUME IInv, NEW u \in SetupStreams, AcceptSetup(u) \/ SetupStep(u)
  PROVE  /\ SetupTypeOK' /\ SetupInv' /\ CloseTypeOK' /\ CloseInv' /\ PanicOK'
         /\ UNCHANGED <<probeVars, serveVars>>
<1> USE DEF SetupTypeOK, SetupInv, AtSetup, Reading
<1>1. SetupTypeOK /\ SetupInv /\ CloseTypeOK /\ CloseInv /\ PanicOK
  BY TypeParts DEF IInv, AuthInv
<1>2. UNCHANGED <<conn, closed, tracked, channels, loops, probeVars, serveVars>>
  BY DEF AcceptSetup, SetupStep, CheckSetup, DecodeSetup, WriteLevel, SignalSetup, closeVars
<1>3. CloseTypeOK' /\ CloseInv'
  <2>1. closer' = closer \/ closer' = [closer EXCEPT ![u] = "swap"]
    BY DEF AcceptSetup, SetupStep, CheckSetup, DecodeSetup, WriteLevel, SignalSetup, closeVars, Terminate
  <2>2. QED
    BY <1>1, <1>2, <2>1 DEF CloseTypeOK, CloseInv, Closing
<1>4. PanicOK'
  <2>1. CASE SignalSetup(u)
    <3>1. ~peerSetup /\ panicked' = (panicked \/ peerSetup)
      BY <1>1, <2>1 DEF SignalSetup
    <3>2. QED
      BY <1>1, <3>1 DEF PanicOK
  <2>2. CASE UNCHANGED panicked
    BY <1>1, <2>2 DEF PanicOK
  <2>3. QED
    BY <2>1, <2>2 DEF AcceptSetup, SetupStep, CheckSetup, DecodeSetup, WriteLevel
<1>5. SetupTypeOK' /\ SetupInv'
  <2>1. CASE AcceptSetup(u)
    BY <1>1, <2>1 DEF AcceptSetup
  <2>2. CASE CheckSetup(u)
    BY <1>1, <2>2 DEF CheckSetup
  <2>3. CASE DecodeSetup(u)
    BY <1>1, <2>3 DEF DecodeSetup
  <2>4. CASE WriteLevel(u)
    BY <1>1, <2>4 DEF WriteLevel
  <2>5. CASE SignalSetup(u)
    BY <1>1, <2>5 DEF SignalSetup
  <2>6. QED
    BY <2>1, <2>2, <2>3, <2>4, <2>5 DEF SetupStep
<1>6. QED
  BY <1>2, <1>3, <1>4, <1>5

(* notifyProbe: the flag is up before the channels are closed.             *)
LEMMA NotifyIsSafe ==
  ASSUME CloseInv, PanicOK, NotifyProbe
  PROVE  PanicOK'
<1>1. (closed \/ channels # "closed") /\ panicked' = (panicked \/ (~closed /\ channels = "closed"))
  BY DEF CloseInv, NotifyProbe
<1>2. QED
  BY <1>1 DEF PanicOK

LEMMA ProbeStepInv ==
  ASSUME IInv,
         \/ \E p \in Probers : CallProbe(p) \/ OpenProbe(p) \/ ProbeStep(p)
         \/ \E o \in Outgoing : ReadResult(o) \/ NotifyResult(o) \/ ReadEnds(o)
  PROVE  ProbeTypeOK' /\ PanicOK' /\ UNCHANGED <<closeVars, setupVars, serveVars>>
<1> USE DEF ProbeTypeOK, AtProbe
<1>1. ProbeTypeOK /\ CloseInv /\ PanicOK
  BY TypeParts DEF IInv, AuthInv
<1>2. UNCHANGED <<closeVars, setupVars, serveVars>>
  BY DEF CallProbe, OpenProbe, ProbeStep, WaitPeerSetup, ReadLevel, LockOutgoing, OpenProbeFails, SpawnReader,
         SendProbe, ReadResult, NotifyResult, ReadEnds
<1>3. PanicOK'
  <2>1. UNCHANGED panicked \/ NotifyProbe
    BY DEF CallProbe, OpenProbe, ProbeStep, WaitPeerSetup, ReadLevel, LockOutgoing, OpenProbeFails, SpawnReader,
           SendProbe, ReadResult, NotifyResult, ReadEnds
  <2>2. QED
    BY <1>1, <2>1, NotifyIsSafe DEF PanicOK
<1>4. ASSUME NEW p \in Probers, CallProbe(p) \/ WaitPeerSetup(p) \/ ReadLevel(p)
      PROVE  ProbeTypeOK'
  BY <1>1, <1>4 DEF CallProbe, WaitPeerSetup, ReadLevel
<1>5. ASSUME NEW p \in Probers, LockOutgoing(p)
      PROVE  ProbeTypeOK'
  <2>1. /\ lock = None /\ lock' = p /\ UNCHANGED <<outgoing, out, reader>>
        /\ \/ prober' = [prober EXCEPT ![p] = "send"] /\ using' = [using EXCEPT ![p] = outgoing]
           \/ prober' = [prober EXCEPT ![p] = "open"] /\ UNCHANGED using
    BY <1>5 DEF LockOutgoing
  <2>2. \A q \in Probers : prober[q] \notin {"open", "spawn", "send"}
    BY <1>1, <2>1, NoneAssumption
  <2>3. QED
    BY <1>1, <2>1, <2>2
<1>6. ASSUME NEW p \in Probers, OpenProbe(p) \/ OpenProbeFails(p)
      PROVE  ProbeTypeOK'
  BY <1>1, <1>6, NoneAssumption DEF OpenProbe, OpenProbeFails
<1>7. ASSUME NEW p \in Probers, SpawnReader(p) \/ SendProbe(p)
      PROVE  ProbeTypeOK'
  BY <1>1, <1>7, NoneAssumption DEF SpawnReader, SendProbe
<1>8. ASSUME NEW o \in Outgoing, ReadResult(o) \/ NotifyResult(o) \/ ReadEnds(o)
      PROVE  ProbeTypeOK'
  BY <1>1, <1>8 DEF ReadResult, NotifyResult, ReadEnds
<1>9. QED
  BY <1>2, <1>3, <1>4, <1>5, <1>6, <1>7, <1>8 DEF ProbeStep

LEMMA ServeStepInv ==
  ASSUME IInv,
         \/ \E i \in ProbeStreams : AcceptProbe(i) \/ DecodeTarget(i) \/ DecodeEnds(i) \/ ServeStep(i)
         \/ MonitorEnds
  PROVE  /\ ServeTypeOK' /\ NewestIsReported' /\ PanicOK'
         /\ UNCHANGED <<closeVars, setupVars, probeVars>>
<1> USE DEF ServeTypeOK, NewestIsReported, AtServe
<1>1. ServeTypeOK /\ NewestIsReported /\ CloseInv /\ PanicOK
  BY TypeParts DEF IInv, AuthInv
<1>2. UNCHANGED <<closeVars, setupVars, probeVars>>
  BY DEF AcceptProbe, DecodeTarget, DecodeEnds, ServeStep, RegisterProbe, NotifyTarget, LeaveProbe, MonitorEnds
<1>3. PanicOK'
  <2>1. UNCHANGED panicked \/ NotifyProbe
    BY DEF AcceptProbe, DecodeTarget, DecodeEnds, ServeStep, RegisterProbe, NotifyTarget, LeaveProbe, MonitorEnds
  <2>2. QED
    BY <1>1, <2>1, NotifyIsSafe DEF PanicOK
<1>4. ASSUME NEW i \in ProbeStreams, AcceptProbe(i) \/ DecodeTarget(i) \/ DecodeEnds(i) \/ NotifyTarget(i)
      PROVE  ServeTypeOK' /\ NewestIsReported'
  <2>1. /\ UNCHANGED <<cut, incoming, monitor>>
        /\ \/ serving' = [serving EXCEPT ![i] = "register"]
           \/ serving' = [serving EXCEPT ![i] = "leave"]
           \/ serving[i] \in {"decode", "got"} /\ serving' = [serving EXCEPT ![i] = "decode"]
           \/ serving[i] \in {"decode", "got"} /\ serving' = [serving EXCEPT ![i] = "got"]
    <3>1. CASE NotifyTarget(i)
      BY <3>1 DEF NotifyTarget
    <3>2. CASE AcceptProbe(i) \/ DecodeTarget(i) \/ DecodeEnds(i)
      BY <3>2 DEF AcceptProbe, DecodeTarget, DecodeEnds
    <3>3. QED
      BY <1>4, <3>1, <3>2
  <2>2. QED
    BY <1>1, <2>1
<1>5. ASSUME NEW i \in ProbeStreams, RegisterProbe(i)
      PROVE  ServeTypeOK' /\ NewestIsReported'
  BY <1>1, <1>5, NoneAssumption DEF RegisterProbe
<1>6. ASSUME NEW i \in ProbeStreams, LeaveProbe(i)
      PROVE  ServeTypeOK' /\ NewestIsReported'
  BY <1>1, <1>6 DEF LeaveProbe
<1>7. CASE MonitorEnds
  BY <1>1, <1>2, <1>3, <1>7 DEF MonitorEnds
<1>8. QED
  BY <1>2, <1>3, <1>4, <1>5, <1>6, <1>7 DEF ServeStep

(* What a step leaves alone keeps its part of the invariant.               *)
LEMMA Kept ==
  ASSUME IInv
  PROVE  /\ UNCHANGED closeVars => CloseTypeOK' /\ CloseInv'
         /\ UNCHANGED setupVars => SetupTypeOK' /\ SetupInv'
         /\ UNCHANGED probeVars => ProbeTypeOK'
         /\ UNCHANGED serveVars => ServeTypeOK' /\ NewestIsReported'
         /\ UNCHANGED <<cast, authVars>> => AuthInv'
         /\ UNCHANGED panicked => PanicOK'
<1>1. CloseTypeOK /\ SetupTypeOK /\ ProbeTypeOK /\ ServeTypeOK /\ PanicOK
  BY TypeParts DEF IInv, AuthInv
<1>2. UNCHANGED closeVars => CloseTypeOK' /\ CloseInv'
  BY <1>1 DEF IInv, CloseTypeOK, CloseInv, closeVars
<1>3. UNCHANGED setupVars => SetupTypeOK' /\ SetupInv'
  BY <1>1 DEF IInv, SetupTypeOK, SetupInv, setupVars
<1>4. UNCHANGED probeVars => ProbeTypeOK'
  BY <1>1 DEF ProbeTypeOK, probeVars
<1>5. UNCHANGED serveVars => ServeTypeOK' /\ NewestIsReported'
  BY <1>1 DEF IInv, ServeTypeOK, NewestIsReported, serveVars
<1>6. UNCHANGED <<cast, authVars>> => AuthInv'
  <2> SUFFICES ASSUME UNCHANGED <<cast, authVars>> PROVE AuthInv'
    OBVIOUS
  <2>1. UNCHANGED <<writerVars, rescopeCh, passVars, reqVars>>
    BY DEF authVars
  <2>2. HandlerTypeOK' /\ SignalTypeOK' /\ CredTypeOK'
    BY AuthTypeParts DEF IInv, AuthInv, HandlerTypeOK, SignalTypeOK, CredTypeOK, authVars, handlerVars, credVars
  <2>3. QED
    BY <2>1, <2>2, ScopeUntouched DEF IInv
<1>7. UNCHANGED panicked => PanicOK'
  BY <1>1 DEF PanicOK
<1>8. QED
  BY <1>2, <1>3, <1>4, <1>5, <1>6, <1>7

LEMMA NextIInv == IInv /\ [Next]_vars => IInv'
<1> SUFFICES ASSUME IInv, [Next]_vars PROVE IInv'
  OBVIOUS
<1>1. AuthInv'
  BY Kept, AuthStepInv DEF IInv, Next, vars
<1>2. CASE UNCHANGED sessionVars
  BY <1>1, <1>2, Kept, TypeParts DEF IInv, AuthInv, sessionVars
<1>3. CASE Step /\ UNCHANGED <<cast, authVars>>
  <2>1. CASE \/ \E k \in Closers : CallClose(k)
             \/ \E k \in Calls : CloseStep(k)
             \/ ConnGoesDown \/ \E l \in loops : LoopEnds(l)
             \/ \E t \in Tokens : TerminateForToken(t)
    BY <1>1, <1>3, <2>1, CloseStepInv, Kept, TypeParts DEF IInv, AuthInv
  <2>2. ASSUME NEW u \in SetupStreams, AcceptSetup(u) \/ SetupStep(u)
        PROVE  IInv'
    BY <1>1, <2>2, SetupStepInv, Kept, TypeParts DEF IInv, AuthInv
  <2>3. CASE \/ \E p \in Probers : CallProbe(p) \/ OpenProbe(p) \/ ProbeStep(p)
             \/ \E o \in Outgoing : ReadResult(o) \/ NotifyResult(o) \/ ReadEnds(o)
    BY <1>1, <2>3, ProbeStepInv, Kept, TypeParts DEF IInv, AuthInv
  <2>4. CASE \/ \E i \in ProbeStreams : AcceptProbe(i) \/ DecodeTarget(i) \/ DecodeEnds(i) \/ ServeStep(i)
             \/ MonitorEnds
    BY <1>1, <2>4, ServeStepInv, Kept, TypeParts DEF IInv, AuthInv
  <2>5. QED
    BY <1>3, <2>1, <2>2, <2>3, <2>4 DEF Step
<1>4. QED
  BY <1>2, <1>3 DEF Next, vars

LEMMA SpecIInv == Spec => []IInv
  BY InitIInv, NextIInv, PTL DEF Spec

-----------------------------------------------------------------------------
(* The probes of both directions stay in order with CloseWithError, for    *)
(* any number of streams and calls: no channel is closed twice or sent on  *)
(* once it is closed (session.go:1450), and the monitor reports on the     *)
(* newest probe stream.                                                    *)
THEOREM ProbesStaySound == Spec => []ProbesAreSound
<1>1. IInv => ProbesAreSound
  BY DEF IInv, ProbesAreSound
<1>2. QED
  BY <1>1, SpecIInv, PTL

(* Once the scope has been applied no announce stream, and no subscription *)
(* with an id of its own, is served that no grant covers whose token has   *)
(* not ended, for any grants, lapses, withdrawals, requests and ids, among *)
(* them subscriptions that share one (auth.go:210-213).                    *)
THEOREM ScopeIsEnforced == Spec => []NothingOutsideScope
<1>1. IInv => NothingOutsideScope
  <2> SUFFICES ASSUME IInv, Settled, Enforced, NEW r \in Subscribes \cup Listings, req[r] = "served",
                      r \in Subscribes => OwnId(r)
               PROVE  \E w \in Writers \ ended : scope[w] # None /\ r \in scope[w]
    BY DEF NothingOutsideScope
  <2>1. Covers(r)
    BY DEF IInv, AuthInv, ServedInv, Settled, Unseen
  <2>2. QED
    BY <2>1 DEF IInv, AuthInv, EndInv, Covers, Enforced, AuthTypeOK, Writers
<1>2. QED
  BY <1>1, SpecIInv, PTL

(* A token that a timer ends is ended by that of the grant in force, which *)
(* has a MaxAge: never by one set for a grant that was replaced, not even  *)
(* by another limited one (auth.go:73-74, 257-258).                        *)
THEOREM TimersOfReplacedGrantsAreIgnored == Spec => []OnlyTheGrantInForceLapses
<1>1. IInv => OnlyTheGrantInForceLapses
  BY DEF IInv, AuthInv, EndInv, OnlyTheGrantInForceLapses
<1>2. QED
  BY <1>1, SpecIInv, PTL

-----------------------------------------------------------------------------
(* What ParsePathPattern makes of a text *)

KindOf(seg) == parseWildcard(seg).kind
NameOf(seg) == parseWildcard(seg).name

LEMMA SegmentKinds ==
  ASSUME NEW seg \in RawSegments
  PROVE  /\ KindOf(seg) \in {"literal", "wildcard", "rest", "anchor", "invalid"}
         /\ KindOf(seg) = "literal" <=> seg.braces = "none"
         /\ KindOf(seg) \in {"wildcard", "rest"} => seg.inner \in WildcardNames /\ NameOf(seg) = seg.inner
         /\ NameOf(seg) # NoText => KindOf(seg) \in {"wildcard", "rest"}
         /\ NameOf(seg) = NoText => KindOf(seg) \notin {"wildcard", "rest"}
         /\ seg = Lit(NoText) <=> seg.braces = "none" /\ seg.inner = NoText
<1>1. seg.braces \in {"both", "other", "none"} /\ seg.dots \in BOOLEAN /\ (seg.braces = "none" => seg.dots = FALSE)
  BY DEF RawSegments
<1>2. seg = [braces |-> seg.braces, inner |-> seg.inner, dots |-> seg.dots]
  BY DEF RawSegments
<1>3. NoText \notin WildcardNames
  BY NamesAssumption
<1>4. seg = Lit(NoText) <=> seg.braces = "none" /\ seg.inner = NoText
  <2>1. ASSUME seg.braces = "none", seg.inner = NoText PROVE seg = Lit(NoText)
    <3>1. seg.dots = FALSE
      BY <1>1, <2>1
    <3>2. seg = [braces |-> "none", inner |-> NoText, dots |-> FALSE]
      BY <1>2, <2>1, <3>1, Zenon
    <3>3. QED
      BY <3>2 DEF Lit, RawSegment
  <2>2. ASSUME seg = Lit(NoText) PROVE seg.braces = "none" /\ seg.inner = NoText
    BY <2>2 DEF Lit, RawSegment
  <2>3. QED
    BY <2>1, <2>2
<1>5. CASE seg.braces = "none"
  BY <1>4, <1>5 DEF KindOf, NameOf, parseWildcard
<1>6. CASE seg.braces = "other"
  BY <1>4, <1>6 DEF KindOf, NameOf, parseWildcard
<1>7. CASE seg.braces = "both"
  <2>1. CASE seg.inner = "$" /\ ~seg.dots
    <3>1. /\ ~(seg.braces = "none") /\ ~(seg.braces = "other")
          /\ seg.braces = "both" /\ seg.inner = "$" /\ ~seg.dots /\ seg.inner \notin WildcardNames
      BY <1>7, <2>1, NamesAssumption
    <3>2. parseWildcard(seg) = [kind |-> "anchor", name |-> NoText]
      BY <3>1 DEF parseWildcard
    <3>3. parseWildcard(seg).kind = "anchor" /\ parseWildcard(seg).name = NoText
      BY <3>2
    <3>4. QED
      BY <1>4, <1>7, <3>3 DEF KindOf, NameOf
  <2>2. CASE ~(seg.inner = "$" /\ ~seg.dots) /\ seg.inner \in WildcardNames
    BY <1>3, <1>4, <1>7, <2>2 DEF KindOf, NameOf, parseWildcard
  <2>3. CASE ~(seg.inner = "$" /\ ~seg.dots) /\ seg.inner \notin WildcardNames
    BY <1>4, <1>7, <2>3 DEF KindOf, NameOf, parseWildcard
  <2>4. QED
    BY <2>1, <2>2, <2>3
<1>8. QED
  BY <1>1, <1>5, <1>6, <1>7

(* A text cut at its slashes, without the empty segment of a slash at the  *)
(* end.                                                                    *)
IsTrailing(text) == Seqs!Last(text) = Lit(NoText)
Segs(text) == IF IsTrailing(text) THEN Len(text) - 1 ELSE Len(text)

LEMMA CutIs ==
  ASSUME NEW text \in Seq(RawSegments), text # <<>>
  PROVE  LET kept == IF IsTrailing(text) THEN Seqs!Front(text) ELSE text IN
         /\ Len(kept) = Segs(text) /\ DOMAIN kept = 1..Segs(text)
         /\ \A i \in 1..Segs(text) : kept[i] = text[i] /\ text[i] \in RawSegments
         /\ Segs(text) \in Nat /\ Segs(text) <= Len(text) /\ Len(text) <= Segs(text) + 1
         /\ \A i \in DOMAIN text : i \notin 1..Segs(text) => i = Len(text) /\ text[i] = Lit(NoText)
         /\ HasBraces(text) => 1 <= Segs(text)
         /\ text[Len(text)] \in RawSegments /\ Seqs!Last(text) = text[Len(text)]
<1>1. Len(text) \in Nat /\ Len(text) >= 1 /\ DOMAIN text = 1..Len(text) /\ \A i \in 1..Len(text) : text[i] \in RawSegments
  OBVIOUS
<1>2. Seqs!Last(text) = text[Len(text)]
  BY DEF Seqs!Last
<1>3. /\ Seqs!Front(text) = SubSeq(text, 1, Len(text) - 1) /\ Len(Seqs!Front(text)) = Len(text) - 1
      /\ DOMAIN Seqs!Front(text) = 1..(Len(text) - 1)
      /\ \A i \in 1..(Len(text) - 1) : Seqs!Front(text)[i] = text[i]
  <2>1. Seqs!Front(text) = SubSeq(text, 1, Len(text) - 1)
    BY DEF Seqs!Front
  <2>2. \A i \in 1..(Len(text) - 1) : text[i] \in RawSegments
    BY <1>1
  <2>3. /\ SubSeq(text, 1, Len(text) - 1) \in Seq(RawSegments)
        /\ Len(SubSeq(text, 1, Len(text) - 1)) = Len(text) - 1
        /\ \A i \in 1..(Len(text) - 1) : SubSeq(text, 1, Len(text) - 1)[i] = text[i]
    BY <1>1
  <2>4. QED
    BY <1>1, <2>1, <2>3
<1>4. IsTrailing(text) => text[Len(text)].braces = "none"
  BY <1>2 DEF IsTrailing, Lit, RawSegment
<1>5. HasBraces(text) => 1 <= Segs(text)
  <2>1. ASSUME IsTrailing(text), Len(text) = 1 PROVE ~HasBraces(text)
    BY <1>1, <1>4, <2>1 DEF HasBraces
  <2>2. QED
    BY <1>1, <2>1 DEF Segs
<1>6. CASE IsTrailing(text)
  <2>1. Segs(text) = Len(text) - 1 /\ text[Len(text)] = Lit(NoText)
    BY <1>2, <1>6 DEF Segs, IsTrailing
  <2>2. /\ Segs(text) \in Nat /\ Segs(text) <= Len(text) /\ Len(text) <= Segs(text) + 1
        /\ \A i \in DOMAIN text : i \notin 1..Segs(text) => i = Len(text)
        /\ \A i \in 1..Segs(text) : i \in 1..Len(text)
    BY <1>1, <2>1
  <2>3. QED
    BY <1>1, <1>2, <1>3, <1>5, <1>6, <2>1, <2>2
<1>7. CASE ~IsTrailing(text)
  BY <1>1, <1>2, <1>5, <1>7 DEF Segs
<1>8. QED
  BY <1>6, <1>7

(* What makes ParsePathPattern refuse a text with braces. *)
Refuses(text) ==
    \E i \in 1..Segs(text) :
        \/ KindOf(text[i]) = "invalid"
        \/ KindOf(text[i]) \in {"anchor", "rest"} /\ i # Len(text)
        \/ NameOf(text[i]) # NoText /\ \E j \in 1..(i - 1) : NameOf(text[j]) = NameOf(text[i])

LEMMA ParsedIs ==
  ASSUME NEW text \in Seq(RawSegments), text # <<>>, HasBraces(text)
  PROVE  ParsePathPattern(text) =
            IF Refuses(text) THEN Invalid
            ELSE [raw |-> text,
                  segs |-> [i \in 1..Segs(text) |->
                                [kind |-> KindOf(text[i]),
                                 lit |-> IF KindOf(text[i]) = "literal" THEN text[i].inner ELSE NoText]],
                  trailing |-> IsTrailing(text)]
<1> DEFINE kept == IF IsTrailing(text) THEN Seqs!Front(text) ELSE text
           read == [i \in DOMAIN kept |-> parseWildcard(kept[i])]
           refused(i) ==
                \/ read[i].kind = "invalid"
                \/ read[i].kind \in {"anchor", "rest"} /\ ~(i = Len(kept) /\ ~IsTrailing(text))
                \/ read[i].name # NoText /\ \E j \in 1..(i - 1) : read[j].name = read[i].name
           seg(i) == [kind |-> read[i].kind, lit |-> IF read[i].kind = "literal" THEN kept[i].inner ELSE NoText]
<1>1. ParsePathPattern(text) =
        IF \E i \in DOMAIN kept : refused(i) THEN Invalid
        ELSE [raw |-> text, segs |-> [i \in DOMAIN kept |-> seg(i)], trailing |-> IsTrailing(text)]
  BY DEF ParsePathPattern, IsTrailing
<1>2. /\ Len(kept) = Segs(text) /\ DOMAIN kept = 1..Segs(text) /\ Segs(text) \in Nat
      /\ \A i \in 1..Segs(text) : kept[i] = text[i]
      /\ Len(text) = IF IsTrailing(text) THEN Segs(text) + 1 ELSE Segs(text)
  BY CutIs DEF Segs
<1>3. \A i \in 1..Segs(text) : read[i].kind = KindOf(text[i]) /\ read[i].name = NameOf(text[i])
  BY <1>2 DEF KindOf, NameOf
<1> HIDE DEF kept, read
<1>4. \A i \in 1..Segs(text) : (i = Len(kept) /\ ~IsTrailing(text)) <=> i = Len(text)
  BY <1>2
<1>5. \A i \in 1..Segs(text) : \A j \in 1..(i - 1) : j \in 1..Segs(text)
  BY <1>2
<1>6. (\E i \in DOMAIN kept : refused(i)) <=> Refuses(text)
  <2> DEFINE refuses(i) ==
                \/ KindOf(text[i]) = "invalid"
                \/ KindOf(text[i]) \in {"anchor", "rest"} /\ i # Len(text)
                \/ NameOf(text[i]) # NoText /\ \E j \in 1..(i - 1) : NameOf(text[j]) = NameOf(text[i])
  <2>1. ASSUME NEW i \in 1..Segs(text) PROVE refused(i) <=> refuses(i)
    <3>1. read[i].kind = KindOf(text[i]) /\ read[i].name = NameOf(text[i])
      BY <1>3
    <3>2. (\E j \in 1..(i - 1) : read[j].name = read[i].name)
            <=> (\E j \in 1..(i - 1) : NameOf(text[j]) = NameOf(text[i]))
      BY <1>3, <1>5
    <3>3. (i = Len(kept) /\ ~IsTrailing(text)) <=> i = Len(text)
      BY <1>4
    <3>4. QED
      BY <3>1, <3>2, <3>3
  <2>2. Refuses(text) <=> \E i \in 1..Segs(text) : refuses(i)
    BY DEF Refuses
  <2> HIDE DEF refused, refuses
  <2>3. QED
    BY <1>2, <2>1, <2>2
<1>7. [i \in DOMAIN kept |-> seg(i)] =
        [i \in 1..Segs(text) |-> [kind |-> KindOf(text[i]),
                                  lit |-> IF KindOf(text[i]) = "literal" THEN text[i].inner ELSE NoText]]
  BY <1>2, <1>3
<1>8. QED
  BY <1>1, <1>6, <1>7

LEMMA RefusesIllFormed ==
  ASSUME NEW text \in Seq(RawSegments), text # <<>>
  PROVE  Refuses(text) <=> ~IsWellFormed(text)
<1> DEFINE n == Segs(text)
<1>1. /\ n \in Nat /\ DOMAIN text = 1..Len(text) /\ Len(text) \in Nat /\ n <= Len(text)
      /\ \A i \in DOMAIN text : i \notin 1..n => i = Len(text) /\ text[i] = Lit(NoText)
      /\ \A i \in DOMAIN text : text[i] \in RawSegments
  <2>1. DOMAIN text = 1..Len(text) /\ Len(text) \in Nat /\ \A i \in DOMAIN text : text[i] \in RawSegments
    OBVIOUS
  <2>2. QED
    BY <2>1, CutIs
<1>2. IsWellFormed(text) <=>
        \A i \in DOMAIN text :
            /\ KindOf(text[i]) # "invalid"
            /\ KindOf(text[i]) \in {"rest", "anchor"} => i = Len(text)
            /\ \A j \in DOMAIN text : NameOf(text[i]) = NameOf(text[j]) /\ i # j => NameOf(text[i]) = NoText
  BY DEF IsWellFormed, KindOf, NameOf
<1>3. KindOf(Lit(NoText)) = "literal" /\ NameOf(Lit(NoText)) = NoText
  BY DEF KindOf, NameOf, Lit, RawSegment, parseWildcard
<1> HIDE DEF n
<1>4. ASSUME Refuses(text) PROVE ~IsWellFormed(text)
  <2>1. PICK i \in 1..n : \/ KindOf(text[i]) = "invalid"
                          \/ KindOf(text[i]) \in {"anchor", "rest"} /\ i # Len(text)
                          \/ NameOf(text[i]) # NoText /\ \E j \in 1..(i - 1) : NameOf(text[j]) = NameOf(text[i])
    BY <1>4 DEF Refuses, n
  <2>2. \A j \in 1..(i - 1) : j \in DOMAIN text /\ j # i
    BY <1>1
  <2>3. CASE NameOf(text[i]) # NoText /\ \E j \in 1..(i - 1) : NameOf(text[j]) = NameOf(text[i])
    <3>1. PICK j \in DOMAIN text : NameOf(text[i]) = NameOf(text[j]) /\ i # j
      BY <2>2, <2>3
    <3>2. i \in DOMAIN text
      BY <1>1
    <3>3. QED
      BY <1>2, <2>3, <3>1, <3>2
  <2>4. i \in DOMAIN text
    BY <1>1
  <2>5. QED
    BY <1>2, <2>1, <2>3, <2>4
<1>5. ASSUME ~IsWellFormed(text) PROVE Refuses(text)
  <2>1. PICK i \in DOMAIN text :
            \/ KindOf(text[i]) = "invalid"
            \/ KindOf(text[i]) \in {"anchor", "rest"} /\ i # Len(text)
            \/ NameOf(text[i]) # NoText /\ \E j \in DOMAIN text : NameOf(text[j]) = NameOf(text[i]) /\ i # j
    BY <1>2, <1>5
  <2>2. i \in 1..n
    BY <1>1, <1>3, <2>1
  <2>3. ASSUME NEW j \in DOMAIN text, NameOf(text[i]) # NoText, NameOf(text[j]) = NameOf(text[i]), i # j
        PROVE  Refuses(text)
    <3>1. j \in 1..n
      BY <1>1, <1>3, <2>3
    <3>2. i \in Nat /\ j \in Nat /\ 1 <= i /\ 1 <= j
      BY <1>1, <2>2, <3>1
    <3>3. j \in 1..(i - 1) \/ i \in 1..(j - 1)
      BY <2>3, <3>2
    <3>4. QED
      BY <2>2, <2>3, <3>1, <3>3 DEF Refuses, n
  <2>4. QED
    BY <2>1, <2>2, <2>3 DEF Refuses, n
<1>6. QED
  BY <1>4, <1>5

LEMMA ParsedPlain ==
  ASSUME NEW text \in Seq(RawSegments), text # <<>>, ~HasBraces(text)
  PROVE  ParsePathPattern(text) = [raw |-> text, segs |-> <<>>, trailing |-> FALSE]
BY DEF ParsePathPattern

LEMMA ParsedNothing == ParsePathPattern(<<>>) = Invalid
BY DEF ParsePathPattern

LEMMA TakenIsWellFormed ==
  ASSUME NEW text \in Seq(RawSegments)
  PROVE  (ParsePathPattern(text) # Invalid) <=> IsWellFormed(text)
<1>1. CASE text = <<>>
  BY <1>1, ParsedNothing DEF IsWellFormed
<1>2. CASE text # <<>> /\ HasBraces(text)
  <2>1. [raw |-> text,
         segs |-> [i \in 1..Segs(text) |->
                       [kind |-> KindOf(text[i]),
                        lit |-> IF KindOf(text[i]) = "literal" THEN text[i].inner ELSE NoText]],
         trailing |-> IsTrailing(text)] # Invalid
    BY <1>2 DEF Invalid
  <2>2. Refuses(text) <=> ~IsWellFormed(text)
    BY <1>2, RefusesIllFormed
  <2>3. QED
    BY <1>2, <2>1, <2>2, ParsedIs
<1>3. CASE text # <<>> /\ ~HasBraces(text)
  <2>1. [raw |-> text, segs |-> <<>>, trailing |-> FALSE] # Invalid
    BY <1>3 DEF Invalid
  <2>2. ParsePathPattern(text) # Invalid
    BY <1>3, <2>1, ParsedPlain
  <2>3. \A i \in DOMAIN text : KindOf(text[i]) = "literal" /\ NameOf(text[i]) = NoText
    BY <1>3 DEF HasBraces, KindOf, NameOf, parseWildcard
  <2>4. IsWellFormed(text)
    BY <1>3, <2>3 DEF IsWellFormed, KindOf, NameOf
  <2>5. QED
    BY <2>2, <2>4
<1>4. QED
  BY <1>1, <1>2, <1>3

-----------------------------------------------------------------------------
(* What Match says of a path *)

(* The path's i-th segment is what the text's i-th, a literal or a         *)
(* wildcard, stands for.                                                   *)
Fits(text, path, i) ==
    /\ KindOf(text[i]) \notin {"anchor", "rest"}
    /\ IF KindOf(text[i]) = "wildcard" THEN path[i] # NoText ELSE path[i] = text[i].inner

EndsAt(text, path, k) ==
    \/ KindOf(text[k]) = "rest"
    \/ KindOf(text[k]) = "anchor" /\ SubSeq(path, k, Len(path)) = <<NoText>>
    \/ Fits(text, path, k) /\ k = Segs(text) /\ (k < Len(path) <=> IsTrailing(text))

LEMMA MatchIs ==
  ASSUME NEW text \in Seq(RawSegments), HasBraces(text), IsWellFormed(text), NEW path \in Seq(STRING)
  PROVE  Match(ParsePathPattern(text), path) <=>
            /\ path # <<>>
            /\ \E k \in 1..Segs(text) :
                /\ \A i \in 1..(k - 1) : Fits(text, path, i) /\ i < Len(path)
                /\ EndsAt(text, path, k)
<1> DEFINE n == Segs(text)
           segs == [i \in 1..n |-> [kind |-> KindOf(text[i]),
                                    lit |-> IF KindOf(text[i]) = "literal" THEN text[i].inner ELSE NoText]]
           p == [raw |-> text, segs |-> segs, trailing |-> IsTrailing(text)]
<1>0. text # <<>>
  BY DEF IsWellFormed
<1>1. ParsePathPattern(text) = p
  BY <1>0, ParsedIs, RefusesIllFormed
<1>2. n \in Nat /\ 1 <= n /\ \A i \in 1..n : text[i] \in RawSegments /\ i \in DOMAIN text
  BY <1>0, CutIs
<1>3. \A i \in 1..n : KindOf(text[i]) \in {"literal", "wildcard", "rest", "anchor"}
  BY <1>2, SegmentKinds DEF IsWellFormed, KindOf
<1>4. DOMAIN segs = 1..n /\ Len(segs) = n /\ segs # <<>>
  BY <1>2
<1>5. \A i \in 1..n : segs[i].kind = KindOf(text[i])
                      /\ (KindOf(text[i]) = "literal" => segs[i].lit = text[i].inner)
  OBVIOUS
<1>6. p.segs = segs /\ p.trailing = IsTrailing(text)
  OBVIOUS
<1> HIDE DEF segs, p, n
<1>7. \A i \in 1..n : (~Decides(segs[i]) /\ Agrees(segs[i], path[i])) <=> Fits(text, path, i)
  BY <1>3, <1>5 DEF Decides, Agrees, Fits
<1>8. \A i \in 1..n : GoesOn(p, path, i) <=> Fits(text, path, i) /\ i < Len(path)
  BY <1>6, <1>7 DEF GoesOn
<1>9. ASSUME NEW k \in 1..n
      PROVE  (\/ p.segs[k].kind = "rest"
              \/ p.segs[k].kind = "anchor" /\ SubSeq(path, k, Len(path)) = <<NoText>>
              \/ /\ ~Decides(p.segs[k]) /\ Agrees(p.segs[k], path[k])
                 /\ k = Len(p.segs) /\ (k < Len(path)) = p.trailing)
             <=> EndsAt(text, path, k)
  <2>1. k = Len(p.segs) <=> k = Segs(text)
    BY <1>4, <1>6 DEF n
  <2>2. p.segs[k].kind = KindOf(text[k])
    BY <1>5, <1>6
  <2>3. (~Decides(p.segs[k]) /\ Agrees(p.segs[k], path[k])) <=> Fits(text, path, k)
    BY <1>6, <1>7
  <2>4. ((k < Len(path)) = p.trailing) <=> (k < Len(path) <=> IsTrailing(text))
    BY <1>6 DEF IsTrailing
  <2>5. QED
    BY <2>1, <2>2, <2>3, <2>4, Zenon DEF EndsAt
<1>10. ASSUME NEW k \in 1..n
       PROVE  (\A i \in 1..(k - 1) : GoesOn(p, path, i))
              <=> \A i \in 1..(k - 1) : Fits(text, path, i) /\ i < Len(path)
  <2>1. \A i \in 1..(k - 1) : i \in 1..n
    BY <1>2
  <2>2. QED
    BY <1>8, <2>1
<1>11. Match(p, path) <=> matchSegments(p, path)
  BY <1>4, <1>6 DEF Match
<1>12. DOMAIN p.segs = 1..n
  BY <1>4, <1>6
<1>13. matchSegments(p, path) <=>
            /\ path # <<>>
            /\ \E k \in 1..n : /\ \A i \in 1..(k - 1) : Fits(text, path, i) /\ i < Len(path)
                               /\ EndsAt(text, path, k)
  BY <1>9, <1>10, <1>12, Zenon DEF matchSegments
<1>14. QED
  BY <1>1, <1>11, <1>13 DEF n

-----------------------------------------------------------------------------
(* What a text means for a path *)

Values(path) == [WildcardNames -> ({path[i] : i \in DOMAIN path} \ {NoText}) \cup {"none"}]
Got == STRING \cup {"none", NoText}
Inst(text, value, i) == IF text[i].braces = "none" THEN text[i].inner ELSE value[text[i].inner]

(* The path is one that the instance stands for.                           *)
Takes(text, path, value) ==
    LET L == Len(text) IN
    /\ \A i \in 1..(L - 1) : path[i] = Inst(text, value, i)
    /\ Len(path) >= L
    /\ \/ KindOf(text[L]) = "anchor" /\ Len(path) = L /\ path[L] = NoText
       \/ KindOf(text[L]) = "rest"
       \/ IsTrailing(text)
       \/ ~IsTrailing(text) /\ KindOf(text[L]) \in {"literal", "wildcard"}
            /\ Len(path) = L /\ path[L] = Inst(text, value, L)

LEMMA SameBeginning ==
  ASSUME NEW path \in Seq(STRING), NEW n \in Nat, n <= Len(path),
         NEW f, f = [i \in 1..n |-> f[i]]
  PROVE  SubSeq(path, 1, n) = f <=> \A i \in 1..n : path[i] = f[i]
<1>1. SubSeq(path, 1, n) = [i \in 1..n |-> path[i]]
  <2>1. /\ SubSeq(path, 1, n) \in Seq(STRING) /\ Len(SubSeq(path, 1, n)) = n
        /\ \A i \in 1..n : SubSeq(path, 1, n)[i] = path[i]
    <3>1. \A i \in 1..n : path[i] \in STRING
      OBVIOUS
    <3>2. QED
      BY <3>1
  <2> DEFINE s == SubSeq(path, 1, n)
  <2>2. s = [i \in 1..n |-> s[i]]
    BY <2>1
  <2>3. QED
    BY <2>1, <2>2
<1>2. QED
  BY <1>1

(* The value function's names are those of the text's wildcards.           *)
LEMMA InstIsText ==
  ASSUME NEW text \in Seq(RawSegments), IsWellFormed(text), NEW path \in Seq(STRING),
         NEW value \in Values(path), NEW i \in 1..Len(text), KindOf(text[i]) \in {"literal", "wildcard"}
  PROVE  /\ Inst(text, value, i) \in Got
         /\ KindOf(text[i]) = "wildcard" =>
                /\ text[i].inner \in WildcardNames
                /\ Inst(text, value, i) = value[text[i].inner] /\ Inst(text, value, i) # NoText
         /\ KindOf(text[i]) = "literal" => Inst(text, value, i) = text[i].inner
<1>1. text[i] \in RawSegments
  OBVIOUS
<1>2. NoText # "none"
  BY Zenon DEF NoText
<1>3. \A l \in DOMAIN path : path[l] \in STRING
  OBVIOUS
<1>4. \A w \in WildcardNames : value[w] \in Got /\ value[w] # NoText
  <2>1. \A w \in WildcardNames : value[w] \in ({path[l] : l \in DOMAIN path} \ {NoText}) \cup {"none"}
    BY DEF Values
  <2>2. \A w \in WildcardNames : value[w] = "none" \/ \E l \in DOMAIN path : value[w] = path[l] /\ value[w] # NoText
    BY <2>1
  <2>3. QED
    BY <1>2, <1>3, <2>2 DEF Got
<1>5. text[i].inner \in STRING
  BY <1>1 DEF RawSegments
<1>6. KindOf(text[i]) = "literal" <=> text[i].braces = "none"
  BY <1>1, SegmentKinds
<1>7. KindOf(text[i]) = "wildcard" => text[i].inner \in WildcardNames
  BY <1>1, SegmentKinds
<1>8. QED
  BY <1>4, <1>5, <1>6, <1>7 DEF Inst, Got

(* Where the segments of a well-formed text stand.                         *)
LEMMA WellFormedIs ==
  ASSUME NEW text \in Seq(RawSegments), IsWellFormed(text)
  PROVE  /\ text # <<>> /\ Len(text) \in Nat /\ 1 <= Len(text) /\ DOMAIN text = 1..Len(text)
         /\ Seqs!Last(text) = text[Len(text)]
         /\ \A i \in 1..Len(text) : KindOf(text[i]) \in {"literal", "wildcard", "rest", "anchor"}
         /\ \A i \in 1..(Len(text) - 1) : KindOf(text[i]) \in {"literal", "wildcard"}
         /\ IsTrailing(text) => KindOf(text[Len(text)]) = "literal"
         /\ \A i, j \in 1..Len(text) :
                KindOf(text[i]) = "wildcard" /\ KindOf(text[j]) = "wildcard"
                    /\ text[i].inner = text[j].inner => i = j
<1>1. text # <<>> /\ Len(text) \in Nat /\ 1 <= Len(text) /\ DOMAIN text = 1..Len(text)
  BY DEF IsWellFormed
<1>2. Seqs!Last(text) = text[Len(text)]
  BY DEF Seqs!Last
<1>3. \A i \in 1..Len(text) : text[i] \in RawSegments
  OBVIOUS
<1>4. \A i \in 1..Len(text) : KindOf(text[i]) # "invalid"
                              /\ (KindOf(text[i]) \in {"rest", "anchor"} => i = Len(text))
  BY <1>1 DEF IsWellFormed, KindOf
<1>5. \A i \in 1..Len(text) : KindOf(text[i]) \in {"literal", "wildcard", "rest", "anchor"}
  BY <1>3, <1>4, SegmentKinds
<1>6. \A i \in 1..(Len(text) - 1) : KindOf(text[i]) \in {"literal", "wildcard"}
  <2>1. Len(text) \in Nat
    BY <1>1
  <2>2. \A i \in 1..(Len(text) - 1) : i \in 1..Len(text) /\ i # Len(text)
    BY <2>1
  <2>3. QED
    BY <1>4, <1>5, <2>2
<1>7. IsTrailing(text) => KindOf(text[Len(text)]) = "literal"
  BY <1>2 DEF IsTrailing, KindOf, Lit, RawSegment, parseWildcard
<1>8. \A i, j \in 1..Len(text) :
        KindOf(text[i]) = "wildcard" /\ KindOf(text[j]) = "wildcard" /\ text[i].inner = text[j].inner => i = j
  <2>1. ASSUME NEW i \in 1..Len(text), NEW j \in 1..Len(text), KindOf(text[i]) = "wildcard",
               KindOf(text[j]) = "wildcard", text[i].inner = text[j].inner, i # j
        PROVE  FALSE
    <3>1. NameOf(text[i]) = text[i].inner /\ NameOf(text[j]) = text[j].inner /\ NameOf(text[i]) # NoText
      BY <1>3, <2>1, SegmentKinds
    <3>2. NameOf(text[i]) = NameOf(text[j]) => NameOf(text[i]) = NoText
      BY <1>1, <2>1 DEF IsWellFormed, NameOf
    <3>3. QED
      BY <2>1, <3>1, <3>2
  <2>2. QED
    BY <2>1
<1>9. QED
  BY <1>1, <1>2, <1>5, <1>6, <1>7, <1>8

LEMMA MeansIs ==
  ASSUME NEW text \in Seq(RawSegments), IsWellFormed(text), NEW path \in Seq(STRING)
  PROVE  Means(text, path) <=> \E value \in Values(path) : Takes(text, path, value)
<1> DEFINE L == Len(text)
           plain(value) == [i \in DOMAIN text |-> Inst(text, value, i)]
           dir(value) == [i \in 1..(L - 1) |-> Inst(text, value, i)]
           says(value) ==
             CASE KindOf(Seqs!Last(text)) = "anchor" -> path = Append(dir(value), NoText)
               [] KindOf(Seqs!Last(text)) = "rest" \/ IsTrailing(text) -> Beneath(path, dir(value))
               [] OTHER -> path = plain(value)
<1>1. Means(text, path) <=> \E value \in Values(path) : says(value)
  BY DEF Means, Values, Inst, KindOf, IsTrailing
<1>2. ASSUME NEW value \in Values(path) PROVE says(value) <=> Takes(text, path, value)
  <2> DEFINE d == dir(value)
             s == plain(value)
  <2>0. /\ L \in Nat /\ 1 <= L /\ DOMAIN text = 1..L /\ Seqs!Last(text) = text[L]
        /\ KindOf(text[L]) \in {"literal", "wildcard", "rest", "anchor"}
        /\ IsTrailing(text) => KindOf(text[L]) = "literal"
        /\ Len(path) \in Nat
    BY WellFormedIs
  <2>00. L \in Nat /\ 1 <= L
    BY <2>0
  <2>7. \A i \in 1..L : i \in 1..(L - 1) \/ i = L
    BY <2>00
  <2>8. \A i \in 1..(L - 1) : i \in 1..L
    BY <2>00
  <2>9. L \in 1..L
    BY <2>00
  <2>1. \A i \in 1..(L - 1) : Inst(text, value, i) \in Got
    <3>1. \A i \in 1..(L - 1) : KindOf(text[i]) \in {"literal", "wildcard"}
      BY WellFormedIs
    <3>2. QED
      BY <2>8, <3>1, InstIsText
  <2>2. d \in Seq(Got) /\ Len(d) = L - 1 /\ \A i \in 1..(L - 1) : d[i] = Inst(text, value, i)
    BY <2>0, <2>1
  <2>3. d = [i \in 1..(L - 1) |-> d[i]]
    BY <2>0
  <2> HIDE DEF d
  <2>4. Beneath(path, d) <=> Len(path) >= L /\ \A i \in 1..(L - 1) : path[i] = Inst(text, value, i)
    <3>1. Beneath(path, d) <=> Len(path) >= L /\ SubSeq(path, 1, L - 1) = d
      BY <2>0, <2>2 DEF Beneath
    <3>2. ASSUME Len(path) >= L PROVE SubSeq(path, 1, L - 1) = d <=> \A i \in 1..(L - 1) : path[i] = d[i]
      <4>1. L - 1 \in Nat /\ L - 1 <= Len(path)
        BY <2>0, <3>2
      <4>2. QED
        BY <2>3, <4>1, SameBeginning
    <3>3. QED
      BY <2>2, <3>1, <3>2
  <2>5. (path = Append(d, NoText)) <=>
            Len(path) = L /\ path[L] = NoText /\ \A i \in 1..(L - 1) : path[i] = Inst(text, value, i)
    <3>1. NoText \in Got /\ path \in Seq(Got)
      BY DEF Got
    <3>2. /\ Append(d, NoText) \in Seq(Got) /\ Len(Append(d, NoText)) = L
          /\ \A i \in 1..(L - 1) : Append(d, NoText)[i] = d[i]
          /\ Append(d, NoText)[L] = NoText
      BY <2>00, <2>2, <3>1
    <3>3. ASSUME Len(path) = L, path[L] = NoText, \A i \in 1..(L - 1) : path[i] = d[i]
          PROVE  path = Append(d, NoText)
      <4>1. \A i \in 1..L : path[i] = Append(d, NoText)[i]
        BY <2>7, <3>2, <3>3
      <4>2. QED
        BY <3>1, <3>2, <3>3, <4>1, SeqEqual
    <3>4. QED
      BY <2>2, <3>2, <3>3
  <2>6. (path = s) <=> Len(path) = L /\ \A i \in 1..L : path[i] = Inst(text, value, i)
    <3>1. s = [i \in 1..L |-> Inst(text, value, i)]
      BY <2>0
    <3>2. path = [i \in 1..Len(path) |-> path[i]]
      OBVIOUS
    <3>3. ASSUME Len(path) = L, \A i \in 1..L : path[i] = Inst(text, value, i) PROVE path = s
      BY <3>1, <3>2, <3>3
    <3>4. ASSUME path = s PROVE Len(path) = L /\ \A i \in 1..L : path[i] = Inst(text, value, i)
      <4>1. DOMAIN path = 1..L /\ \A i \in 1..L : path[i] = Inst(text, value, i)
        BY <3>1, <3>4
      <4>2. QED
        BY <2>00, <4>1
    <3>5. QED
      BY <3>3, <3>4
  <2>10. says(value) <=>
            CASE KindOf(text[L]) = "anchor" -> path = Append(d, NoText)
              [] KindOf(text[L]) = "rest" \/ IsTrailing(text) -> Beneath(path, d)
              [] OTHER -> path = s
    BY <2>0 DEF d
  <2> HIDE DEF s, says
  <2>11. CASE KindOf(text[L]) = "anchor"
    <3>1. says(value) <=> path = Append(d, NoText)
      BY <2>0, <2>10, <2>11
    <3>2. QED
      BY <2>0, <2>5, <2>11, <3>1 DEF Takes
  <2>12. CASE KindOf(text[L]) = "rest" \/ IsTrailing(text)
    <3>1. says(value) <=> Beneath(path, d)
      BY <2>0, <2>10, <2>12
    <3>2. QED
      BY <2>0, <2>4, <2>12, <3>1 DEF Takes
  <2>13. CASE KindOf(text[L]) \in {"literal", "wildcard"} /\ ~IsTrailing(text)
    <3>1. says(value) <=> path = s
      BY <2>0, <2>10, <2>13
    <3>2. /\ KindOf(text[L]) # "anchor" /\ KindOf(text[L]) # "rest"
      BY <2>13
    <3>3. Takes(text, path, value) <=> /\ \A i \in 1..(L - 1) : path[i] = Inst(text, value, i)
                                      /\ Len(path) >= L /\ Len(path) = L /\ path[L] = Inst(text, value, L)
      BY <2>13, <3>2, Zenon DEF Takes
    <3>4. Takes(text, path, value) <=> Len(path) = L /\ \A i \in 1..L : path[i] = Inst(text, value, i)
      BY <2>00, <2>7, <2>8, <2>9, <3>3
    <3>5. QED
      BY <2>6, <3>1, <3>4
  <2>14. QED
    BY <2>0, <2>11, <2>12, <2>13
<1> HIDE DEF says
<1>3. QED
  BY <1>1, <1>2

-----------------------------------------------------------------------------
(* A pattern with wildcards matches the paths its instances stand for      *)

(* What the loop has gone past agrees with an instance, and an instance    *)
(* can be read off what the loop has gone past.                            *)
LEMMA InstanceFits ==
  ASSUME NEW text \in Seq(RawSegments), IsWellFormed(text), NEW path \in Seq(STRING),
         NEW value \in Values(path), NEW i \in 1..Len(text), KindOf(text[i]) \in {"literal", "wildcard"},
         path[i] = Inst(text, value, i)
  PROVE  Fits(text, path, i)
BY InstIsText DEF Fits

LEMMA InstanceOf ==
  ASSUME NEW text \in Seq(RawSegments), IsWellFormed(text), NEW path \in Seq(STRING),
         NEW n \in Nat, n <= Len(text), n <= Len(path), \A i \in 1..n : Fits(text, path, i)
  PROVE  \E value \in Values(path) : \A i \in 1..n : path[i] = Inst(text, value, i)
<1> DEFINE At(w) == {i \in 1..n : KindOf(text[i]) = "wildcard" /\ text[i].inner = w}
           value == [w \in WildcardNames |-> IF At(w) = {} THEN "none" ELSE path[CHOOSE i \in At(w) : TRUE]]
<1>0. /\ Len(text) \in Nat /\ Len(path) \in Nat /\ \A i \in 1..n : i \in 1..Len(text) /\ i \in DOMAIN path
  OBVIOUS
<1>1. ASSUME NEW w \in WildcardNames, At(w) # {}
      PROVE  (CHOOSE i \in At(w) : TRUE) \in At(w)
  BY <1>1
<1>2. value \in Values(path)
  <2>1. ASSUME NEW w \in WildcardNames
        PROVE  value[w] \in ({path[i] : i \in DOMAIN path} \ {NoText}) \cup {"none"}
    <3>1. CASE At(w) = {}
      BY <3>1
    <3>2. CASE At(w) # {}
      <4>1. PICK i \in At(w) : value[w] = path[i]
        BY <1>1, <3>2
      <4>2. i \in DOMAIN path /\ path[i] # NoText
        BY <1>0, <4>1 DEF Fits
      <4>3. QED
        BY <4>1, <4>2
    <3>3. QED
      BY <3>1, <3>2
  <2>2. QED
    BY <2>1 DEF Values
<1>3. ASSUME NEW i \in 1..n PROVE path[i] = Inst(text, value, i)
  <2>0. i \in 1..Len(text) /\ text[i] \in RawSegments
    BY <1>0
  <2>1. KindOf(text[i]) \in {"literal", "wildcard"}
    BY <2>0, WellFormedIs DEF Fits
  <2>2. CASE KindOf(text[i]) = "literal"
    <3>1. Inst(text, value, i) = text[i].inner
      BY <1>2, <2>0, <2>2, InstIsText
    <3>2. QED
      BY <2>2, <3>1 DEF Fits
  <2>3. CASE KindOf(text[i]) = "wildcard"
    <3> DEFINE w == text[i].inner
    <3>1. w \in WildcardNames /\ Inst(text, value, i) = value[w]
      BY <1>2, <2>0, <2>3, InstIsText
    <3>2. i \in At(w)
      BY <2>3
    <3>3. PICK j \in At(w) : value[w] = path[j]
      BY <1>1, <3>1, <3>2
    <3>4. j \in 1..Len(text) /\ KindOf(text[j]) = "wildcard" /\ text[j].inner = text[i].inner
      BY <1>0, <3>3
    <3>5. j = i
      BY <2>0, <2>3, <3>4, WellFormedIs
    <3>6. QED
      BY <3>1, <3>3, <3>5
  <2>4. QED
    BY <2>1, <2>2, <2>3
<1>4. QED
  BY <1>2, <1>3

LEMMA WildcardsMean ==
  ASSUME NEW text \in Seq(RawSegments), HasBraces(text), IsWellFormed(text), NEW path \in Seq(STRING)
  PROVE  Match(ParsePathPattern(text), path) <=> Means(text, path)
<1> DEFINE L == Len(text)
           n == Segs(text)
           Stops(k) == /\ \A i \in 1..(k - 1) : Fits(text, path, i) /\ i < Len(path)
                       /\ EndsAt(text, path, k)
<1>1. Match(ParsePathPattern(text), path) <=> path # <<>> /\ \E k \in 1..n : Stops(k)
  BY MatchIs
<1>2. Means(text, path) <=> \E value \in Values(path) : Takes(text, path, value)
  BY MeansIs
<1>3. /\ text # <<>> /\ L \in Nat /\ 1 <= L
      /\ KindOf(text[L]) \in {"literal", "wildcard", "rest", "anchor"}
      /\ \A i \in 1..(L - 1) : KindOf(text[i]) \in {"literal", "wildcard"}
      /\ IsTrailing(text) => KindOf(text[L]) = "literal"
  BY WellFormedIs
<1>4. n \in Nat /\ 1 <= n /\ n = IF IsTrailing(text) THEN L - 1 ELSE L
  BY <1>3, CutIs DEF Segs
<1>5. Len(path) \in Nat /\ (path # <<>> <=> Len(path) >= 1)
  BY EmptySeq
<1>6. \A i \in 1..(L - 1) : i \in 1..L
  BY <1>3
<1>7. L \in 1..L
  BY <1>3
<1> HIDE DEF L, n
<1>30. L \in Nat /\ 1 <= L
  BY <1>3
<1>40. (IsTrailing(text) => n = L - 1) /\ (~IsTrailing(text) => n = L) /\ n <= L
  BY <1>30, <1>4
<1>8. ASSUME NEW value \in Values(path), Takes(text, path, value)
      PROVE  path # <<>> /\ \E k \in 1..n : Stops(k)
  <2>1. \A i \in 1..(L - 1) : path[i] = Inst(text, value, i)
    BY <1>8 DEF Takes, L
  <2>2. Len(path) >= L
    BY <1>8 DEF Takes, L
  <2>3. \A i \in 1..(L - 1) : Fits(text, path, i) /\ i < Len(path)
    <3>1. \A i \in 1..(L - 1) : Fits(text, path, i)
      BY <1>3, <1>6, <2>1, InstanceFits DEF L
    <3>2. \A i \in 1..(L - 1) : i < Len(path)
      BY <1>3, <1>5, <2>2
    <3>3. QED
      BY <3>1, <3>2
  <2>4. path # <<>>
    BY <1>3, <1>5, <2>2
  <2>5. CASE IsTrailing(text)
    <3>1. n = L - 1 /\ n \in 1..(L - 1)
      BY <1>3, <1>4, <2>5
    <3>2. \A i \in 1..(n - 1) : i \in 1..(L - 1)
      BY <1>3, <3>1
    <3>3. EndsAt(text, path, n)
      BY <2>3, <2>5, <3>1 DEF EndsAt, n
    <3>4. n \in 1..n
      BY <1>4
    <3>5. Stops(n)
      BY <2>3, <3>2, <3>3
    <3>6. QED
      BY <2>4, <3>4, <3>5
  <2>6. CASE ~IsTrailing(text)
    <3>1. n = L /\ L \in 1..n
      BY <1>3, <1>4, <2>6
    <3>2. EndsAt(text, path, L)
      <4>1. CASE KindOf(text[L]) = "rest"
        BY <4>1 DEF EndsAt
      <4>2. CASE KindOf(text[L]) = "anchor"
        <5>1. Len(path) = L /\ path[L] = NoText
          BY <1>8, <2>6, <4>2 DEF Takes, L
        <5>2. SubSeq(path, L, Len(path)) = <<NoText>>
          <6>1. path[L] \in STRING
            BY <1>3, <5>1
          <6>2. SubSeq(path, L, L) = <<path[L]>>
            <7>1. /\ SubSeq(path, L, L) \in Seq(STRING) /\ Len(SubSeq(path, L, L)) = 1
                  /\ SubSeq(path, L, L)[1] = path[L]
              BY <1>30, <5>1, <6>1
            <7>2. <<path[L]>> \in Seq(STRING) /\ Len(<<path[L]>>) = 1 /\ <<path[L]>>[1] = path[L]
              BY <6>1
            <7> DEFINE u == SubSeq(path, L, L)
                       v == <<path[L]>>
            <7>3. u \in Seq(STRING) /\ v \in Seq(STRING) /\ Len(u) = Len(v)
                  /\ \A i \in 1..Len(u) : u[i] = v[i]
              BY <7>1, <7>2
            <7> HIDE DEF u, v
            <7>4. u = v
              BY <7>3, SeqEqual
            <7>5. QED
              BY <7>4 DEF u, v
          <6>3. QED
            BY <5>1, <6>2
        <5>3. QED
          BY <4>2, <5>2 DEF EndsAt
      <4>3. CASE KindOf(text[L]) \in {"literal", "wildcard"}
        <5>1. Len(path) = L /\ path[L] = Inst(text, value, L)
          BY <1>8, <2>6, <4>3 DEF Takes, L
        <5>2. Fits(text, path, L)
          BY <1>7, <4>3, <5>1, InstanceFits DEF L
        <5>3. ~(L < Len(path))
          BY <1>3, <5>1
        <5>4. L = Segs(text) /\ (L < Len(path) <=> IsTrailing(text))
          BY <2>6, <3>1, <5>3 DEF n
        <5>5. QED
          BY <5>2, <5>4 DEF EndsAt
      <4>4. QED
        BY <1>3, <4>1, <4>2, <4>3
    <3>3. QED
      BY <2>3, <2>4, <3>1, <3>2
  <2>7. QED
    BY <2>5, <2>6
<1>9. ASSUME path # <<>>, NEW k \in 1..n, Stops(k)
      PROVE  \E value \in Values(path) : Takes(text, path, value)
  <2>1. k \in Nat /\ 1 <= k /\ k <= n /\ n <= L /\ k - 1 \in Nat /\ n \in Nat
    BY <1>4, <1>30, <1>40
  <2>2. k <= Len(path)
    <3>1. CASE k = 1
      BY <1>5, <1>9, <3>1
    <3>2. CASE k # 1
      <4>1. k - 1 \in 1..(k - 1)
        BY <2>1, <3>2
      <4>2. k - 1 < Len(path)
        BY <1>9, <4>1
      <4>3. QED
        BY <1>5, <2>1, <4>2
    <3>3. QED
      BY <3>1, <3>2
  <2>3. CASE KindOf(text[k]) \in {"rest", "anchor"}
    <3>1. k = L
      <4>1. k \notin 1..(L - 1)
        BY <1>3, <2>3
      <4>2. QED
        BY <1>30, <2>1, <4>1
    <3>2. PICK value \in Values(path) : \A i \in 1..(k - 1) : path[i] = Inst(text, value, i)
      <4>1. k - 1 <= Len(text) /\ k - 1 <= Len(path)
        BY <1>5, <1>30, <2>1, <2>2 DEF L
      <4>2. QED
        BY <1>9, <2>1, <4>1, InstanceOf
    <3>3. CASE KindOf(text[k]) = "rest"
      BY <2>2, <3>1, <3>2, <3>3 DEF Takes, L
    <3>4. CASE KindOf(text[k]) = "anchor"
      <4>1. SubSeq(path, k, Len(path)) = <<NoText>>
        BY <1>9, <3>4 DEF EndsAt, Fits
      <4>2. Len(path) = k /\ path[k] = NoText
        <5>1. SubSeq(path, k, Len(path)) \in Seq(STRING)
              /\ Len(SubSeq(path, k, Len(path))) = Len(path) - k + 1
              /\ SubSeq(path, k, Len(path))[1] = path[k]
          <6>1. \A i \in k..Len(path) : path[i] \in STRING
            BY <1>5, <2>1
          <6>2. QED
            BY <1>5, <2>1, <2>2, <6>1
        <5>2. Len(<<NoText>>) = 1 /\ <<NoText>>[1] = NoText
          OBVIOUS
        <5>3. Len(path) - k + 1 = 1 /\ path[k] = NoText
          BY <4>1, <5>1, <5>2
        <5>4. QED
          BY <1>5, <2>1, <5>3
      <4>3. QED
        BY <2>2, <3>1, <3>2, <3>4, <4>2 DEF Takes, L
    <3>5. QED
      BY <2>3, <3>3, <3>4
  <2>4. CASE KindOf(text[k]) \notin {"rest", "anchor"}
    <3>1. Fits(text, path, k) /\ k = n /\ (k < Len(path) <=> IsTrailing(text))
      BY <1>9, <2>4 DEF EndsAt, n
    <3>2. \A i \in 1..k : Fits(text, path, i)
      <4>1. \A i \in 1..k : i \in 1..(k - 1) \/ i = k
        BY <2>1
      <4>2. QED
        BY <1>9, <3>1, <4>1
    <3>3. PICK value \in Values(path) : \A i \in 1..k : path[i] = Inst(text, value, i)
      <4>1. k <= Len(text)
        BY <1>30, <2>1 DEF L
      <4>2. QED
        BY <2>1, <2>2, <3>2, <4>1, InstanceOf
    <3>4. CASE IsTrailing(text)
      <4>1. k = L - 1 /\ Len(path) >= L
        BY <1>5, <1>30, <1>40, <3>1, <3>4
      <4>2. QED
        BY <3>3, <3>4, <4>1 DEF Takes, L
    <3>5. CASE ~IsTrailing(text)
      <4>1. k = L /\ Len(path) = L
        BY <1>5, <1>30, <1>40, <2>2, <3>1, <3>5
      <4>2. \A i \in 1..(L - 1) : i \in 1..k
        BY <1>6, <4>1
      <4>3. KindOf(text[L]) \in {"literal", "wildcard"}
        BY <1>3, <2>4, <4>1
      <4>4. /\ \A i \in 1..(L - 1) : path[i] = Inst(text, value, i)
            /\ path[L] = Inst(text, value, L) /\ Len(path) >= L
        BY <1>3, <1>7, <3>3, <4>1, <4>2
      <4>5. QED
        BY <3>5, <4>1, <4>3, <4>4, Zenon DEF Takes, L
    <3>6. QED
      BY <3>4, <3>5
  <2>5. QED
    BY <2>3, <2>4
<1> HIDE DEF Stops
<1>10. QED
  BY <1>1, <1>2, <1>8, <1>9

-----------------------------------------------------------------------------
(* A text without wildcards is a path or a directory *)

LEMMA PlainMatch ==
  ASSUME NEW text \in Seq(RawSegments), text # <<>>, ~HasBraces(text), NEW path \in Seq(STRING)
  PROVE  Match(ParsePathPattern(text), path) <=>
            IF IsTrailing(text) THEN HasPrefix(path, TextsOf(text)) ELSE path = TextsOf(text)
<1> DEFINE p == [raw |-> text, segs |-> <<>>, trailing |-> FALSE]
<1>1. ParsePathPattern(text) = p
  BY ParsedPlain
<1>2. p.segs = <<>> /\ p.raw = text
  OBVIOUS
<1>3. isValidPrefix(text) <=> IsTrailing(text)
  BY DEF isValidPrefix, IsTrailing
<1> HIDE DEF p
<1>4. QED
  BY <1>1, <1>2, <1>3, Zenon DEF Match

LEMMA TextsAre ==
  ASSUME NEW text \in Seq(RawSegments)
  PROVE  /\ TextsOf(text) \in Seq(STRING) /\ Len(TextsOf(text)) = Len(text)
         /\ \A i \in 1..Len(text) : TextsOf(text)[i] = text[i].inner
<1>1. DOMAIN text = 1..Len(text) /\ Len(text) \in Nat /\ \A i \in 1..Len(text) : text[i].inner \in STRING
  BY DEF RawSegments
<1>2. QED
  BY <1>1 DEF TextsOf

(* A path has a directory's prefix when it is longer than what stands      *)
(* before the directory's last slash, and agrees with that.                *)
LEMMA HasPrefixIs ==
  ASSUME NEW text \in Seq(RawSegments), text # <<>>, NEW path \in Seq(STRING)
  PROVE  HasPrefix(path, TextsOf(text)) <=>
            Len(path) >= Len(text) /\ \A i \in 1..(Len(text) - 1) : path[i] = text[i].inner
<1> DEFINE L == Len(text)
           t == TextsOf(text)
           f == Seqs!Front(t)
<1>1. L \in Nat /\ 1 <= L /\ L - 1 \in Nat /\ Len(path) \in Nat
  BY EmptySeq
<1>2. t \in Seq(STRING) /\ Len(t) = L /\ \A i \in 1..L : t[i] = text[i].inner
  BY TextsAre
<1> HIDE DEF L, t
<1>3. f = SubSeq(t, 1, L - 1)
  BY <1>2 DEF Seqs!Front
<1>4. \A i \in 1..(L - 1) : i \in 1..L /\ t[i] \in STRING
  BY <1>1, <1>2
<1>5. f \in Seq(STRING) /\ Len(f) = L - 1 /\ \A i \in 1..(L - 1) : f[i] = t[i]
  BY <1>1, <1>2, <1>3, <1>4
<1>6. f = [i \in 1..(L - 1) |-> f[i]]
  BY <1>1, <1>5
<1> HIDE DEF f
<1>7. ASSUME Len(path) >= L
      PROVE  SubSeq(path, 1, L - 1) = f <=> \A i \in 1..(L - 1) : path[i] = text[i].inner
  <2> DEFINE n == L - 1
  <2>1. n \in Nat /\ n <= Len(path) /\ f = [i \in 1..n |-> f[i]]
    BY <1>1, <1>6, <1>7
  <2> HIDE DEF n
  <2>2. SubSeq(path, 1, n) = f <=> \A i \in 1..n : path[i] = f[i]
    BY <2>1, SameBeginning
  <2>3. QED
    BY <1>2, <1>4, <1>5, <2>2 DEF n
<1>8. HasPrefix(path, t) <=> Len(path) >= L /\ SubSeq(path, 1, L - 1) = f
  BY <1>2 DEF HasPrefix, f
<1>9. QED
  BY <1>7, <1>8 DEF L, t

LEMMA PlainMeans ==
  ASSUME NEW text \in Seq(RawSegments), ~HasBraces(text), IsWellFormed(text), NEW path \in Seq(STRING)
  PROVE  Match(ParsePathPattern(text), path) <=> Means(text, path)
<1> DEFINE L == Len(text)
           t == TextsOf(text)
<1>1. text # <<>> /\ L \in Nat /\ 1 <= L /\ DOMAIN text = 1..L
  BY WellFormedIs
<1>2. L \in Nat /\ 1 <= L
  BY <1>1
<1>3. \A i \in 1..L : text[i].braces = "none"
  BY <1>1 DEF HasBraces
<1>4. L \in 1..L /\ \A i \in 1..(L - 1) : i \in 1..L
  BY <1>2
<1>5. ASSUME NEW value, NEW i \in 1..L PROVE Inst(text, value, i) = text[i].inner
  BY <1>3 DEF Inst
<1>6. KindOf(text[L]) = "literal"
  BY <1>3, <1>4 DEF KindOf, parseWildcard
<1>7. t \in Seq(STRING) /\ Len(t) = L /\ \A i \in 1..L : t[i] = text[i].inner
  BY TextsAre
<1> HIDE DEF t, L
<1>8. ASSUME NEW value
      PROVE  Takes(text, path, value) <=> IF IsTrailing(text) THEN HasPrefix(path, t) ELSE path = t
  <2>1. CASE IsTrailing(text)
    <3>1. Takes(text, path, value) <=> Len(path) >= L /\ \A i \in 1..(L - 1) : path[i] = text[i].inner
      BY <1>4, <1>5, <2>1 DEF Takes, L
    <3>2. HasPrefix(path, t) <=> Len(path) >= L /\ \A i \in 1..(L - 1) : path[i] = text[i].inner
      BY <1>1, HasPrefixIs DEF L, t
    <3>3. QED
      BY <2>1, <3>1, <3>2
  <2>2. CASE ~IsTrailing(text)
    <3>1. \A i \in 1..L : i \in 1..(L - 1) \/ i = L
      BY <1>2
    <3>2. Takes(text, path, value) <=>
            /\ \A i \in 1..(L - 1) : path[i] = Inst(text, value, i)
            /\ Len(path) >= L /\ Len(path) = L /\ path[L] = Inst(text, value, L)
      <4>1. KindOf(text[L]) # "anchor" /\ KindOf(text[L]) # "rest" /\ KindOf(text[L]) \in {"literal", "wildcard"}
        BY <1>6
      <4>2. QED
        BY <2>2, <4>1, Zenon DEF Takes, L
    <3>3. Takes(text, path, value) <=> Len(path) = L /\ \A i \in 1..L : path[i] = t[i]
      BY <1>2, <1>4, <1>5, <1>7, <3>1, <3>2
    <3>4. path = t <=> Len(path) = L /\ \A i \in 1..L : path[i] = t[i]
      <4>1. ASSUME Len(path) = L, \A i \in 1..L : path[i] = t[i] PROVE path = t
        BY <1>7, <4>1, SeqEqual
      <4>2. QED
        BY <1>7, <4>1
    <3>5. QED
      BY <2>2, <3>3, <3>4
  <2>3. QED
    BY <2>1, <2>2
<1>9. Values(path) # {}
  <2>1. [w \in WildcardNames |-> "none"] \in Values(path)
    BY DEF Values
  <2>2. QED
    BY <2>1
<1>10. Match(ParsePathPattern(text), path) <=> IF IsTrailing(text) THEN HasPrefix(path, t) ELSE path = t
  BY <1>1, PlainMatch DEF t
<1>11. Means(text, path) <=> \E value \in Values(path) : Takes(text, path, value)
  BY MeansIs
<1>12. QED
  BY <1>8, <1>9, <1>10, <1>11

-----------------------------------------------------------------------------
(* A pattern read relative to a root matches nothing outside it *)

LEMMA BeneathTheRoot ==
  ASSUME NEW text \in Seq(RawSegments), NEW root \in Seq(RawSegments), NEW path \in Seq(STRING),
         Match(ParseGrantPattern(root, text), path)
  PROVE  HasPrefix(path, TextsOf(root))
<1> DEFINE J == Seqs!Front(root) \o text
           m == Len(root) - 1
<1>1. isValidPrefix(root) /\ ~HasBraces(root) /\ text # <<>>
  <2>1. ~Match(Invalid, path)
    BY DEF Match, Invalid, isValidPrefix
  <2>2. QED
    BY <2>1 DEF ParseGrantPattern
<1>2. Match(ParsePathPattern(J), path)
  BY <1>1 DEF ParseGrantPattern
<1>3. /\ root # <<>> /\ Len(root) \in Nat /\ 1 <= Len(root) /\ m \in Nat
      /\ Len(text) \in Nat /\ 1 <= Len(text) /\ Len(path) \in Nat
      /\ DOMAIN root = 1..Len(root)
  BY <1>1, EmptySeq DEF isValidPrefix
<1>4. /\ J \in Seq(RawSegments) /\ Len(J) = m + Len(text)
      /\ \A i \in 1..m : J[i] = root[i]
  <2>1. \A i \in 1..m : root[i] \in RawSegments
    BY <1>3
  <2>2. Seqs!Front(root) = SubSeq(root, 1, m)
    BY DEF Seqs!Front
  <2>3. Seqs!Front(root) \in Seq(RawSegments) /\ Len(Seqs!Front(root)) = m /\ \A i \in 1..m : Seqs!Front(root)[i] = root[i]
    BY <1>3, <2>1, <2>2
  <2> DEFINE F == Seqs!Front(root)
  <2>4. F \in Seq(RawSegments) /\ Len(F) = m /\ \A i \in 1..m : F[i] = root[i]
    BY <2>3
  <2> HIDE DEF F
  <2>5. /\ F \o text \in Seq(RawSegments) /\ Len(F \o text) = Len(F) + Len(text)
        /\ \A i \in 1..Len(F) : (F \o text)[i] = F[i]
    <3>1. Len(F) \in Nat /\ Len(text) \in Nat
      BY <2>4
    <3>2. \A i \in 1..Len(F) : i \in 1..(Len(F) + Len(text)) /\ i <= Len(F)
      BY <3>1
    <3>3. QED
      BY <2>4, <3>2, ConcatProperties
  <2>6. QED
    BY <2>4, <2>5 DEF F
<1> HIDE DEF J, m
<1>5. J # <<>> /\ Len(J) \in Nat /\ m + 1 <= Len(J)
  BY <1>3, <1>4
<1>6. \A i \in 1..m : i \in 1..Len(root) /\ i \in 1..Len(J)
  BY <1>3, <1>5 DEF m
<1>7. \A i \in 1..m : J[i].braces = "none" /\ KindOf(J[i]) = "literal"
  <2>1. \A i \in 1..m : J[i].braces = "none"
    BY <1>1, <1>3, <1>4, <1>6 DEF HasBraces
  <2>2. QED
    BY <2>1 DEF KindOf, parseWildcard
<1>8. Len(path) >= m + 1 /\ \A i \in 1..m : path[i] = root[i].inner
  <2>1. CASE HasBraces(J)
    <3>1. IsWellFormed(J)
      <4>1. ~Match(Invalid, path)
        BY DEF Match, Invalid, isValidPrefix
      <4>2. QED
        BY <1>2, <1>4, <4>1, TakenIsWellFormed
    <3>2. path # <<>> /\ \E k \in 1..Segs(J) :
                            /\ \A i \in 1..(k - 1) : Fits(J, path, i) /\ i < Len(path)
                            /\ EndsAt(J, path, k)
      BY <1>2, <1>4, <2>1, <3>1, MatchIs
    <3>3. PICK k \in 1..Segs(J) : /\ \A i \in 1..(k - 1) : Fits(J, path, i) /\ i < Len(path)
                                  /\ EndsAt(J, path, k)
      BY <3>2
    <3>4. PICK b \in 1..Segs(J) : J[b].braces # "none"
      <4>1. PICK b \in DOMAIN J : J[b].braces # "none"
        BY <2>1 DEF HasBraces
      <4>2. J[b] # Lit(NoText)
        BY <4>1 DEF Lit, RawSegment
      <4>3. b \in 1..Segs(J)
        BY <1>4, <1>5, <4>2, CutIs
      <4>4. QED
        BY <4>1, <4>3
    <3>5. Segs(J) \in Nat /\ b > m
      <4>1. Segs(J) \in Nat
        BY <1>4, <1>5, CutIs
      <4>2. b \notin 1..m
        BY <1>7, <3>4
      <4>3. QED
        BY <1>3, <3>4, <4>1, <4>2
    <3>6. k > m
      <4>1. ASSUME k \in 1..m PROVE FALSE
        <5>1. KindOf(J[k]) = "literal"
          BY <1>7, <4>1
        <5>2. k = Segs(J)
          BY <3>3, <5>1 DEF EndsAt
        <5>3. QED
          BY <1>3, <3>4, <3>5, <4>1, <5>2
      <4>2. QED
        BY <1>3, <3>5, <4>1
    <3>7. k \in Nat /\ \A i \in 1..m : i \in 1..(k - 1)
      BY <1>3, <3>5, <3>6
    <3>8. \A i \in 1..m : path[i] = root[i].inner
      <4>1. \A i \in 1..m : Fits(J, path, i)
        BY <3>3, <3>7
      <4>2. QED
        BY <1>4, <1>7, <4>1 DEF Fits
    <3>9. Len(path) >= m + 1
      <4>1. CASE m = 0
        BY <1>3, <3>2, <4>1, EmptySeq
      <4>2. CASE m # 0
        <5>1. k - 1 \in 1..(k - 1)
          BY <1>3, <3>6, <3>7, <4>2
        <5>2. k - 1 < Len(path)
          BY <3>3, <5>1
        <5>3. QED
          BY <1>3, <3>6, <3>7, <5>2
      <4>3. QED
        BY <4>1, <4>2
    <3>10. QED
      BY <3>8, <3>9
  <2>2. CASE ~HasBraces(J)
    <3>1. IF IsTrailing(J) THEN HasPrefix(path, TextsOf(J)) ELSE path = TextsOf(J)
      BY <1>2, <1>4, <1>5, <2>2, PlainMatch
    <3>2. Len(path) >= Len(J) /\ \A i \in 1..(Len(J) - 1) : path[i] = J[i].inner
      <4>1. CASE IsTrailing(J)
        BY <1>4, <1>5, <3>1, <4>1, HasPrefixIs
      <4>2. CASE ~IsTrailing(J)
        <5>1. path = TextsOf(J)
          BY <3>1, <4>2
        <5>2. Len(path) = Len(J) /\ \A i \in 1..Len(J) : path[i] = J[i].inner
          BY <1>4, <5>1, TextsAre
        <5>3. \A i \in 1..(Len(J) - 1) : i \in 1..Len(J)
          BY <1>5
        <5>4. QED
          BY <1>5, <5>2, <5>3
      <4>3. QED
        BY <4>1, <4>2
    <3>3. \A i \in 1..m : i \in 1..(Len(J) - 1)
      BY <1>3, <1>5
    <3>4. \A i \in 1..m : path[i] = root[i].inner
      BY <1>4, <3>2, <3>3
    <3>5. Len(path) >= m + 1
      BY <1>3, <1>5, <3>2
    <3>6. QED
      BY <3>4, <3>5
  <2>3. QED
    BY <2>1, <2>2
<1>9. Len(path) >= Len(root) /\ \A i \in 1..(Len(root) - 1) : path[i] = root[i].inner
  BY <1>3, <1>8 DEF m
<1>10. QED
  BY <1>3, <1>9, HasPrefixIs

LEMMA TextMeansItsPaths == parsed \in Texts => PatternsMeanTheirPaths
<1> SUFFICES ASSUME parsed \in Texts PROVE PatternsMeanTheirPaths
  OBVIOUS
<1>0. parsed \in Seq(RawSegments)
  BY TextsAssumption
<1>1. ParsePathPattern(parsed) # Invalid <=> IsWellFormed(parsed)
  BY <1>0, TakenIsWellFormed
<1>2. ASSUME IsWellFormed(parsed), NEW path \in Paths
      PROVE  Match(ParsePathPattern(parsed), path) <=> Means(parsed, path)
  <2>1. path \in Seq(STRING)
    BY PathsAssumption
  <2>2. QED
    BY <1>0, <1>2, <2>1, WildcardsMean, PlainMeans
<1>3. ASSUME NEW root, ~isValidPrefix(root)
      PROVE  ParseGrantPattern(root, parsed) = Invalid
  BY <1>3 DEF ParseGrantPattern
<1>4. ASSUME NEW root \in Roots, NEW path \in Paths, Match(ParseGrantPattern(root, parsed), path)
      PROVE  HasPrefix(path, TextsOf(root))
  <2>1. root \in Seq(RawSegments) /\ path \in Seq(STRING)
    BY TextsAssumption, PathsAssumption
  <2>2. QED
    BY <1>0, <1>4, <2>1, BeneathTheRoot
<1>5. QED
  BY <1>1, <1>2, <1>3, <1>4, Zenon DEF PatternsMeanTheirPaths

(* For every name, text, root and path: a pattern is taken exactly when    *)
(* Grant's comment allows it, matches what its instances stand for, and    *)
(* matches nothing outside the root it is read relative to (auth.go:48-63, *)
(* ParsePathPattern, ParseGrantPattern and Match in path_pattern.go).      *)
THEOREM PatternsMeanTheirPathsHolds == PatternSpec => []PatternsMeanTheirPaths
<1>1. PatternInit => parsed \in Texts
  BY DEF PatternInit
<1>2. parsed \in Texts /\ [PatternNext]_parsed => (parsed \in Texts)'
  BY DEF PatternNext
<1>3. QED
  BY <1>1, <1>2, TextMeansItsPaths, PTL DEF PatternSpec
=============================================================================
