------------------------------ MODULE MC_Session ------------------------------
(* Instances of Session for TLC. *)
EXTENDS Session, TLC

CONSTANTS k1, p1, p2, o1, o2, u1, u2, i1, i2, c, t1, s1, s2, s3, d1, d2, l1, f1

\* Two calls of Probe and a SETUP; a SETUP too many; two probe streams.
ProbeCasts == {{k1, p1, p2, u1}, {k1, u1, u2}, {k1, i1, i2}}

\* A subscription, or an announce stream, under grants that change; a token
\* with a subscription; a fetch; a token nobody verifies; two subscriptions, and
\* two that share their id.
Subscribing == {c, s1}
Listing == {c, l1}
Withdrawn == {c, t1, s1}
Fetching == {c, f1}
Unverified == {t1, s1}
Together == {c, s1, s2}
Sharing == {c, s1, s3}
AllCasts ==
    ProbeCasts \cup {Subscribing, Listing, Withdrawn, Fetching, Unverified, Together, Sharing}

IdOf == (s1 :> d1) @@ (s2 :> d2) @@ (s3 :> d1)

AnyOf(rs) == [allows : SUBSET rs, hasMaxAge : BOOLEAN]
Lasting(rs) == [allows : SUBSET rs, hasMaxAge : {FALSE}]
Only(rs) == [allows : {rs}, hasMaxAge : {FALSE}]

AllOffers ==
    [x \in AllCasts |->
        (c :> CASE x = Subscribing -> <<[allows : {{s1}}, hasMaxAge : BOOLEAN], AnyOf({s1})>>
                [] x = Listing -> <<Lasting({l1}), Lasting({l1})>>
                [] x = Fetching -> <<AnyOf({f1})>>
                [] x = Together -> <<Only({s1, s2}), Only({s1})>>
                [] x = Sharing -> <<Only({s1, s3})>>
                [] OTHER -> <<>>)
        @@ (t1 :> IF x = Withdrawn THEN <<Only({s1})>> ELSE <<>>)]
=============================================================================
