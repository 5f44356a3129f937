---------------------------- MODULE SessionProps ----------------------------
(* What lib/auth.js promises about sessions, over the state of Sessions. *)
EXTENDS Sessions

\* Types of the rows and of the handlers' locals: tokens held across awaits
\* were issued, and every row belongs to a family some login opened.
TypeOK ==
    /\ DOMAIN sessions \subseteq 1..issued
    /\ \A t \in DOMAIN sessions :
          /\ sessions[t].family \in opened
          /\ sessions[t].device \in Devices
          /\ sessions[t].scope \in Scopes
          /\ sessions[t].replacedBy \in 0..issued
          /\ sessions[t].revokedAt \in {NotRevoked} \cup 0..now
          /\ sessions[t].issuedAt \in 0..now
    /\ opened \subseteq 1..issued
    /\ status \in {"active", "suspended"}
    /\ pc \in [Handlers -> Steps]
    /\ \A p \in Handlers :
          /\ op[p].new \in 0..issued
          /\ op[p].members \subseteq 1..issued
          /\ op[p].at \in 0..now

LiveRows(f) == {t \in DOMAIN sessions : Live(t) /\ sessions[t].family = f}
Rotating(f) == {p \in Handlers : pc[p] = "insertChild" /\ op[p].row.family = f}

\* Racing refreshes "can never mint two live sibling tokens" (lib/auth.js):
\* a family has one live token, or one about to be inserted, never two.
NoFork ==
    \A f \in opened : Cardinality(LiveRows(f)) + Cardinality(Rotating(f)) <= 1

\* Device, scope and start are stamped at login and survive every rotation:
\* no chain of refreshes moves a session or widens what it may do.
FamilyFixed ==
    \A s, t \in DOMAIN sessions :
        sessions[s].family = sessions[t].family =>
            /\ sessions[s].device = sessions[t].device
            /\ sessions[s].scope = sessions[t].scope
            /\ sessions[s].startedAt = sessions[t].startedAt

\* "A refresh family may not outlive this cap no matter how often it rotates."
LifetimeCapped ==
    \A t \in DOMAIN sessions :
        sessions[t].issuedAt <= sessions[t].startedAt + Lifetime

\* What a login stamps holds for the whole chain of rotations, whatever device
\* presents a token on the way and whenever (lib/auth.js, refresh): the device,
\* the scope and the start, from which the lifetime is counted.
LoginStampHolds == FamilyFixed /\ LifetimeCapped

FamilyState(f) ==
    IF f \notin opened THEN "unused"
    ELSE IF LiveRows(f) # {} THEN "live"
    ELSE IF Rotating(f) # {} THEN "rotating"
    ELSE "closed"

Abstract == INSTANCE AbstractFamilies WITH
    Names <- Tokens,
    state <- [f \in Tokens |-> FamilyState(f)]

\* Rows, revocations, crashes and the TTL index implement the life of the
\* abstract family: one holder at a time, and closed for good.
ImplementsAbstract == Abstract!Spec

----------------------------------------------------------------------------
(* What revocations and password changes leave behind. *)

\* A family that a finished revocation reached has no live token ever after,
\* unless a refresh of it was under way during that very revocation
\* (lib/auth.js, revokeFamily and revokeAllForUser).
OnlyRefreshesEscape ==
    \A t \in DOMAIN sessions :
        Live(t) => sessions[t].family \notin cut \ overlapped

\* After a password change, what an older password opened lives on the
\* calling device only, unless its login or its refresh was under way then
\* (lib/auth.js, changePassword).
OldPasswordShutOut ==
    \A c \in changes, t \in DOMAIN sessions :
        /\ Live(t)
        /\ sessions[t].password < c.password
        /\ sessions[t].family \in 1..c.upto \ overlapped
        => sessions[t].device = c.device

\* "Revoke EVERY live session ... so revocation is complete" (lib/auth.js).
RevocationIsComplete ==
    \A t \in DOMAIN sessions : Live(t) => sessions[t].family \notin cut

============================================================================
