------------------------------ MODULE Sessions ------------------------------
(***************************************************************************)
(* The sessions of one staff account: the login in two steps, the rotation *)
(* of refresh tokens, the change and the reset of the password, disabling  *)
(* and enabling (src/src/modules/identity: auth.service.ts,                *)
(* auth-otp.service.ts, refresh-token.service.ts,                          *)
(* password-reset.service.ts and the account's half of staff.service.ts).  *)
(*                                                                         *)
(* The account, a one-time-code challenge and a token are documents of     *)
(* their own.  Every read and every write is a step, a call remembers what *)
(* it read, and a save sends only the fields that were assigned.           *)
(*                                                                         *)
(* Abstractions: a code is right or wrong; the value of the password, as a *)
(* password that does not match ends the call; the signed access tokens;   *)
(* the notifications.  An expired challenge is one that is gone.           *)
(***************************************************************************)
EXTENDS Integers, FiniteSetsExt

CONSTANTS
    SessionCalls,    \* slots for calls in flight
    MaxTokens,       \* bound: refresh tokens ever issued
    MaxChallenges,   \* bound: login challenges and reset challenges, each
    MaxOtpAttempts   \* wrong codes after which a challenge is dead

ASSUME SessionConstants ==
    /\ MaxTokens \in Nat
    /\ MaxChallenges \in Nat
    /\ MaxOtpAttempts \in Nat \ {0}

Tokens == 1..MaxTokens
Challenges == {"login", "reset"} \X (1..MaxChallenges)

VARIABLES
    account,        \* the Staff document: status, mustChangePassword
    tokens,         \* RefreshToken documents
    challenges,     \* LoginOtpChallenge and PasswordResetChallenge documents
    sessionCalls,   \* calls in flight
    earlier         \* history: tokens that were there when all were last revoked

sessionVars == <<account, tokens, challenges, sessionCalls, earlier>>

-----------------------------------------------------------------------------
NoToken == [status |-> "ABSENT", parent |-> 0]
NoChallenge == [status |-> "ABSENT", attempts |-> 0]

SessionCall(op, token, challenge, seen) ==
    [op |-> op, token |-> token, challenge |-> challenge, seen |-> seen]
NoneOf(kind) == <<kind, 0>>
SessionIdle == SessionCall("idle", 0, NoneOf("login"), 0)
Died == SessionCall("died", 0, NoneOf("login"), 0)
Then(op) == SessionCall(op, 0, NoneOf("login"), 0)

SessionAt(c, op) == sessionCalls[c].op = op
SessionContinue(c, call) == sessionCalls' = [sessionCalls EXCEPT ![c] = call]

\* A step that only reads.
Reads(c, call) ==
    /\ SessionContinue(c, call)
    /\ UNCHANGED <<account, tokens, challenges, earlier>>

Enter(c, call) == sessionCalls[c] = SessionIdle /\ Reads(c, call)

IsActive == account.status = "ACTIVE"

SessionInit ==
    /\ account = [status |-> "ACTIVE", mustChange |-> TRUE]
    /\ tokens = [t \in Tokens |-> NoToken]
    /\ challenges = [k \in Challenges |-> NoChallenge]
    /\ sessionCalls = [c \in SessionCalls |-> SessionIdle]
    /\ earlier = {}

-----------------------------------------------------------------------------
(* Challenges *)

\* login, with the password of the account; requestReset, with its email.
LoginRead(c) == IsActive /\ Enter(c, SessionCall("challenge", 0, NoneOf("login"), 0))
RequestResetRead(c) == IsActive /\ Enter(c, SessionCall("challenge", 0, NoneOf("reset"), 0))

Created(kind) == {k \in Challenges : k[1] = kind /\ challenges[k].status # "ABSENT"}

IssueChallenge(c) ==
    /\ SessionAt(c, "challenge")
    /\ LET kind == sessionCalls[c].challenge[1]
           k == <<kind, Cardinality(Created(kind)) + 1>> IN
          /\ k \in Challenges
          /\ challenges' = [challenges EXCEPT ![k] = [status |-> "OPEN", attempts |-> 0]]
    /\ SessionContinue(c, SessionIdle)
    /\ UNCHANGED <<account, tokens, earlier>>

ExpireChallenge(k) ==
    /\ challenges[k].status \in {"OPEN", "CONSUMED"}
    /\ challenges' = [challenges EXCEPT ![k].status = "GONE"]
    /\ UNCHANGED <<account, tokens, sessionCalls, earlier>>

\* verifyChallenge is given an identifier; resetPassword takes the latest of
\* the account's challenges that is not consumed.
Presented(kind) ==
    LET open == {k \in Created(kind) : challenges[k].status = "OPEN"} IN
    IF kind = "login" THEN open
    ELSE {k \in open : \A j \in open : j[2] <= k[2]}

MayTry(k) == challenges[k].attempts < MaxOtpAttempts

CodeRead(c, k, right) ==
    /\ k \in Presented(k[1])
    /\ MayTry(k)
    /\ Enter(c, SessionCall(IF right THEN "consume" ELSE "count", 0, k,
                            challenges[k].attempts))

\* A wrong code: the count that was read, plus one.
CountAttempt(c) ==
    /\ SessionAt(c, "count")
    /\ LET k == sessionCalls[c].challenge IN
          challenges' = IF challenges[k].status = "GONE" THEN challenges
                        ELSE [challenges EXCEPT ![k].attempts = sessionCalls[c].seen + 1]
    /\ SessionContinue(c, SessionIdle)
    /\ UNCHANGED <<account, tokens, earlier>>

\* The right code: consumed, whether or not another call has just done so.
ConsumeChallenge(c) ==
    /\ SessionAt(c, "consume")
    /\ LET k == sessionCalls[c].challenge IN
          IF challenges[k].status = "GONE"
          THEN UNCHANGED challenges /\ SessionContinue(c, SessionIdle)
          ELSE /\ challenges' = [challenges EXCEPT ![k].status = "CONSUMED"]
               /\ SessionContinue(c, Then(IF k[1] = "login" THEN "check_owner"
                                          ELSE "set_password"))
    /\ UNCHANGED <<account, tokens, earlier>>

-----------------------------------------------------------------------------
(* Tokens *)

\* verifyLoginOtp and refresh look at the account again before they issue.
CheckOwner(c) ==
    /\ SessionAt(c, "check_owner")
    /\ Reads(c, IF ~IsActive THEN SessionIdle
                ELSE IF sessionCalls[c].token = 0 THEN Then("issue")
                ELSE [sessionCalls[c] EXCEPT !.op = "revoke"])

IssueToken(c) ==
    /\ SessionAt(c, "issue")
    /\ \E t \in Tokens :
          /\ tokens[t] = NoToken
          /\ \A u \in 1..(t - 1) : tokens[u] # NoToken
          /\ tokens' = [tokens EXCEPT ![t] = [status |-> "LIVE",
                                              parent |-> sessionCalls[c].token]]
    /\ SessionContinue(c, SessionIdle)
    /\ UNCHANGED <<account, challenges, earlier>>

\* refresh: findActive, the owner, then the rotation.
RefreshRead(c, t) ==
    /\ tokens[t].status = "LIVE"
    /\ Enter(c, SessionCall("check_owner", t, NoneOf("login"), 0))

\* Mutant of Revoke: the token is matched by a value that was rotated away.
RevokeNothing(t) == tokens

\* updateOne of the token, if it is not revoked.
Revoke(t) ==
    IF tokens[t].status = "LIVE" THEN [tokens EXCEPT ![t].status = "REVOKED"] ELSE tokens

RotateToken(c) ==
    /\ SessionAt(c, "revoke")
    /\ tokens' = Revoke(sessionCalls[c].token)
    /\ SessionContinue(c, [sessionCalls[c] EXCEPT !.op = "issue"])
    /\ UNCHANGED <<account, challenges, earlier>>

\* logout; a token whose time is over is as useless.
Logout(t) ==
    /\ tokens[t].status = "LIVE"
    /\ tokens' = Revoke(t)
    /\ UNCHANGED <<account, challenges, sessionCalls, earlier>>

\* Mutant of RevokedAll: only the latest token is revoked.
RevokedLatest ==
    [t \in Tokens |-> IF tokens[t].status = "LIVE" /\ \A u \in Tokens : u > t => tokens[u] = NoToken
                      THEN [tokens[t] EXCEPT !.status = "REVOKED"] ELSE tokens[t]]

\* revokeAllForStaff: every token that is not revoked.
RevokedAll ==
    [t \in Tokens |-> IF tokens[t].status = "LIVE"
                      THEN [tokens[t] EXCEPT !.status = "REVOKED"] ELSE tokens[t]]

RevokeAllForStaff(c) ==
    /\ SessionAt(c, "revoke_all")
    /\ tokens' = RevokedAll
    /\ earlier' = {t \in Tokens : tokens[t] # NoToken}
    /\ SessionContinue(c, SessionIdle)
    /\ UNCHANGED <<account, challenges>>

-----------------------------------------------------------------------------
(* The account *)

DisableRead(c) == IsActive /\ Enter(c, Then("disable"))
EnableRead(c) == ~IsActive /\ Enter(c, Then("enable"))

Disable(c) ==
    /\ SessionAt(c, "disable")
    /\ account' = [account EXCEPT !.status = "DISABLED"]
    /\ SessionContinue(c, Then("revoke_all"))
    /\ UNCHANGED <<tokens, challenges, earlier>>

Enable(c) ==
    /\ SessionAt(c, "enable")
    /\ account' = [account EXCEPT !.status = "ACTIVE"]
    /\ SessionContinue(c, SessionIdle)
    /\ UNCHANGED <<tokens, challenges, earlier>>

\* changePassword compares the current password before it hashes the new one.
\* An access token outlives no disabling: the JWT strategy asks for ACTIVE.
ChangePasswordRead(c) == IsActive /\ Enter(c, Then("set_password"))

\* setPassword, and the end of changePassword.
SetPassword(c) ==
    /\ SessionAt(c, "set_password")
    /\ account' = [account EXCEPT !.mustChange = FALSE]
    /\ SessionContinue(c, Then("revoke_all"))
    /\ UNCHANGED <<tokens, challenges, earlier>>

\* A call that dies at one of its awaits.  Bound: its slot is not used again.
AbandonSession(c) ==
    /\ sessionCalls[c] \notin {SessionIdle, Died}
    /\ Reads(c, Died)

SessionNext ==
    \/ \E c \in SessionCalls :
          \/ LoginRead(c)
          \/ RequestResetRead(c)
          \/ IssueChallenge(c)
          \/ \E k \in Challenges, right \in BOOLEAN : CodeRead(c, k, right)
          \/ CountAttempt(c)
          \/ ConsumeChallenge(c)
          \/ CheckOwner(c)
          \/ IssueToken(c)
          \/ \E t \in Tokens : RefreshRead(c, t)
          \/ RotateToken(c)
          \/ RevokeAllForStaff(c)
          \/ DisableRead(c)
          \/ Disable(c)
          \/ EnableRead(c)
          \/ Enable(c)
          \/ ChangePasswordRead(c)
          \/ SetPassword(c)
          \/ AbandonSession(c)
    \/ \E k \in Challenges : ExpireChallenge(k)
    \/ \E t \in Tokens : Logout(t)

SessionSpec == SessionInit /\ [][SessionNext]_sessionVars

-----------------------------------------------------------------------------
\* "The old one is revoked, a new one issued": a refresh token that has a
\* successor is never usable again, even if two calls rotate it at once or one
\* dies half-way.
RotatedIsRevoked ==
    \A t, u \in Tokens : tokens[u].parent = t => tokens[t].status # "LIVE"

\* "A changed password should force re-login everywhere else": a token that can
\* be used was issued after the last time that the account's tokens were all
\* revoked, by a disabling, a change or a reset.
NoSessionSurvives ==
    \A t \in earlier : tokens[t].status # "LIVE"
=============================================================================
