--------------------------- MODULE SessionsProofs ---------------------------
(***************************************************************************)
(* Proofs about Sessions, for any number of concurrent refreshes, logouts  *)
(* and tokens, any lifetime, leeway and clock skew.                        *)
(***************************************************************************)
EXTENDS Sessions, TLAPS

-----------------------------------------------------------------------------
(* The inductive invariant. *)

\* A request that has started presents a token that a client holds, and only
\* tokens of an existing session are held.
Presented ==
  /\ known \subseteq issued
  /\ known # {} => session.state # "absent"
  /\ \A q \in Requests : pc[q] # "new" => presented[q] \in known

\* A request that goes on has no answer yet.
Unanswered == \A q \in Requests : pc[q] # "done" => answer[q] = "none"

\* The token that a refresh signed and has not stored is its own secret.
Rotating ==
  /\ \A q \in Requests : pc[q] = "rotating" =>
       /\ q \in Refreshes
       /\ minted[q] \in issued /\ minted[q] \notin known
       /\ found[q].digest = presented[q]
       /\ claims[minted[q]].expiresAt = readAt[q] + RefreshTTL
  /\ \A q, r \in Requests :
       pc[q] = "rotating" /\ pc[r] = "rotating" /\ minted[q] = minted[r] => q = r

\* A token that was exchanged is never the current one again.
Spent ==
  \A q \in Refreshes : answer[q] \in {"renewed", "lost"} => session.digest # presented[q]

IInv ==
  /\ TypeOK
  /\ Presented
  /\ Unanswered
  /\ Rotating
  /\ Spent
  /\ SingleUse
  /\ ExpiresWithToken
  /\ ReuseEndsSession
  /\ LogoutEndsSession

\* The token that Sign takes was never signed before: JWT IDs are unique.
LEMMA FreshTokenIsFresh ==
  ASSUME Tokens \ issued # {}
  PROVE  FreshToken \in Tokens /\ FreshToken \notin issued
<1>1. \E t \in Tokens : t \notin issued
  OBVIOUS
<1> QED
  BY <1>1 DEF FreshToken

-----------------------------------------------------------------------------
(* Type correctness. *)

\* Every step keeps the types; Rotating says that what Rotate hands out is a token.
LEMMA NextTypeOK ==
  ASSUME TypeOK, Rotating, [Next]_vars
  PROVE  TypeOK'
<1> USE SessionsAssumption DEF TypeOK
<1>1. \A c \in Readings : c \in Nat
  BY DEF Readings
<1>2. NoDocument \in Documents
  BY DEF NoDocument, Documents
<1>3. ASSUME NEW q \in Requests, NEW a \in Answers, Done(q, a)
      PROVE  /\ pc' \in [Requests -> {"new", "found", "rotating", "revoking", "done"}]
             /\ found' \in [Requests -> Documents]
             /\ readAt' \in [Requests -> Nat]
             /\ minted' \in [Requests -> Tokens \union {NoToken}]
             /\ answer' \in [Requests -> Answers]
  BY <1>2, <1>3 DEF Done
<1>4. ASSUME NEW c \in Readings, Sign(c)
      PROVE  /\ issued' \subseteq Tokens
             /\ claims' \in [Tokens -> [issuedAt: Nat, expiresAt: Nat]]
             /\ FreshToken \in Tokens
  BY <1>1, <1>4, FreshTokenIsFresh DEF Sign
<1>5. CASE Tick \/ ExpireDocument \/ UNCHANGED vars
  BY <1>5 DEF Tick, ExpireDocument, Documents, vars, tokenVars, requestVars
<1>6. CASE Signin
  <2> PICK c \in Readings :
        /\ Sign(c)
        /\ session' = [state |-> "stored", digest |-> FreshToken, createdAt |-> c,
                       expiresAt |-> c + RefreshTTL, revokedAt |-> Never]
    BY <1>6 DEF Signin
  <2>1. FreshToken \in Tokens /\ c \in Nat
    BY <1>1, <1>4
  <2>2. session' \in Documents
    BY <2>1 DEF Documents
  <2>3. known' \subseteq Tokens
    BY <1>6, <2>1 DEF Signin
  <2> QED
    BY <1>4, <1>6, <2>2, <2>3 DEF Signin, requestVars
<1>7. ASSUME NEW q \in Requests, Find(q) PROVE TypeOK'
  <2> PICK t \in known : presented' = [presented EXCEPT ![q] = t]
    BY <1>7 DEF Find
  <2>1. presented' \in [Requests -> Tokens \union {NoToken}]
    OBVIOUS
  <2>2. \/ \E a \in Answers : Done(q, a)
        \/ /\ found' = [found EXCEPT ![q] = session]
           /\ pc' = [pc EXCEPT ![q] = "found"]
           /\ UNCHANGED <<readAt, minted, answer>>
    BY <1>7 DEF Find, Answers
  <2> QED
    BY <1>3, <1>7, <2>1, <2>2 DEF Find, tokenVars
<1>8. ASSUME NEW q \in Requests, CheckLogout(q) PROVE TypeOK'
  BY <1>1, <1>8 DEF CheckLogout, tokenVars
<1>9. ASSUME NEW q \in Requests, CheckRefresh(q) PROVE TypeOK'
  <2> PICK c \in Readings :
        \/ /\ Done(q, "invalid")
           /\ UNCHANGED <<issued, claims>>
        \/ /\ readAt' = [readAt EXCEPT ![q] = c]
           /\ pc' = [pc EXCEPT ![q] = "revoking"]
           /\ UNCHANGED <<issued, claims, found, minted, answer>>
        \/ /\ Sign(c)
           /\ readAt' = [readAt EXCEPT ![q] = c]
           /\ minted' = [minted EXCEPT ![q] = FreshToken]
           /\ pc' = [pc EXCEPT ![q] = "rotating"]
           /\ UNCHANGED <<found, answer>>
    BY <1>9 DEF CheckRefresh
  <2>1. "invalid" \in Answers /\ c \in Nat
    BY <1>1 DEF Answers
  <2>2. CASE Done(q, "invalid") /\ UNCHANGED <<issued, claims>>
    BY <1>3, <1>9, <2>1, <2>2 DEF CheckRefresh
  <2>3. CASE /\ readAt' = [readAt EXCEPT ![q] = c]
             /\ pc' = [pc EXCEPT ![q] = "revoking"]
             /\ UNCHANGED <<issued, claims, found, minted, answer>>
    BY <1>9, <2>1, <2>3 DEF CheckRefresh
  <2>4. CASE /\ Sign(c)
             /\ readAt' = [readAt EXCEPT ![q] = c]
             /\ minted' = [minted EXCEPT ![q] = FreshToken]
             /\ pc' = [pc EXCEPT ![q] = "rotating"]
             /\ UNCHANGED <<found, answer>>
    BY <1>4, <1>9, <2>1, <2>4 DEF CheckRefresh
  <2> QED
    BY <2>2, <2>3, <2>4
<1>10. ASSUME NEW q \in Requests, Rotate(q) PROVE TypeOK'
  <2>1. minted[q] \in Tokens \union {NoToken} /\ readAt[q] + RefreshTTL \in Nat
    OBVIOUS
  <2>2. session' \in Documents
    BY <1>10, <2>1 DEF Rotate, Documents
  <2>3. {"renewed", "lost"} \subseteq Answers
    BY DEF Answers
  <2>4. known' \subseteq Tokens
    BY <1>10 DEF Rotate, Rotating
  <2> QED
    BY <1>3, <1>10, <2>2, <2>3, <2>4 DEF Rotate
<1>11. ASSUME NEW q \in Requests, RotateConflict(q) PROVE TypeOK'
  BY <1>11 DEF RotateConflict, tokenVars
<1>12. ASSUME NEW q \in Requests, Revoke(q) \/ Fail(q) PROVE TypeOK'
  <2>1. RevokedBy(q) \in Documents
    BY DEF RevokedBy, Documents
  <2>2. {"logged_out", "reused", "internal_error", "failed"} \subseteq Answers
    BY DEF Answers
  <2> QED
    BY <1>3, <1>12, <2>1, <2>2 DEF Revoke, Fail, tokenVars
<1> QED
  BY <1>5, <1>6, <1>7, <1>8, <1>9, <1>10, <1>11, <1>12 DEF Next, RequestStep

-----------------------------------------------------------------------------
(* The invariant holds initially and every step preserves it. *)

\* In the initial states there is no session and no request has begun.
LEMMA InitIInv == Init => IInv
<1> SUFFICES ASSUME Init PROVE IInv
  OBVIOUS
<1> USE SessionsAssumption DEF Init
<1>1. NoDocument \in Documents
  BY DEF NoDocument, Documents
<1>2. TypeOK
  <2>1. Skew \in Nat /\ "none" \in Answers
    BY DEF Answers
  <2> QED
    BY <1>1, <2>1 DEF TypeOK
<1>3. Presented /\ Unanswered /\ Rotating
  BY DEF Presented, Unanswered, Rotating
<1>4. Spent /\ SingleUse /\ ReuseEndsSession /\ LogoutEndsSession
  BY DEF Spent, SingleUse, ReuseEndsSession, LogoutEndsSession, Requests
<1>5. ExpiresWithToken
  BY DEF ExpiresWithToken, NoDocument
<1> QED
  BY <1>2, <1>3, <1>4, <1>5 DEF IInv

\* What a step may do to a session that has ended: the TTL index deletes it.
\* Neither Rotate, whose filter it does not match, nor Revoke changes it.
LEMMA EndedStays ==
  ASSUME TypeOK, Ended, [Next]_vars
  PROVE  session' \in {session, [session EXCEPT !.state = "deleted"]} /\ Ended'
<1>1. session \in Documents
  BY DEF TypeOK
<1>2. session.state # "absent" /\ ~(session.state = "stored" /\ ~Revoked(session))
  BY DEF Ended
<1>3. session' \in {session, [session EXCEPT !.state = "deleted"]}
  <2>1. ~Signin /\ (ExpireDocument => session' = [session EXCEPT !.state = "deleted"])
    BY <1>2 DEF Signin, ExpireDocument
  <2>2. ASSUME NEW q \in Requests, RequestStep(q) PROVE session' = session
    <3>1. ~Rotate(q) /\ RevokedBy(q) = session
      BY <1>2 DEF Rotate, Rotatable, RevokedBy
    <3> QED
      BY <2>2, <3>1 DEF RequestStep, Find, CheckLogout, CheckRefresh, RotateConflict, Revoke, Fail
  <2>3. Tick \/ UNCHANGED vars => session' = session
    BY DEF Tick, vars
  <2> QED
    BY <2>1, <2>2, <2>3 DEF Next
<1> QED
  BY <1>1, <1>3 DEF Ended, Revoked, Documents

\* After the update of Revoke a session that existed has ended.
LEMMA RevokedByEnds ==
  ASSUME TypeOK, NEW q \in Requests, session.state # "absent", session' = RevokedBy(q)
  PROVE  Ended'
<1>1. session \in Documents /\ readAt[q] \in Nat
  BY DEF TypeOK
<1> QED
  BY <1>1, SessionsAssumption DEF RevokedBy, Ended, Revoked, Documents

\* The two answers that promise an ended session stay true: a step gives one only
\* after Revoke, and what has ended stays so.
LEMMA PromisesKept ==
  ASSUME TypeOK, Presented, ReuseEndsSession, LogoutEndsSession, [Next]_vars
  PROVE  ReuseEndsSession' /\ LogoutEndsSession'
<1> SUFFICES ASSUME NEW r \in Requests, answer'[r] \in {"reused", "logged_out"},
                    answer'[r] = "reused" => r \in Refreshes,
                    answer'[r] = "logged_out" => r \in Logouts
             PROVE  Ended'
  BY DEF ReuseEndsSession, LogoutEndsSession, Requests
<1>1. CASE answer'[r] = answer[r]
  BY <1>1, EndedStays DEF ReuseEndsSession, LogoutEndsSession
<1>2. CASE answer'[r] # answer[r]
  <2>1. answer \in [Requests -> Answers]
    BY DEF TypeOK
  <2>2. PICK q \in Requests : RequestStep(q)
    BY <1>2 DEF Next, Tick, Signin, ExpireDocument, vars, requestVars
  <2>3. ASSUME NEW a, Done(q, a) PROVE answer'[r] = a
    BY <1>2, <2>1, <2>3 DEF Done
  <2>4. Revoke(q)
    <3>1. ~Find(q)
      BY <1>2, <2>3 DEF Find
    <3>2. ~CheckRefresh(q) /\ ~CheckLogout(q)
      BY <1>2, <2>3 DEF CheckRefresh, CheckLogout
    <3>3. ~Rotate(q) /\ ~RotateConflict(q) /\ ~Fail(q)
      BY <1>2, <2>3 DEF Rotate, RotateConflict, Fail
    <3> QED
      BY <2>2, <3>1, <3>2, <3>3 DEF RequestStep
  <2>5. session.state # "absent"
    BY <2>4 DEF Revoke, Presented
  <2> QED
    BY <2>4, <2>5, RevokedByEnds DEF Revoke
<1> QED
  BY <1>1, <1>2

\* The steps of a request other than Rotate, as far as the invariant about tokens
\* sees them: they leave the digest, the clients' tokens and what the other
\* requests hold alone, and give no token away.
LEMMA TokensKept ==
  ASSUME IInv, NEW q \in Requests,
         Find(q) \/ CheckLogout(q) \/ RotateConflict(q) \/ Revoke(q) \/ Fail(q)
  PROVE  Presented' /\ Unanswered' /\ Rotating' /\ Spent' /\ SingleUse' /\ ExpiresWithToken'
<1> USE DEF IInv
<1>1. /\ pc \in [Requests -> {"new", "found", "rotating", "revoking", "done"}]
      /\ presented \in [Requests -> Tokens \union {NoToken}]
      /\ found \in [Requests -> Documents]
      /\ readAt \in [Requests -> Nat]
      /\ minted \in [Requests -> Tokens \union {NoToken}]
      /\ answer \in [Requests -> Answers]
      /\ session \in Documents
  BY DEF TypeOK
<1>2. UNCHANGED <<issued, claims, known>>
  BY DEF Find, CheckLogout, RotateConflict, Revoke, Fail, tokenVars
<1>3. /\ session'.digest = session.digest
      /\ session'.expiresAt = session.expiresAt
      /\ session'.state = session.state
  <2>1. session' \in {session, RevokedBy(q)}
    BY DEF Find, CheckLogout, RotateConflict, Revoke, Fail
  <2> QED
    BY <1>1, <2>1 DEF RevokedBy, Documents
<1>4. /\ pc' \in [Requests -> {"new", "found", "rotating", "revoking", "done"}]
      /\ \A r \in Requests \ {q} :
           /\ pc'[r] = pc[r] /\ answer'[r] = answer[r] /\ presented'[r] = presented[r]
           /\ found'[r] = found[r] /\ minted'[r] = minted[r] /\ readAt'[r] = readAt[r]
  <2>1. CASE Find(q)
    BY <1>1, <2>1 DEF Find, Done
  <2>2. CASE CheckLogout(q) \/ RotateConflict(q)
    BY <1>1, <2>2 DEF CheckLogout, RotateConflict
  <2>3. CASE Revoke(q) \/ Fail(q)
    BY <1>1, <2>3 DEF Revoke, Fail, Done
  <2> QED
    BY <2>1, <2>2, <2>3
<1>5. /\ pc'[q] \in {"found", "revoking", "done"}
      /\ presented'[q] \in known
      /\ answer'[q] \notin {"renewed", "lost"}
      /\ pc'[q] # "done" => answer'[q] = "none"
  <2>1. CASE Find(q)
    BY <1>1, <2>1 DEF Find, Done, Unanswered
  <2>2. CASE CheckLogout(q) \/ RotateConflict(q)
    BY <1>1, <2>2 DEF CheckLogout, RotateConflict, Unanswered, Presented
  <2>3. CASE Revoke(q) \/ Fail(q)
    BY <1>1, <2>3 DEF Revoke, Fail, Done, Presented
  <2> QED
    BY <2>1, <2>2, <2>3
<1>6. Presented' /\ Unanswered'
  BY <1>2, <1>3, <1>4, <1>5 DEF Presented, Unanswered
<1>7. Rotating'
  BY <1>2, <1>4, <1>5 DEF Rotating
<1>8. Spent' /\ SingleUse'
  BY <1>3, <1>4, <1>5 DEF Spent, SingleUse, Requests
<1>9. ExpiresWithToken'
  BY <1>2, <1>3 DEF ExpiresWithToken
<1> QED
  BY <1>6, <1>7, <1>8, <1>9

\* CheckRefresh: the token it signs is held by nobody, and by no other request.
LEMMA CheckRefreshKeepsTokens ==
  ASSUME IInv, NEW q \in Requests, CheckRefresh(q)
  PROVE  Presented' /\ Unanswered' /\ Rotating' /\ Spent' /\ SingleUse' /\ ExpiresWithToken'
<1> USE DEF IInv
<1>1. /\ pc \in [Requests -> {"new", "found", "rotating", "revoking", "done"}]
      /\ found \in [Requests -> Documents]
      /\ readAt \in [Requests -> Nat]
      /\ minted \in [Requests -> Tokens \union {NoToken}]
      /\ answer \in [Requests -> Answers]
      /\ claims \in [Tokens -> [issuedAt: Nat, expiresAt: Nat]]
      /\ issued \subseteq Tokens
  BY DEF TypeOK
<1>2. q \in Refreshes /\ pc[q] = "found" /\ answer[q] = "none" /\ presented[q] \in known
      /\ UNCHANGED <<session, known, presented>>
  BY DEF CheckRefresh, Unanswered, Presented
<1>3. PICK c \in Readings :
        \/ /\ Done(q, "invalid")
           /\ UNCHANGED <<issued, claims>>
        \/ /\ readAt' = [readAt EXCEPT ![q] = c]
           /\ pc' = [pc EXCEPT ![q] = "revoking"]
           /\ UNCHANGED <<issued, claims, found, minted, answer>>
        \/ /\ found[q].digest = presented[q]
           /\ Sign(c)
           /\ readAt' = [readAt EXCEPT ![q] = c]
           /\ minted' = [minted EXCEPT ![q] = FreshToken]
           /\ pc' = [pc EXCEPT ![q] = "rotating"]
           /\ UNCHANGED <<found, answer>>
  BY DEF CheckRefresh
<1>4. CASE \/ Done(q, "invalid") /\ UNCHANGED <<issued, claims>>
           \/ /\ readAt' = [readAt EXCEPT ![q] = c]
              /\ pc' = [pc EXCEPT ![q] = "revoking"]
              /\ UNCHANGED <<issued, claims, found, minted, answer>>
  <2>1. /\ pc'[q] \in {"revoking", "done"} /\ answer'[q] \in {"none", "invalid"}
        /\ pc'[q] # "done" => answer'[q] = "none"
        /\ UNCHANGED <<issued, claims>>
    BY <1>1, <1>2, <1>4 DEF Done
  <2>2. \A r \in Requests \ {q} :
          /\ pc'[r] = pc[r] /\ answer'[r] = answer[r]
          /\ found'[r] = found[r] /\ minted'[r] = minted[r] /\ readAt'[r] = readAt[r]
    BY <1>1, <1>4 DEF Done
  <2>3. Presented' /\ Unanswered'
    BY <1>2, <2>1, <2>2 DEF Presented, Unanswered
  <2>4. Rotating'
    BY <1>2, <2>1, <2>2 DEF Rotating
  <2>5. Spent' /\ SingleUse' /\ ExpiresWithToken'
    BY <1>2, <2>1, <2>2 DEF Spent, SingleUse, ExpiresWithToken, Requests
  <2> QED
    BY <2>3, <2>4, <2>5
<1>5. CASE /\ found[q].digest = presented[q]
           /\ Sign(c)
           /\ readAt' = [readAt EXCEPT ![q] = c]
           /\ minted' = [minted EXCEPT ![q] = FreshToken]
           /\ pc' = [pc EXCEPT ![q] = "rotating"]
           /\ UNCHANGED <<found, answer>>
  <2> DEFINE new == FreshToken
  <2>1. new \in Tokens /\ new \notin issued
    BY <1>5, FreshTokenIsFresh DEF Sign
  <2>2. /\ issued' = issued \union {new}
        /\ claims' = [claims EXCEPT ![new] = [issuedAt |-> c, expiresAt |-> c + RefreshTTL]]
        /\ minted' = [minted EXCEPT ![q] = new]
    BY <1>5 DEF Sign
  <2> HIDE DEF new
  <2>3. /\ claims'[new].expiresAt = c + RefreshTTL
        /\ \A t \in issued : claims'[t] = claims[t]
    BY <1>1, <2>1, <2>2
  <2>4. Presented' /\ Unanswered'
    BY <1>1, <1>2, <1>5, <2>2 DEF Presented, Unanswered
  <2>5. Rotating'
    <3>1. minted'[q] = new /\ readAt'[q] = c /\ new \notin known
      BY <1>1, <1>5, <2>1, <2>2 DEF Presented
    <3>2. \A r \in Requests \ {q} :
            pc'[r] = pc[r] /\ minted'[r] = minted[r] /\ readAt'[r] = readAt[r]
      BY <1>1, <1>5, <2>2
    <3>3. \A r \in Requests : pc[r] = "rotating" => minted[r] \in issued /\ minted[r] # new
      BY <2>1 DEF Rotating
    <3> QED
      BY <1>2, <1>5, <2>2, <2>3, <3>1, <3>2, <3>3 DEF Rotating
  <2>6. Spent' /\ SingleUse'
    BY <1>2, <1>5 DEF Spent, SingleUse
  <2>7. ExpiresWithToken'
    BY <1>2, <2>2, <2>3 DEF ExpiresWithToken
  <2> QED
    BY <2>4, <2>5, <2>6, <2>7
<1> QED
  BY <1>3, <1>4, <1>5

\* Rotate: the token it spends was the current one, so nobody spent it before;
\* the one it stores was nobody's, so nobody can have spent it.
LEMMA RotateKeepsTokens ==
  ASSUME IInv, NEW q \in Requests, Rotate(q)
  PROVE  Presented' /\ Unanswered' /\ Rotating' /\ Spent' /\ SingleUse' /\ ExpiresWithToken'
<1> USE DEF IInv
<1>1. /\ pc \in [Requests -> {"new", "found", "rotating", "revoking", "done"}]
      /\ found \in [Requests -> Documents]
      /\ readAt \in [Requests -> Nat]
      /\ minted \in [Requests -> Tokens \union {NoToken}]
      /\ answer \in [Requests -> Answers]
      /\ session \in Documents
  BY DEF TypeOK
<1>2. /\ pc[q] = "rotating" /\ q \in Refreshes
      /\ session.state = "stored" /\ session.digest = presented[q]
      /\ minted[q] \in issued /\ minted[q] \notin known /\ presented[q] \in known
      /\ claims[minted[q]].expiresAt = readAt[q] + RefreshTTL
      /\ UNCHANGED <<now, issued, claims, presented>>
  BY DEF Rotate, Rotatable, Rotating, Presented
<1>3. /\ session'.digest = minted[q]
      /\ session'.expiresAt = readAt[q] + RefreshTTL
      /\ session'.state = "stored"
  BY <1>1, <1>2 DEF Rotate, Documents
<1>4. /\ pc'[q] = "done" /\ answer'[q] \in {"renewed", "lost"}
      /\ \A r \in Requests \ {q} :
           /\ pc'[r] = pc[r] /\ answer'[r] = answer[r]
           /\ found'[r] = found[r] /\ minted'[r] = minted[r] /\ readAt'[r] = readAt[r]
  BY <1>1 DEF Rotate, Done
<1>5. known' \in {known, known \union {minted[q]}}
  BY DEF Rotate
<1>6. Presented' /\ Unanswered'
  BY <1>2, <1>3, <1>4, <1>5 DEF Presented, Unanswered
<1>7. Rotating'
  BY <1>2, <1>4, <1>5 DEF Rotating
<1>8. \A r \in Refreshes \ {q} :
        answer'[r] \in {"renewed", "lost"} => presented[r] # presented[q] /\ presented[r] \in known
  BY <1>2, <1>4 DEF Spent, Presented, Unanswered, Requests
<1>9. Spent' /\ SingleUse'
  <2>1. Spent'
    BY <1>2, <1>3, <1>8 DEF Spent
  <2>2. SingleUse'
    BY <1>2, <1>4, <1>8 DEF SingleUse, Requests
  <2> QED
    BY <2>1, <2>2
<1>10. ExpiresWithToken'
  BY <1>2, <1>3 DEF ExpiresWithToken
<1> QED
  BY <1>6, <1>7, <1>9, <1>10

\* Signin and the TTL index: before Signin no client holds a token, so no request
\* has begun.
LEMMA DocumentStepKeepsTokens ==
  ASSUME IInv, Tick \/ Signin \/ ExpireDocument \/ UNCHANGED vars
  PROVE  Presented' /\ Unanswered' /\ Rotating' /\ Spent' /\ SingleUse' /\ ExpiresWithToken'
<1> USE DEF IInv
<1>1. CASE Tick \/ UNCHANGED vars
  BY <1>1 DEF Tick, vars, tokenVars, requestVars, Presented, Unanswered, Rotating, Spent,
              SingleUse, ExpiresWithToken
<1>2. CASE ExpireDocument
  <2>1. /\ session'.digest = session.digest /\ session'.state = "deleted"
        /\ UNCHANGED <<issued, claims, known, pc, presented, found, readAt, minted, answer>>
    BY <1>2 DEF ExpireDocument, tokenVars, requestVars, TypeOK, Documents
  <2> QED
    BY <2>1 DEF Presented, Unanswered, Rotating, Spent, SingleUse, ExpiresWithToken
<1>3. CASE Signin
  <2>1. \A q \in Requests : pc[q] = "new" /\ answer[q] = "none"
    BY <1>3 DEF Signin, Presented, Unanswered
  <2>2. UNCHANGED <<pc, presented, found, readAt, minted, answer>>
    BY <1>3 DEF Signin, requestVars
  <2>3. PICK c \in Readings :
          /\ Sign(c)
          /\ session' = [state |-> "stored", digest |-> FreshToken, createdAt |-> c,
                         expiresAt |-> c + RefreshTTL, revokedAt |-> Never]
    BY <1>3 DEF Signin
  <2>4. FreshToken \in Tokens
    BY <2>3, FreshTokenIsFresh DEF Sign
  <2>5. Presented' /\ Unanswered' /\ Rotating'
    BY <1>3, <2>1, <2>2, <2>3 DEF Signin, Sign, Presented, Unanswered, Rotating
  <2>6. Spent' /\ SingleUse'
    BY <2>1, <2>2 DEF Spent, SingleUse, Requests
  <2>7. ExpiresWithToken'
    BY <2>3, <2>4 DEF Sign, ExpiresWithToken, TypeOK
  <2> QED
    BY <2>5, <2>6, <2>7
<1> QED
  BY <1>1, <1>2, <1>3

\* Every step keeps the invariant.
LEMMA NextIInv == IInv /\ [Next]_vars => IInv'
<1> SUFFICES ASSUME IInv, [Next]_vars PROVE IInv'
  OBVIOUS
<1>1. TypeOK'
  BY NextTypeOK DEF IInv
<1>2. ReuseEndsSession' /\ LogoutEndsSession'
  BY PromisesKept DEF IInv
<1>3. Presented' /\ Unanswered' /\ Rotating' /\ Spent' /\ SingleUse' /\ ExpiresWithToken'
  <2>1. CASE Tick \/ Signin \/ ExpireDocument \/ UNCHANGED vars
    BY <2>1, DocumentStepKeepsTokens
  <2>2. ASSUME NEW q \in Requests, RequestStep(q)
        PROVE  Presented' /\ Unanswered' /\ Rotating' /\ Spent' /\ SingleUse' /\ ExpiresWithToken'
    BY <2>2, TokensKept, CheckRefreshKeepsTokens, RotateKeepsTokens DEF RequestStep
  <2> QED
    BY <2>1, <2>2 DEF Next
<1> QED
  BY <1>1, <1>2, <1>3 DEF IInv

-----------------------------------------------------------------------------
(* Theorems. *)

\* The conjunction of the parts is an invariant of the specification.
THEOREM InductiveInvariant == Spec => []IInv
<1> QED
  BY InitIInv, NextIInv, PTL DEF Spec

\* Every variable keeps its type.
THEOREM TypeCorrect == Spec => []TypeOK
<1>1. IInv => TypeOK
  BY DEF IInv
<1> QED
  BY <1>1, InductiveInvariant, PTL

\* Any number of requests presenting one refresh token get one new token at most.
THEOREM OneExchangePerToken == Spec => []SingleUse
<1>1. IInv => SingleUse
  BY DEF IInv
<1> QED
  BY <1>1, InductiveInvariant, PTL

\* A refused reuse has ended the session, also for the request that won the race.
THEOREM ReuseDetection == Spec => []ReuseEndsSession
<1>1. IInv => ReuseEndsSession
  BY DEF IInv
<1> QED
  BY <1>1, InductiveInvariant, PTL

\* A confirmed logout has ended the session, whatever was under way.
THEOREM LogoutIsEffective == Spec => []LogoutEndsSession
<1>1. IInv => LogoutEndsSession
  BY DEF IInv
<1> QED
  BY <1>1, InductiveInvariant, PTL

\* The stored expiration is that of the stored token, which the TTL index follows.
THEOREM ExpirationFollowsToken == Spec => []ExpiresWithToken
<1>1. IInv => ExpiresWithToken
  BY DEF IInv
<1> QED
  BY <1>1, InductiveInvariant, PTL

\* No step renews or reopens a session that has ended.
THEOREM EndIsFinal == Spec => EndedIsFinal
<1>1. ASSUME IInv, [Next]_vars, Ended, NEW q \in Refreshes,
             answer'[q] \in {"renewed", "lost"}
      PROVE  answer'[q] = answer[q]
  <2>1. answer \in [Requests -> Answers]
    BY <1>1 DEF IInv, TypeOK
  <2>2. q \in Requests
    BY DEF Requests
  <2>3. ASSUME NEW r \in Requests, RequestStep(r), NEW a \in Answers, Done(r, a),
               a \notin {"renewed", "lost"}
        PROVE  answer'[q] = answer[q]
    BY <1>1, <2>1, <2>2, <2>3 DEF Done
  <2>4. ASSUME NEW r \in Requests, RequestStep(r) PROVE answer'[q] = answer[q]
    <3>1. ~Rotate(r)
      BY <1>1 DEF Rotate, Rotatable, Ended
    <3>2. {"invalid", "no_session", "internal_error", "unavailable", "logged_out", "reused",
           "failed"} \subseteq Answers
      BY DEF Answers
    <3>3. CASE Find(r)
      BY <2>3, <2>4, <3>2, <3>3 DEF Find
    <3>4. CASE CheckRefresh(r) \/ CheckLogout(r) \/ RotateConflict(r)
      BY <2>3, <2>4, <3>2, <3>4 DEF CheckRefresh, CheckLogout, RotateConflict
    <3>5. CASE Revoke(r) \/ Fail(r)
      BY <2>3, <2>4, <3>2, <3>5 DEF Revoke, Fail
    <3> QED
      BY <2>4, <3>1, <3>3, <3>4, <3>5 DEF RequestStep
  <2>5. Tick \/ Signin \/ ExpireDocument \/ UNCHANGED vars => answer'[q] = answer[q]
    BY DEF Tick, Signin, ExpireDocument, vars, requestVars
  <2> QED
    BY <1>1, <2>4, <2>5 DEF Next
<1>2. ASSUME IInv, [Next]_vars
      PROVE  [Ended => /\ session' \in {session, [session EXCEPT !.state = "deleted"]}
                       /\ \A q \in Refreshes :
                            answer'[q] \in {"renewed", "lost"} => answer'[q] = answer[q]]_vars
  BY <1>1, <1>2, EndedStays DEF IInv
<1> QED
  BY <1>2, InductiveInvariant, PTL DEF Spec, EndedIsFinal

=============================================================================
