------------------------ MODULE DevicePairingProofs ------------------------
(***************************************************************************)
(* For any phones, pollers, codes, revocations and lost requests, relay.json *)
(* and the requests that read and write it in separate steps never lose a  *)
(* phone that is paired.                                                   *)
(***************************************************************************)
EXTENDS DevicePairing, TLAPS

\* The status of a pairing is changed in place.
LEMMA StatusChanged ==
  ASSUME pairings \in Seq(Pairing), NEW n \in 1..Len(pairings),
         NEW st \in {"issued", "pending", "authorized", "approved", "claimed", "expired"}
  PROVE  LET new == [pairings EXCEPT ![n].status = st] IN
         /\ new \in Seq(Pairing) /\ Len(new) = Len(pairings)
         /\ new[n].status = st /\ new[n].by = pairings[n].by
         /\ \A i \in 1..Len(pairings) : i # n => new[i] = pairings[i]
<1>1. pairings[n] \in Pairing
  OBVIOUS
<1>2. [pairings[n] EXCEPT !.status = st] \in Pairing
  BY <1>1 DEF Pairing
<1> QED
  BY <1>1, <1>2 DEF Pairing

\* What each request stores is a session, and what the server answers a pairing.
LEMMA TypesKept ==
  PairingTypeOK /\ UsersAreKnown /\ CodesAreIssued /\ PairingNext => PairingTypeOK'
<1> SUFFICES ASSUME PairingTypeOK, UsersAreKnown, CodesAreIssued, PairingNext
             PROVE  PairingTypeOK'
  OBVIOUS
<1> USE DEF PairingTypeOK
<1>1. ASSUME EnrollAsk PROVE PairingTypeOK'
  <2>1. pairings' \in Seq(Pairing)
    BY <1>1 DEF EnrollAsk, Pairing
  <2>2. Len(pairings) + 1 \in Nat
    OBVIOUS
  <2>3. enroller' \in Enrolment
    <3>1. [enroller EXCEPT !.pc = "issued", !.pairing = Len(pairings) + 1] \in Enrolment
      BY <2>2 DEF Enrolment
    <3> QED
      BY <1>1, <3>1 DEF EnrollAsk
  <2> QED
    BY <2>1, <2>3, <1>1 DEF EnrollAsk, Server, Counters
<1>2. ASSUME EnrollRead PROVE PairingTypeOK'
  <2>1. enroller' \in Enrolment
    BY <1>2 DEF EnrollRead, Enrolment
  <2> QED
    BY <2>1, <1>2 DEF EnrollRead, Server, Counters
<1>3. ASSUME EnrollSave PROVE PairingTypeOK'
  <2>1. relay' \in Relay
    BY <1>3 DEF EnrollSave, Enrolment, Relay
  <2>2. pairings' \in Seq(Pairing)
    <3>1. enroller.pairing \in 1..Len(pairings)
      BY <1>3 DEF EnrollSave, CodesAreIssued, Enrolment
    <3> QED
      BY <1>3, <3>1, StatusChanged DEF EnrollSave
  <2>3. enroller' \in Enrolment
    BY <1>3 DEF EnrollSave, Enrolling, Enrolment, NoFile, Relay, Tokens
  <2> QED
    BY <2>1, <2>2, <2>3, <1>3 DEF EnrollSave, Server, Counters
<1>4. ASSUME NEW n \in 1..Len(pairings), NEW p \in Phones, Authenticate(n, p) PROVE PairingTypeOK'
  <2>1. pairings' \in Seq(Pairing)
    BY <1>4 DEF Authenticate, Pairing
  <2>2. keys' \in Comparison
    BY <1>4 DEF Authenticate, Comparison
  <2>3. phone' \in [Phones -> {"new", "active", "revoked"}]
    BY <1>4 DEF Authenticate
  <2> QED
    BY <2>1, <2>2, <2>3, <1>4 DEF Authenticate, Server, Counters
<1>5. ASSUME NEW n \in 1..Len(pairings), NEW p \in Phones, Approve(n, p) PROVE PairingTypeOK'
  <2>1. pairings' \in Seq(Pairing)
    BY <1>5 DEF Approve, Pairing
  <2> QED
    BY <2>1, <1>5 DEF Approve, Server, Counters
<1>6. ASSUME NEW n \in 1..Len(pairings), ExpirePairing(n) PROVE PairingTypeOK'
  <2>1. pairings' \in Seq(Pairing)
    BY <1>6, StatusChanged DEF ExpirePairing
  <2> QED
    BY <2>1, <1>6 DEF ExpirePairing, Server, Counters
<1>7. ASSUME NEW k \in Pollers, PollAsk(k) PROVE PairingTypeOK'
  <2>1. poller' \in [Pollers -> Poll]
    BY <1>7 DEF PollAsk, Poll, Relay
  <2> QED
    BY <2>1, <1>7 DEF PollAsk, Server, Counters
<1>8. ASSUME NEW k \in Pollers, PollAnswer(k) PROVE PairingTypeOK'
  <2> DEFINE n == poller[k].pairing
  <2>1. n \in 1..Len(pairings) /\ pairings[n] \in Pairing /\ poller[k] \in Poll
    BY <1>8 DEF PollAnswer, CodesAreIssued
  <2>2. pairings' \in Seq(Pairing)
    <3>1. CASE Claimable(n)
      <4>1. pairings' = [pairings EXCEPT ![n].status = "claimed"]
        BY <1>8, <3>1 DEF PollAnswer
      <4> QED
        BY <2>1, <4>1, StatusChanged
    <3>2. CASE ~Claimable(n)
      BY <1>8, <3>2 DEF PollAnswer
    <3> QED
      BY <3>1, <3>2
  <2>3. [poller[k] EXCEPT !.pc = "answered", !.token = "valid", !.phone = pairings[n].by] \in Poll
    BY <2>1 DEF Poll, Pairing, Tokens
  <2>4. Polling \in Poll
    BY DEF Polling, Poll, Tokens
  <2>5. poller' \in [Pollers -> Poll]
    BY <1>8, <2>3, <2>4 DEF PollAnswer
  <2> QED
    BY <2>2, <2>5, <1>8 DEF PollAnswer, Server, Counters
<1>9. ASSUME NEW k \in Pollers, PollStore(k) PROVE PairingTypeOK'
  <2>1. Polling \in Poll
    BY <1>9 DEF PollStore, Polling, Poll, Tokens
  <2>2. poller' \in [Pollers -> Poll]
    BY <1>9, <2>1 DEF PollStore
  <2>3. poller[k] \in Poll /\ poller[k].phone \in Phones
    BY <1>9 DEF PollStore, UsersAreKnown
  <2>4. relay' \in Relay
    BY <1>9, <2>3 DEF PollStore, Relay, Poll
  <2> QED
    BY <2>1, <2>2, <2>3, <2>4, <1>9 DEF PollStore, Server, Counters
<1>10. ASSUME RenewAsk PROVE PairingTypeOK'
  <2>1. renewer' \in Renewal
    BY <1>10 DEF RenewAsk, Renewal, Relay
  <2> QED
    BY <2>1, <1>10 DEF RenewAsk, Server, Counters
<1>11. ASSUME RenewAnswer PROVE PairingTypeOK'
  <2>1. renewer' \in Renewal
    BY <1>11 DEF RenewAnswer, Renewal, Renewing, Tokens
  <2> QED
    BY <2>1, <1>11 DEF RenewAnswer, Server, Counters
<1>12. ASSUME RenewStore PROVE PairingTypeOK'
  <2>1. renewer' \in Renewal
    BY <1>12 DEF RenewStore, Renewal, Renewing, Tokens
  <2>2. relay' \in Relay
    BY <1>12 DEF RenewStore, Relay, Renewal
  <2> QED
    BY <2>1, <2>2, <1>12 DEF RenewStore, Server, Counters
<1>13. ASSUME KeysAsk PROVE PairingTypeOK'
  <2>1. keys' \in Comparison
    BY <1>13 DEF KeysAsk, Comparison, Listing, Relay
  <2> QED
    BY <2>1, <1>13 DEF KeysAsk, Server, Counters
<1>14. ASSUME KeysAnswer PROVE PairingTypeOK'
  <2>1. keys' \in Comparison
    BY <1>14 DEF KeysAnswer, Comparison, Listing
  <2> QED
    BY <2>1, <1>14 DEF KeysAnswer, Server, Counters
<1>15. ASSUME KeysStore PROVE PairingTypeOK'
  <2>1. keys' \in Comparison
    BY <1>15 DEF KeysStore, Comparison, Listing
  <2>2. relay' \in Relay
    BY <1>15 DEF KeysStore, Relay
  <2> QED
    BY <2>1, <2>2, <1>15 DEF KeysStore, Server, Counters
<1>16. ASSUME NEW p \in Phones, RevokePhone(p) PROVE PairingTypeOK'
  <2>1. phone' \in [Phones -> {"new", "active", "revoked"}]
    BY <1>16 DEF RevokePhone
  <2> QED
    BY <2>1, <1>16 DEF RevokePhone, Server, Counters
<1>17. ASSUME RevokeMachine PROVE PairingTypeOK'
  <2>1. \A t \in Tokens : Dead(t) \in Tokens
    BY <1>17 DEF RevokeMachine, Dead, Tokens
  <2>2. relay' \in Relay
    BY <1>17, <2>1 DEF RevokeMachine, Relay
  <2>3. [enroller.previous EXCEPT !.token = Dead(@)] \in Relay
    BY <1>17, <2>1 DEF RevokeMachine, Relay, Enrolment
  <2>4. enroller' \in Enrolment
    BY <1>17, <2>3 DEF RevokeMachine, Enrolment
  <2>5. \A k \in Pollers : [poller[k] EXCEPT !.token = Dead(@)] \in Poll
    BY <1>17, <2>1 DEF RevokeMachine, Poll
  <2>6. poller' \in [Pollers -> Poll]
    BY <1>17, <2>5 DEF RevokeMachine
  <2>7. renewer' \in Renewal
    BY <1>17, <2>1 DEF RevokeMachine, Renewal
  <2> QED
    BY <2>1, <2>2, <2>3, <2>4, <2>5, <2>6, <2>7, <1>17 DEF RevokeMachine, Server, Counters
<1>18. ASSUME CleanupTokens PROVE PairingTypeOK'
  <2>1. relay' \in Relay
    BY <1>18 DEF CleanupTokens, Relay, Tokens
  <2>2. [enroller.previous EXCEPT !.token = IF @ = "revoked" THEN "unknown" ELSE @] \in Relay
    BY <1>18 DEF CleanupTokens, Relay, Enrolment, Tokens
  <2>3. enroller' \in Enrolment
    BY <1>18, <2>2 DEF CleanupTokens, Enrolment
  <2>4. \A k \in Pollers : [poller[k] EXCEPT !.token = IF @ = "revoked" THEN "unknown" ELSE @] \in Poll
    BY <1>18 DEF CleanupTokens, Poll, Tokens
  <2>5. poller' \in [Pollers -> Poll]
    BY <1>18, <2>4 DEF CleanupTokens
  <2>6. renewer' \in Renewal
    BY <1>18 DEF CleanupTokens, Renewal, Tokens
  <2> QED
    BY <2>1, <2>2, <2>3, <2>4, <2>5, <2>6, <1>18 DEF CleanupTokens, Server, Counters
<1>19. ASSUME TokenExpires PROVE PairingTypeOK'
  <2>1. relay' \in Relay
    BY <1>19 DEF TokenExpires, Relay, Tokens
  <2> QED
    BY <2>1, <1>19 DEF TokenExpires, Server, Counters
<1>20. ASSUME Clear PROVE PairingTypeOK'
  <2>1. relay' \in Relay
    BY <1>20 DEF Clear, Relay, Tokens, NoFile
  <2> QED
    BY <2>1, <1>20 DEF Clear, Server, Counters
<1>21. ASSUME GiveUp PROVE PairingTypeOK'
  <2>1. Enrolling \in Enrolment
    BY <1>21 DEF GiveUp, Enrolling, Enrolment, NoFile, Relay, Tokens
  <2>2. Polling \in Poll
    BY <1>21 DEF GiveUp, Polling, Poll, Tokens
  <2>3. Renewing \in Renewal
    BY <1>21 DEF GiveUp, Renewing, Renewal, Tokens
  <2>4. Listing \in Comparison
    BY <1>21 DEF GiveUp, Listing, Comparison
  <2>5. poller' \in [Pollers -> Poll]
    BY <1>21, <2>2 DEF GiveUp
  <2> QED
    BY <2>1, <2>2, <2>3, <2>4, <2>5, <1>21 DEF GiveUp, Server, Counters
<1> QED
  BY <1>1, <1>2, <1>3, <1>4, <1>5, <1>6, <1>7, <1>8, <1>9, <1>10, <1>11, <1>12, <1>13,
     <1>14, <1>15, <1>16, <1>17, <1>18, <1>19, <1>20, <1>21 DEF PairingNext

\* Numbers of codes travel from the server to the file and to the requests.
LEMMA CodesKept == PairingTypeOK /\ CodesAreIssued /\ PairingNext => CodesAreIssued'
<1> SUFFICES ASSUME PairingTypeOK, CodesAreIssued, PairingNext PROVE CodesAreIssued'
  OBVIOUS
<1> USE DEF PairingTypeOK, CodesAreIssued, Server, Counters
<1>1. CASE EnrollAsk
  BY <1>1 DEF EnrollAsk, Relay
<1>2. CASE EnrollRead
  BY <1>2 DEF EnrollRead, Enrolment, Relay
<1>3. CASE EnrollSave
  BY <1>3 DEF EnrollSave, Enrolling, NoFile, Enrolment, Relay
<1>4. ASSUME NEW n \in 1..Len(pairings), NEW p \in Phones,
             Authenticate(n, p) \/ Approve(n, p) \/ ExpirePairing(n)
      PROVE  CodesAreIssued'
  BY <1>4 DEF Authenticate, Approve, ExpirePairing
<1>5. ASSUME NEW k \in Pollers, PollAsk(k) PROVE CodesAreIssued'
  BY <1>5 DEF PollAsk, Relay, Poll
<1>6. ASSUME NEW k \in Pollers, PollAnswer(k) PROVE CodesAreIssued'
  <2>1. UNCHANGED <<relay, enroller>> /\ Len(pairings') = Len(pairings)
    BY <1>6 DEF PollAnswer
  <2>2. PICK new : /\ poller' = [poller EXCEPT ![k] = new]
                   /\ new.pc # "idle" => new.pairing = poller[k].pairing
    <3>1. CASE Claimable(poller[k].pairing)
      <4> DEFINE new == [poller[k] EXCEPT !.pc = "answered", !.token = "valid",
                                          !.phone = pairings[poller[k].pairing].by]
      <4>1. poller' = [poller EXCEPT ![k] = new]
        BY <1>6, <3>1 DEF PollAnswer
      <4>2. new.pairing = poller[k].pairing
        BY DEF Poll
      <4> QED
        BY <4>1, <4>2
    <3>2. CASE ~Claimable(poller[k].pairing)
      BY <1>6, <3>2 DEF PollAnswer, Polling
    <3> QED
      BY <3>1, <3>2
  <2>3. poller[k].pairing \in 1..Len(pairings)
    BY <1>6 DEF PollAnswer
  <2> QED
    BY <2>1, <2>2, <2>3
<1>7. ASSUME NEW k \in Pollers, PollStore(k) PROVE CodesAreIssued'
  BY <1>7 DEF PollStore, Polling, Relay, Poll
<1>8. CASE RenewStore
  BY <1>8 DEF RenewStore, Relay
<1>9. CASE KeysStore
  BY <1>9 DEF KeysStore, Relay
<1>10. CASE RevokeMachine \/ CleanupTokens
  <2>1. /\ relay'.pairing = relay.pairing
        /\ enroller'.pc = enroller.pc /\ enroller'.pairing = enroller.pairing
        /\ enroller'.previous.pairing = enroller.previous.pairing
        /\ UNCHANGED pairings
    BY <1>10 DEF RevokeMachine, CleanupTokens, Relay, Enrolment
  <2>2. \A k \in Pollers : poller'[k].pc = poller[k].pc /\ poller'[k].pairing = poller[k].pairing
    BY <1>10 DEF RevokeMachine, CleanupTokens, Poll
  <2> QED
    BY <2>1, <2>2
<1>11. CASE TokenExpires \/ Clear
  BY <1>11 DEF TokenExpires, Clear, NoFile, Relay
<1>12. CASE GiveUp
  BY <1>12 DEF GiveUp, Enrolling, NoFile, Polling
<1>13. CASE UNCHANGED <<relay, pairings, enroller, poller>>
  BY <1>13
<1>14. \/ UNCHANGED <<relay, pairings, enroller, poller>>
       \/ EnrollAsk \/ EnrollRead \/ EnrollSave
       \/ \E n \in 1..Len(pairings), p \in Phones : Authenticate(n, p) \/ Approve(n, p)
       \/ \E n \in 1..Len(pairings) : ExpirePairing(n)
       \/ \E k \in Pollers : PollAsk(k) \/ PollAnswer(k) \/ PollStore(k)
       \/ RenewStore \/ KeysStore
       \/ RevokeMachine \/ CleanupTokens \/ TokenExpires \/ Clear \/ GiveUp
  BY DEF PairingNext, RenewAsk, RenewAnswer, KeysAsk, KeysAnswer, RevokePhone
<1>15. ASSUME NEW n \in 1..Len(pairings), ExpirePairing(n) PROVE CodesAreIssued'
  BY <1>15 DEF ExpirePairing
<1> QED
  BY <1>1, <1>2, <1>3, <1>4, <1>5, <1>6, <1>7, <1>8, <1>9, <1>10, <1>11, <1>12, <1>13,
     <1>14, <1>15

\* Who used a code is written down when it is used, and answered to polls.
LEMMA UsersKept == PairingTypeOK /\ CodesAreIssued /\ UsersAreKnown /\ PairingNext => UsersAreKnown'
<1> SUFFICES ASSUME PairingTypeOK, CodesAreIssued, UsersAreKnown, PairingNext PROVE UsersAreKnown'
  OBVIOUS
<1> USE DEF PairingTypeOK, UsersAreKnown, Server, Counters
<1>1. CASE EnrollAsk
  BY <1>1 DEF EnrollAsk, Pairing
<1>2. CASE EnrollSave
  BY <1>2 DEF EnrollSave, Pairing, CodesAreIssued
<1>3. ASSUME NEW n \in 1..Len(pairings), NEW p \in Phones, Authenticate(n, p) PROVE UsersAreKnown'
  BY <1>3 DEF Authenticate, Pairing
<1>4. ASSUME NEW n \in 1..Len(pairings), NEW p \in Phones, Approve(n, p) PROVE UsersAreKnown'
  BY <1>4 DEF Approve, Pairing, LetsIn
<1>5. ASSUME NEW n \in 1..Len(pairings), ExpirePairing(n) PROVE UsersAreKnown'
  BY <1>5 DEF ExpirePairing, Pairing
<1>6. ASSUME NEW k \in Pollers, PollAsk(k) \/ PollStore(k) PROVE UsersAreKnown'
  BY <1>6 DEF PollAsk, PollStore, Polling, Poll
<1>7. ASSUME NEW k \in Pollers, PollAnswer(k) PROVE UsersAreKnown'
  <2> DEFINE n == poller[k].pairing
  <2>1. n \in 1..Len(pairings)
    BY <1>7 DEF PollAnswer, CodesAreIssued
  <2>2. CASE Claimable(n)
    <3>1. pairings[n].by \in Phones
      BY <2>1, <2>2 DEF Claimable
    <3>2. /\ Len(pairings') = Len(pairings) /\ pairings'[n].by = pairings[n].by
          /\ \A i \in 1..Len(pairings) : i # n => pairings'[i] = pairings[i]
      <4>1. pairings' = [pairings EXCEPT ![n].status = "claimed"]
        BY <1>7, <2>2 DEF PollAnswer
      <4> QED
        BY <2>1, <4>1, StatusChanged
    <3>3. /\ poller'[k].phone = pairings[n].by
          /\ \A j \in Pollers \ {k} : poller'[j] = poller[j]
      BY <1>7, <2>2 DEF PollAnswer, Poll
    <3> QED
      BY <3>1, <3>2, <3>3
  <2>3. CASE ~Claimable(n)
    BY <1>7, <2>3 DEF PollAnswer, Polling
  <2> QED
    BY <2>2, <2>3
<1>8. CASE RevokeMachine \/ CleanupTokens
  <2>1. \A k \in Pollers : poller'[k].pc = poller[k].pc /\ poller'[k].phone = poller[k].phone
    BY <1>8 DEF RevokeMachine, CleanupTokens, Poll
  <2> QED
    BY <1>8, <2>1 DEF RevokeMachine, CleanupTokens
<1>9. CASE GiveUp
  BY <1>9 DEF GiveUp, Polling
<1>10. CASE UNCHANGED <<pairings, poller>>
  BY <1>10
<1>11. \/ UNCHANGED <<pairings, poller>>
       \/ EnrollAsk \/ EnrollSave
       \/ \E n \in 1..Len(pairings), p \in Phones : Authenticate(n, p) \/ Approve(n, p)
       \/ \E n \in 1..Len(pairings) : ExpirePairing(n)
       \/ \E k \in Pollers : PollAsk(k) \/ PollAnswer(k) \/ PollStore(k)
       \/ RevokeMachine \/ CleanupTokens \/ GiveUp
  BY DEF PairingNext, EnrollRead, RenewAsk, RenewAnswer, RenewStore, KeysAsk, KeysAnswer,
     KeysStore, RevokePhone, TokenExpires, Clear
<1> QED
  BY <1>1, <1>2, <1>3, <1>4, <1>5, <1>6, <1>7, <1>8, <1>9, <1>10, <1>11

\* A phone that is paired again while the list is compared is noted as returned.
LEMMA ListingKept == PairingTypeOK /\ ListingIsTrue /\ PairingNext => ListingIsTrue'
<1> SUFFICES ASSUME PairingTypeOK, ListingIsTrue, PairingNext PROVE ListingIsTrue'
  OBVIOUS
<1> USE DEF PairingTypeOK, ListingIsTrue, Server, Counters
<1>1. ASSUME NEW n \in 1..Len(pairings), NEW p \in Phones, Authenticate(n, p) PROVE ListingIsTrue'
  BY <1>1 DEF Authenticate, Comparison
<1>2. CASE KeysAsk
  BY <1>2 DEF KeysAsk, Listing, Comparison
<1>3. CASE KeysStore
  BY <1>3 DEF KeysStore, Listing
<1>4. CASE KeysAnswer
  BY <1>4 DEF KeysAnswer, Listing, Comparison
<1>5. ASSUME NEW p \in Phones, RevokePhone(p) PROVE ListingIsTrue'
  BY <1>5 DEF RevokePhone
<1>6. CASE GiveUp
  BY <1>6 DEF GiveUp, Listing
<1>7. CASE UNCHANGED <<phone, keys>>
  BY <1>7
<1>8. \/ UNCHANGED <<phone, keys>>
      \/ \E n \in 1..Len(pairings), p \in Phones : Authenticate(n, p)
      \/ KeysAsk \/ KeysAnswer \/ KeysStore
      \/ \E p \in Phones : RevokePhone(p)
      \/ GiveUp
  BY DEF PairingNext, EnrollAsk, EnrollRead, EnrollSave, Approve, ExpirePairing, PollAsk,
     PollAnswer, PollStore, RenewAsk, RenewAnswer, RenewStore, RevokeMachine, CleanupTokens,
     TokenExpires, Clear
<1> QED
  BY <1>1, <1>2, <1>3, <1>4, <1>5, <1>6, <1>7, <1>8

\* Nobody has asked for anything yet.
LEMMA InitKeeps == PairingInit => PairingInv
<1> SUFFICES ASSUME PairingInit PROVE PairingInv
  OBVIOUS
<1>1. NoFile \in Relay
  BY DEF NoFile, Relay, Tokens
<1>2. /\ Enrolling \in Enrolment /\ Polling \in Poll /\ Renewing \in Renewal
      /\ Listing \in Comparison
  BY <1>1 DEF Enrolling, Enrolment, Polling, Poll, Renewing, Renewal, Listing, Comparison, Tokens
<1>3. PairingTypeOK
  BY <1>1, <1>2 DEF PairingInit, PairingTypeOK
<1>4. CodesAreIssued
  BY DEF PairingInit, CodesAreIssued, NoFile, Enrolling, Polling
<1>5. UsersAreKnown
  BY DEF PairingInit, UsersAreKnown, Polling
<1>6. ListingIsTrue
  BY DEF PairingInit, ListingIsTrue, Listing
<1> QED
  BY <1>3, <1>4, <1>5, <1>6 DEF PairingInv

\* Every step of a request, of the server or of the user keeps the invariant.
LEMMA StepKeeps == PairingInv /\ [PairingNext]_pairingVars => PairingInv'
<1>1. PairingInv /\ PairingNext => PairingInv'
  BY TypesKept, CodesKept, UsersKept, ListingKept DEF PairingInv
<1>2. PairingInv /\ UNCHANGED pairingVars => PairingInv'
  BY DEF pairingVars, PairingInv, PairingTypeOK, CodesAreIssued, UsersAreKnown, ListingIsTrue
<1> QED
  BY <1>1, <1>2

\* A code that was used says by whom, no request speaks of a code that was not
\* issued, and a phone about to be dropped is not paired: the inductive invariant.
THEOREM PairingInvariant == PairingSpec => []PairingInv
<1>1. PairingInit => PairingInv
  BY InitKeeps
<1>2. PairingInv /\ [PairingNext]_pairingVars => PairingInv'
  BY StepKeeps
<1> QED
  BY <1>1, <1>2, PTL DEF PairingSpec

\* A trusted phone goes with the file, under a code saved over a later state, or
\* because the server revoked it.
Dropped == \A p \in relay.trusted \ relay'.trusted :
  ~relay'.present \/ phone[p] # "active" \/ p \in keys.returned \/ Overwritten

\* One step of relay_http.py, relay_bridge.py or the server.
LEMMA StepKeepsTrust == PairingInv /\ PairingNext => Dropped
<1> SUFFICES ASSUME PairingInv, PairingNext PROVE Dropped
  OBVIOUS
<1>1. CASE EnrollSave
  BY <1>1 DEF EnrollSave, Dropped, Overwritten, PairingInv, PairingTypeOK, Relay
<1>2. ASSUME NEW k \in Pollers, PollStore(k) PROVE Dropped
  BY <1>2 DEF PollStore, Dropped, PairingInv, PairingTypeOK, Relay
<1>3. CASE RenewStore
  BY <1>3 DEF RenewStore, Dropped, PairingInv, PairingTypeOK, Relay
<1>4. CASE KeysStore
  BY <1>4 DEF KeysStore, Dropped, PairingInv, ListingIsTrue, PairingTypeOK, Relay
<1>5. CASE RevokeMachine \/ CleanupTokens \/ TokenExpires \/ Clear
  BY <1>5 DEF RevokeMachine, CleanupTokens, TokenExpires, Clear, NoFile, Dropped, PairingInv,
     PairingTypeOK, Relay
<1>6. CASE relay' = relay
  BY <1>6 DEF Dropped
<1>7. \/ EnrollSave \/ RenewStore \/ KeysStore
      \/ RevokeMachine \/ CleanupTokens \/ TokenExpires \/ Clear
      \/ \E k \in Pollers : PollStore(k)
      \/ relay' = relay
  BY DEF PairingNext, EnrollAsk, EnrollRead, Authenticate, Approve, ExpirePairing, PollAsk,
     PollAnswer, RenewAsk, RenewAnswer, KeysAsk, KeysAnswer, RevokePhone, GiveUp
<1> QED
  BY <1>1, <1>2, <1>3, <1>4, <1>5, <1>6, <1>7

\* No phone that is paired is dropped from relay.json, although every request
\* reads it, is answered and writes it again in separate steps.
THEOREM TrustIsKeptHolds == PairingSpec => TrustIsKept
<1>1. PairingInv /\ [PairingNext]_pairingVars => [Dropped]_pairingVars
  BY StepKeepsTrust
<1> QED
  BY <1>1, PairingInvariant, PTL DEF PairingSpec, TrustIsKept, Dropped
=============================================================================
