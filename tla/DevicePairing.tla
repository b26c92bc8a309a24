---------------------------- MODULE DevicePairing ----------------------------
(***************************************************************************)
(* How a machine is paired with phones and stays signed in: relay.json     *)
(* (remote/relay_state.py), the requests that read it, call the server and *)
(* write it again (remote/relay_http.py, remote/relay_bridge.py), and the  *)
(* server's records of machine, phones and pairings (service.py).          *)
(*                                                                         *)
(* Every request has three steps: read the file, be answered by the        *)
(* server, store the answer.  Each access to the file is under its lock,   *)
(* but the steps of one request are not, and the daemon, its bridge and    *)
(* the command line each have a client with locks of its own.              *)
(*                                                                         *)
(* A refresh token is told by what the server would say of it: "valid",    *)
(* "revoked", or "unknown" when it expired or its row was deleted.  One    *)
(* server and one account; all phones have keys that stay the same.        *)
(***************************************************************************)
EXTENDS Naturals, Sequences

CONSTANTS
  Phones,       \* controllers that scan a pairing code
  NoPhone,      \* nobody has used the code yet
  Pollers,      \* who asks for the result of a pairing: app, command line, bridge
  MaxPairings,  \* bound: codes issued
  MaxRevoked,   \* bound: revocations, of the machine or of a phone
  MaxLost       \* bound: requests given up, or whose answer is lost

ASSUME PairingAssumption == NoPhone \notin Phones

VARIABLES
  relay,      \* relay.json, or NoFile
  machine,   \* the server's status of the machine
  phone,     \* the server's status of each phone
  pairings,  \* the server's pairings, by number; "issued" until the code is shown
  enroller,  \* a request for a new code
  poller,    \* the polls under way
  renewer,   \* a renewal of the session under way
  keys,      \* the bridge's comparison of its trusted phones with the server's list
  revoked,   \* revocations so far
  lost       \* requests lost so far

pairingVars == <<relay, machine, phone, pairings, enroller, poller, renewer, keys, revoked, lost>>
Server == <<machine, phone, pairings>>
Counters == <<revoked, lost>>

\* pairing: the code that waits to be used, 0 if none; paired: user_id is set.
NoFile == [present |-> FALSE, pairing |-> 0, paired |-> FALSE, token |-> "unknown", trusted |-> {}]

Enrolling == [pc |-> "idle", pairing |-> 0, previous |-> NoFile]
Polling == [pc |-> "idle", pairing |-> 0, phone |-> NoPhone, token |-> "unknown"]
Renewing == [pc |-> "idle", pairing |-> 0, token |-> "unknown"]
\* returned is history: phones active again since the trusted ones were read.
Listing == [pc |-> "idle", expected |-> {}, observed |-> {}, returned |-> {}]

PairingInit ==
  /\ relay = NoFile /\ machine = "unregistered" /\ phone = [p \in Phones |-> "new"]
  /\ pairings = <<>>
  /\ enroller = Enrolling /\ poller = [k \in Pollers |-> Polling]
  /\ renewer = Renewing /\ keys = Listing
  /\ revoked = 0 /\ lost = 0

Tokens == {"valid", "revoked", "unknown"}
Relay == [present : BOOLEAN, pairing : Nat, paired : BOOLEAN, token : Tokens,
          trusted : SUBSET Phones]
Pairing == [status : {"issued", "pending", "authorized", "approved", "claimed", "expired"},
            by : Phones \cup {NoPhone}]
Poll == [pc : {"idle", "asked", "answered"}, pairing : Nat, phone : Phones \cup {NoPhone},
         token : Tokens]
Enrolment == [pc : {"idle", "issued", "read"}, pairing : Nat, previous : Relay]
Renewal == [pc : {"idle", "asked", "answered"}, pairing : Nat, token : Tokens]
Comparison == [pc : {"idle", "asked", "answered"}, expected : SUBSET Phones,
               observed : SUBSET Phones, returned : SUBSET Phones]

PairingTypeOK ==
  /\ relay \in Relay
  /\ machine \in {"unregistered", "pairing", "active", "revoked"}
  /\ phone \in [Phones -> {"new", "active", "revoked"}]
  /\ pairings \in Seq(Pairing)
  /\ enroller \in Enrolment
  /\ poller \in [Pollers -> Poll]
  /\ renewer \in Renewal
  /\ keys \in Comparison
  /\ {revoked, lost} \subseteq Nat

-----------------------------------------------------------------------------
(* A new code: _enroll of relay_http.py and enroll_mac of service.py.       *)

\* The server registers the machine, or lets a revoked one try again, and
\* issues a pairing.
EnrollAsk ==
  /\ enroller.pc = "idle" /\ Len(pairings) < MaxPairings
  /\ machine' = IF machine = "active" THEN "active" ELSE "pairing"
  /\ pairings' = Append(pairings, [status |-> "issued", by |-> NoPhone])
  /\ enroller' = [enroller EXCEPT !.pc = "issued", !.pairing = Len(pairings) + 1]
  /\ UNCHANGED <<relay, phone, poller, renewer, keys, Counters>>

\* previous = self.store.load()
EnrollRead ==
  /\ enroller.pc = "issued"
  /\ enroller' = [enroller EXCEPT !.pc = "read", !.previous = relay]
  /\ UNCHANGED <<relay, Server, poller, renewer, keys, Counters>>

\* self.store.save(state): the new code, and all else as it was read.
EnrollSave ==
  /\ enroller.pc = "read"
  /\ relay' = [enroller.previous EXCEPT !.present = TRUE, !.pairing = enroller.pairing]
  /\ pairings' = [pairings EXCEPT ![enroller.pairing].status = "pending"]
  /\ enroller' = Enrolling
  /\ UNCHANGED <<machine, phone, poller, renewer, keys, Counters>>

-----------------------------------------------------------------------------
(* The phone: authenticate_android and approve of service.py.               *)

\* The code lets this phone in: it is the first, or comes again.
LetsIn(n, p) ==
  \/ pairings[n].status = "pending"
  \/ pairings[n].status = "authorized" /\ pairings[n].by = p

\* A phone that scanned the code is given a session.
Authenticate(n, p) ==
  /\ LetsIn(n, p) /\ machine \in {"pairing", "active"}
  /\ pairings' = [pairings EXCEPT ![n] = [status |-> "authorized", by |-> p]]
  /\ phone' = [phone EXCEPT ![p] = "active"]
  /\ keys' = IF keys.pc = "idle" \/ phone[p] = "active" THEN keys
             ELSE [keys EXCEPT !.returned = @ \cup {p}]
  /\ UNCHANGED <<relay, machine, enroller, poller, renewer, Counters>>

\* The phone approves with the proof that it read the code.
Approve(n, p) ==
  /\ LetsIn(n, p) /\ phone[p] = "active"
  /\ pairings' = [pairings EXCEPT ![n] = [status |-> "approved", by |-> p]]
  /\ machine' = "active"
  /\ UNCHANGED <<relay, phone, enroller, poller, renewer, keys, Counters>>

\* Five minutes have passed since the code was issued.
ExpirePairing(n) ==
  /\ pairings[n].status \in {"pending", "authorized", "approved", "claimed"}
  /\ pairings' = [pairings EXCEPT ![n].status = "expired"]
  /\ UNCHANGED <<relay, machine, phone, enroller, poller, renewer, keys, Counters>>

-----------------------------------------------------------------------------
(* The result of a pairing: poll_pairing of relay_http.py, poll of          *)
(* service.py, trust_device_and_update_tokens of relay_state.py.            *)

PollAsk(k) ==
  /\ poller[k].pc = "idle" /\ relay.pairing # 0
  /\ poller' = [poller EXCEPT ![k].pc = "asked", ![k].pairing = relay.pairing]
  /\ UNCHANGED <<relay, Server, enroller, renewer, keys, Counters>>

\* Mutant: a pairing is claimed once.
ClaimableOnce(n) ==
  pairings[n].status = "approved" /\ machine = "active" /\ phone[pairings[n].by] = "active"

\* The server has a session for the machine, also when the pairing is claimed
\* already.
Claimable(n) ==
  /\ pairings[n].status \in {"approved", "claimed"}
  /\ machine = "active" /\ phone[pairings[n].by] = "active"

\* In any other state of the pairing there is nothing to store.
PollAnswer(k) ==
  /\ poller[k].pc = "asked"
  /\ LET n == poller[k].pairing IN
     IF Claimable(n)
     THEN /\ pairings' = [pairings EXCEPT ![n].status = "claimed"]
          /\ poller' = [poller EXCEPT ![k] = [@ EXCEPT !.pc = "answered", !.token = "valid",
                                                       !.phone = pairings[n].by]]
     ELSE poller' = [poller EXCEPT ![k] = Polling] /\ UNCHANGED pairings
  /\ UNCHANGED <<relay, machine, phone, enroller, renewer, keys, Counters>>

\* Only if the file still waits for this pairing.
PollStore(k) ==
  /\ poller[k].pc = "answered"
  /\ relay' = IF relay.pairing = poller[k].pairing
             THEN [relay EXCEPT !.pairing = 0, !.paired = TRUE, !.token = poller[k].token,
                               !.trusted = @ \cup {poller[k].phone}]
             ELSE relay
  /\ poller' = [poller EXCEPT ![k] = Polling]
  /\ UNCHANGED <<Server, enroller, renewer, keys, Counters>>

-----------------------------------------------------------------------------
(* The session: ensure_access_token and _device_login of relay_http.py,     *)
(* refresh, device_challenge and authenticate_device of service.py,         *)
(* update_tokens of relay_state.py.                                         *)

\* When the access token is about to expire, or was refused.
RenewAsk ==
  /\ renewer.pc = "idle" /\ relay.paired
  /\ renewer' = [pc |-> "asked", pairing |-> relay.pairing, token |-> relay.token]
  /\ UNCHANGED <<relay, Server, enroller, poller, keys, Counters>>

\* Mutant: a token the server does not know is treated like a revoked one.
RenewAnswerByTokenOnly ==
  /\ renewer.pc = "asked"
  /\ renewer' = IF machine = "active" /\ renewer.token = "valid"
                THEN [renewer EXCEPT !.pc = "answered"] ELSE Renewing
  /\ UNCHANGED <<relay, Server, enroller, poller, keys, Counters>>

\* A valid refresh token is kept; one that the server does not know is replaced
\* by signing in with the device key; a revoked one is not.
RenewAnswer ==
  /\ renewer.pc = "asked"
  /\ renewer' = IF machine = "active" /\ renewer.token # "revoked"
                THEN [renewer EXCEPT !.pc = "answered", !.token = "valid"] ELSE Renewing
  /\ UNCHANGED <<relay, Server, enroller, poller, keys, Counters>>

\* Only if the pairing is the one that was read, and the account; what was
\* stored of a pairing that waits is removed.
RenewStore ==
  /\ renewer.pc = "answered"
  /\ relay' = IF relay.paired /\ relay.pairing = renewer.pairing
             THEN [relay EXCEPT !.token = renewer.token, !.pairing = 0] ELSE relay
  /\ renewer' = Renewing
  /\ UNCHANGED <<Server, enroller, poller, keys, Counters>>

-----------------------------------------------------------------------------
(* The trusted phones: _refresh_device_keys of relay_bridge.py and          *)
(* remove_unavailable_trusted_devices of relay_state.py.                    *)

KeysAsk ==
  /\ keys.pc = "idle" /\ relay.paired
  /\ keys' = [Listing EXCEPT !.pc = "asked", !.expected = relay.trusted]
  /\ UNCHANGED <<relay, Server, enroller, poller, renewer, Counters>>

\* The list is given to a machine that is signed in.
KeysAnswer ==
  /\ keys.pc = "asked"
  /\ keys' = IF machine = "active" /\ relay.token = "valid"
             THEN [keys EXCEPT !.pc = "answered",
                               !.observed = {p \in keys.expected : phone[p] = "active"}]
             ELSE Listing
  /\ UNCHANGED <<relay, Server, enroller, poller, renewer, Counters>>

\* Mutant: every phone that is not on the list is dropped.
KeysStoreList ==
  /\ keys.pc = "answered"
  /\ relay' = [relay EXCEPT !.trusted = @ \cap keys.observed]
  /\ keys' = Listing
  /\ UNCHANGED <<Server, enroller, poller, renewer, Counters>>

\* Drop the phones that were trusted when the comparison began and are not on
\* the list; not those that were paired since.
KeysStore ==
  /\ keys.pc = "answered"
  /\ relay' = [relay EXCEPT !.trusted = @ \ (keys.expected \ keys.observed)]
  /\ keys' = Listing
  /\ UNCHANGED <<Server, enroller, poller, renewer, Counters>>

-----------------------------------------------------------------------------
(* What ends a session or a request.                                        *)

\* revoke_device for a phone.
RevokePhone(p) ==
  /\ phone[p] = "active" /\ revoked < MaxRevoked /\ revoked' = revoked + 1
  /\ phone' = [phone EXCEPT ![p] = "revoked"]
  /\ UNCHANGED <<relay, machine, pairings, enroller, poller, renewer, keys, lost>>

Dead(token) == IF token = "valid" THEN "revoked" ELSE token

\* revoke_device for the machine, by another device or by forget: every refresh
\* token it was given is revoked, wherever it is by now.
RevokeMachine ==
  /\ machine = "active" /\ revoked < MaxRevoked /\ revoked' = revoked + 1
  /\ machine' = "revoked"
  /\ relay' = [relay EXCEPT !.token = Dead(@)]
  /\ enroller' = [enroller EXCEPT !.previous.token = Dead(@)]
  /\ poller' = [k \in Pollers |-> [poller[k] EXCEPT !.token = Dead(@)]]
  /\ renewer' = [renewer EXCEPT !.token = Dead(@)]
  /\ UNCHANGED <<phone, pairings, keys, lost>>

\* cleanup_expired deletes the rows of revoked tokens.
CleanupTokens ==
  LET gone(token) == IF token = "revoked" THEN "unknown" ELSE token IN
  /\ "revoked" \in {relay.token, enroller.previous.token, renewer.token}
                     \cup {poller[k].token : k \in Pollers}
  /\ relay' = [relay EXCEPT !.token = gone(@)]
  /\ enroller' = [enroller EXCEPT !.previous.token = gone(@)]
  /\ poller' = [k \in Pollers |-> [poller[k] EXCEPT !.token = gone(@)]]
  /\ renewer' = [renewer EXCEPT !.token = gone(@)]
  /\ UNCHANGED <<Server, keys, Counters>>

\* The machine was switched off until its refresh token expired.
TokenExpires ==
  /\ relay.token = "valid"
  /\ enroller = Enrolling /\ renewer = Renewing /\ keys = Listing
  /\ \A k \in Pollers : poller[k] = Polling
  /\ relay' = [relay EXCEPT !.token = "unknown"]
  /\ UNCHANGED <<Server, enroller, poller, renewer, keys, Counters>>

\* forget ends with store.clear, whether or not the server could be told.
Clear ==
  /\ relay.present
  /\ relay' = NoFile
  /\ UNCHANGED <<Server, enroller, poller, renewer, keys, Counters>>

\* A request times out, loses its answer, or dies with its process.
GiveUp ==
  /\ lost < MaxLost /\ lost' = lost + 1
  /\ \/ enroller.pc # "idle" /\ enroller' = Enrolling /\ UNCHANGED <<poller, renewer, keys>>
     \/ \E k \in Pollers : /\ poller[k].pc # "idle"
                           /\ poller' = [poller EXCEPT ![k] = Polling]
                           /\ UNCHANGED <<enroller, renewer, keys>>
     \/ renewer.pc # "idle" /\ renewer' = Renewing /\ UNCHANGED <<enroller, poller, keys>>
     \/ keys.pc # "idle" /\ keys' = Listing /\ UNCHANGED <<enroller, poller, renewer>>
  /\ UNCHANGED <<relay, Server, revoked>>

PairingNext ==
  \/ EnrollAsk \/ EnrollRead \/ EnrollSave
  \/ \E n \in 1..Len(pairings), p \in Phones : Authenticate(n, p) \/ Approve(n, p)
  \/ \E n \in 1..Len(pairings) : ExpirePairing(n)
  \/ \E k \in Pollers : PollAsk(k) \/ PollAnswer(k) \/ PollStore(k)
  \/ RenewAsk \/ RenewAnswer \/ RenewStore
  \/ KeysAsk \/ KeysAnswer \/ KeysStore
  \/ \E p \in Phones : RevokePhone(p)
  \/ RevokeMachine \/ CleanupTokens \/ TokenExpires \/ Clear \/ GiveUp

\* The app polls while it shows a code, and so does the bridge when a phone
\* asks something; the maintainer looks at the session every minute; the server
\* cleans up every hour; and a request, once made, is carried on.
PairingFairness ==
  /\ \A k \in Pollers : WF_pairingVars(PollAsk(k)) /\ WF_pairingVars(PollAnswer(k) \/ PollStore(k))
  /\ WF_pairingVars(RenewAsk) /\ WF_pairingVars(RenewAnswer \/ RenewStore)
  /\ WF_pairingVars(CleanupTokens)

PairingSpec == PairingInit /\ [][PairingNext]_pairingVars

-----------------------------------------------------------------------------
(* Properties.                                                              *)

\* An approved pairing that the machine waits for is settled, although answers
\* are lost and several clients poll (service.py: "the response may have
\* reached the network while the client crashed ... before persisting it").
Awaited(n) ==
  /\ n <= Len(pairings) /\ relay.pairing = n /\ machine = "active"
  /\ pairings[n].status \in {"approved", "claimed"} /\ phone[pairings[n].by] = "active"
ApprovalSettles == \A n \in 1..MaxPairings : Awaited(n) ~> ~Awaited(n)

\* Whatever mixture of old and new the requests leave in the file, a machine
\* that the server holds active is signed in again without a new pairing.
SignInRecovers ==
  (relay.paired /\ machine = "active" /\ relay.token # "valid")
    ~> (~relay.paired \/ machine # "active" \/ relay.token = "valid")

\* The phones are lost with the file, or by a code that was saved over a later
\* state; else only a phone that was revoked is dropped.  (The one exception in
\* the code: a phone paired again with its old key while the list was read.)
Overwritten == enroller.pc = "read" /\ enroller' = Enrolling /\ enroller.previous # relay
TrustIsKept ==
  [][\A p \in relay.trusted \ relay'.trusted :
       ~relay'.present \/ phone[p] # "active" \/ p \in keys.returned \/ Overwritten]_pairingVars

\* The same from the states in between: a code that was used says by whom, nothing
\* speaks of a code that was not issued, an answer to a poll names a phone, and a
\* phone about to be dropped is not paired, or only since the list was asked for.
CodesAreIssued ==
  /\ {relay.pairing, enroller.pairing, enroller.previous.pairing} \subseteq 0..Len(pairings)
  /\ enroller.pc # "idle" => enroller.pairing # 0
  /\ \A k \in Pollers : poller[k].pc # "idle" => poller[k].pairing \in 1..Len(pairings)
UsersAreKnown ==
  /\ \A n \in 1..Len(pairings) :
       pairings[n].status \in {"authorized", "approved", "claimed"} => pairings[n].by \in Phones
  /\ \A k \in Pollers : poller[k].pc = "answered" => poller[k].phone \in Phones
ListingIsTrue ==
  keys.pc = "answered" =>
    \A p \in keys.expected \ keys.observed : phone[p] # "active" \/ p \in keys.returned
PairingInv == PairingTypeOK /\ CodesAreIssued /\ UsersAreKnown /\ ListingIsTrue

\* A statement of the code (service.py: "Polling is retryable until the
\* short-lived pairing expires"): the machine can ask for the result of the code
\* it shows until it has it, unless the code expired or was replaced.
PollableUntilExpiry ==
  [][\A n \in 1..Len(pairings) :
       relay.pairing = n /\ pairings[n].status # "expired" /\ relay'.pairing # n =>
         ~relay'.present \/ relay'.pairing # 0 \/ pairings[n].by \in relay'.trusted]_pairingVars
=============================================================================
