---------------------------- MODULE EmailDelivery ----------------------------
(* The mails that bring one signer the link to sign with: the invitation and
   the reminders, each with a link (signer_invitations) and a message
   (email_messages) of its own; the EMAIL_SEND job that hands a message to the
   provider; and the provider's events, which arrive in any order.            *)
EXTENDS Naturals

CONSTANTS
    Message,
    Invitation,    \* the first message; the others are reminders
    Sender,        \* running executions of handleEmailSend
    NoMessage,
    MaxEvents,     \* bound: events of the provider
    MaxResends     \* bound: jobs run again after an error or a lost worker

ASSUME EmailAssumption ==
    /\ Invitation \in Message /\ NoMessage \notin Message
    /\ MaxEvents \in Nat /\ MaxResends \in Nat

VARIABLES
    link,         \* signer_invitations: none, live or revoked
    mail,         \* email_messages.status, or none
    identified,   \* provider_message_id is recorded
    job,          \* the EMAIL_SEND job: absent, queued or over
    sender,       \* the message an execution is at
    mailed,       \* the provider has taken the message, under its idempotency key
    reminding,    \* reminders between their revoking statement and the commit
    seen,         \* the links this statement found live
    onTheWay,     \* provider events not yet received
    processed,    \* and those recorded in email_provider_events
    sentEvents,   \* how many the provider has made
    hardBounced, complained, \* columns of the signer
    resends

emailVars == <<link, mail, identified, job, sender, mailed, reminding, seen, onTheWay,
               processed, sentEvents, hardBounced, complained, resends>>

MailEvent == {"accepted", "delivered", "delayed", "bounced", "complained", "failed"}
MailStatus == {"none", "queued", "cancelled"} \cup MailEvent

EmailInit ==
    /\ link = [m \in Message |-> IF m = Invitation THEN "live" ELSE "none"]
    /\ mail = [m \in Message |-> IF m = Invitation THEN "queued" ELSE "none"]
    /\ identified = [m \in Message |-> FALSE]
    /\ job = [m \in Message |-> IF m = Invitation THEN "queued" ELSE "absent"]
    /\ sender = [s \in Sender |-> NoMessage]
    /\ mailed = [m \in Message |-> FALSE]
    /\ reminding = {}
    /\ seen = [m \in Message |-> {}]
    /\ onTheWay = [m \in Message |-> {}]
    /\ processed = [m \in Message |-> {}]
    /\ sentEvents = 0
    /\ hardBounced = FALSE
    /\ complained = FALSE
    /\ resends = 0

links == <<link, reminding, seen>>
provider == <<mailed, onTheWay, sentEvents>>
messages == <<mail, identified, job>>
signer == <<hardBounced, complained>>

-----------------------------------------------------------------------------
Live == {m \in Message : link[m] = "live"}

MayRemind(m) == link[m] = "none" /\ m \notin reminding /\ ~hardBounced /\ ~complained

(* Mutant: the revocation is committed before the new link is there. *)
RevokeLinksFirst(m) ==
    /\ MayRemind(m)
    /\ reminding' = reminding \cup {m}
    /\ seen' = [seen EXCEPT ![m] = Live]
    /\ link' = [n \in Message |-> IF n \in Live THEN "revoked" ELSE link[n]]
    /\ UNCHANGED <<messages, sender, provider, processed, signer, resends>>

(* REMINDER_SEND reads the signers it may remind and revokes the links they
   have, in one transaction with all that follows.                            *)
RevokeLinks(m) ==
    /\ MayRemind(m)
    /\ reminding' = reminding \cup {m}
    /\ seen' = [seen EXCEPT ![m] = Live]
    /\ UNCHANGED <<link, messages, sender, provider, processed, signer, resends>>

(* The commit.  Another reminder that found the same rows has waited for them
   and sees them revoked; of the link made here it knows nothing, so that two
   links may be live.                                                         *)
CommitReminder(m) ==
    /\ m \in reminding
    /\ reminding' = reminding \ {m}
    /\ seen' = [seen EXCEPT ![m] = {}]
    /\ link' = [n \in Message |->
                   IF n = m THEN "live" ELSE IF n \in seen[m] THEN "revoked" ELSE link[n]]
    /\ mail' = [mail EXCEPT ![m] = "queued"]
    /\ job' = [job EXCEPT ![m] = "queued"]
    /\ UNCHANGED <<identified, sender, provider, processed, signer, resends>>

-----------------------------------------------------------------------------
(* The statuses with which the handler has nothing to do: neither failed nor
   delayed is among them.                                                     *)
NothingToSend == {"accepted", "delivered", "bounced", "complained", "cancelled"}

LoadMessage(s, m) ==
    /\ sender[s] = NoMessage
    /\ \/ job[m] = "queued" /\ UNCHANGED resends
       \/ job[m] = "running" /\ resends < MaxResends /\ resends' = resends + 1
    /\ IF mail[m] \in NothingToSend
       THEN job' = [job EXCEPT ![m] = "over"] /\ UNCHANGED sender
       ELSE job' = [job EXCEPT ![m] = "running"] /\ sender' = [sender EXCEPT ![s] = m]
    /\ UNCHANGED <<links, mail, identified, provider, processed, signer>>

(* The provider takes the message, one mail for each key; the worker may be lost
   before it records that, and the job is run again.                          *)
RecordAccepted(m) ==
    /\ mailed' = [mailed EXCEPT ![m] = TRUE]
    /\ mail' = [mail EXCEPT ![m] = "accepted"]
    /\ identified' = [identified EXCEPT ![m] = TRUE]
    /\ job' = [job EXCEPT ![m] = "over"]

SendAccepted(s) ==
    /\ sender[s] # NoMessage
    /\ RecordAccepted(sender[s])
    /\ sender' = [sender EXCEPT ![s] = NoMessage]
    /\ UNCHANGED <<links, onTheWay, processed, sentEvents, signer, resends>>

SendUnrecorded(s) ==
    /\ sender[s] # NoMessage /\ resends < MaxResends
    /\ resends' = resends + 1
    /\ \E taken \in BOOLEAN : mailed' = [mailed EXCEPT ![sender[s]] = @ \/ taken]
    /\ job' = [job EXCEPT ![sender[s]] = IF @ = "running" THEN "queued" ELSE @]
    /\ sender' = [sender EXCEPT ![s] = NoMessage]
    /\ UNCHANGED <<links, mail, identified, onTheWay, processed, sentEvents, signer>>

(* An EmailProviderError that is not retryable. *)
SendRefused(s) ==
    /\ sender[s] # NoMessage
    /\ mail' = [mail EXCEPT ![sender[s]] = "failed"]
    /\ job' = [job EXCEPT ![sender[s]] = "over"]
    /\ sender' = [sender EXCEPT ![s] = NoMessage]
    /\ UNCHANGED <<links, identified, provider, processed, signer, resends>>

-----------------------------------------------------------------------------
(* External: the provider reports what became of a mail it took. *)
ProviderReports(m, event) ==
    /\ mailed[m] /\ sentEvents < MaxEvents
    /\ sentEvents' = sentEvents + 1
    /\ onTheWay' = [onTheWay EXCEPT ![m] = @ \cup {event}]
    /\ UNCHANGED <<links, messages, sender, mailed, processed, signer, resends>>

(* Mutant: an event about a message that is delivered is taken for a late one. *)
LateEvent(m) == mail[m] = "delivered"
HandleEventUnlessLate(m, event) ==
    /\ event \in onTheWay[m] /\ identified[m]
    /\ onTheWay' = [onTheWay EXCEPT ![m] = @ \ {event}]
    /\ processed' = [processed EXCEPT ![m] = @ \cup {event}]
    /\ mail' = [mail EXCEPT ![m] = IF LateEvent(m) THEN @ ELSE event]
    /\ hardBounced' = (hardBounced \/ (event = "bounced" /\ ~LateEvent(m)))
    /\ complained' = (complained \/ (event = "complained" /\ ~LateEvent(m)))
    /\ UNCHANGED <<links, identified, job, sender, mailed, sentEvents, resends>>

(* The resend webhook: an event about a message whose provider id is not yet
   recorded is refused and comes again; one seen before changes nothing.      *)
HandleEvent(m, event) ==
    /\ event \in onTheWay[m] /\ identified[m]
    /\ onTheWay' = [onTheWay EXCEPT ![m] = @ \ {event}]
    /\ processed' = [processed EXCEPT ![m] = @ \cup {event}]
    /\ mail' = [mail EXCEPT ![m] = event]
    /\ hardBounced' = (hardBounced \/ event = "bounced")
    /\ complained' = (complained \/ event = "complained")
    /\ UNCHANGED <<links, identified, job, sender, mailed, sentEvents, resends>>

EmailNext ==
    \/ \E m \in Message :
          \/ RevokeLinks(m) \/ CommitReminder(m)
          \/ \E event \in MailEvent : ProviderReports(m, event) \/ HandleEvent(m, event)
    \/ \E s \in Sender :
          \/ \E m \in Message : LoadMessage(s, m)
          \/ SendAccepted(s) \/ SendUnrecorded(s) \/ SendRefused(s)

EmailSpec == EmailInit /\ [][EmailNext]_emailVars

-----------------------------------------------------------------------------
EmailTypeOK ==
    /\ link \in [Message -> {"none", "live", "revoked"}]
    /\ mail \in [Message -> MailStatus]
    /\ identified \in [Message -> BOOLEAN]
    /\ job \in [Message -> {"absent", "queued", "running", "over"}]
    /\ sender \in [Sender -> Message \cup {NoMessage}]
    /\ mailed \in [Message -> BOOLEAN]
    /\ reminding \subseteq Message \ {Invitation}
    /\ seen \in [Message -> SUBSET Message]
    /\ onTheWay \in [Message -> SUBSET MailEvent]
    /\ processed \in [Message -> SUBSET MailEvent]
    /\ sentEvents \in 0..MaxEvents
    /\ hardBounced \in BOOLEAN /\ complained \in BOOLEAN
    /\ resends \in 0..MaxResends

(* A bounce or a complaint that was received is known of the signer for good,
   whatever else is received about the message, before or after: the status of
   the message is overwritten by every event, the signer's columns are what
   reminders ask for.                                                         *)
BounceReachesSigner ==
    \A m \in Message :
        /\ "bounced" \in processed[m] => hardBounced
        /\ "complained" \in processed[m] => complained

(* Reminders replace the link of a signer.  However they overlap, the signer is
   never left without one that works.                                         *)
NeverWithoutLink == \E m \in Message : link[m] = "live"
=============================================================================
