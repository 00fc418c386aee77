--------------------------- MODULE WebhookDelivery ---------------------------
(* One event of the outbox on its way to the tenant's webhook endpoints.  The
   insert of the event enqueues a WEBHOOK_DELIVER job in the same transaction;
   the handler goes through the endpoints one by one, with a transaction before
   and one after each request.  A job is claimed again when its lease ran out,
   so two handlers may be in one job, and an operator may replay a delivery,
   which makes another job for the same event.  A handler that throws between
   the two transactions leaves the delivery where the first one put it.       *)
EXTENDS Naturals, FiniteSets

CONSTANTS
    Endpoint,
    WebhookJob,
    Dispatch,        \* the job of the event's insert; the others are replays
    Handler,         \* running executions of handleWebhookDeliver
    Nobody,
    WebhookAttempts, \* maximum_attempts
    MaxTrouble       \* bound: leases that run out, and handlers, answers and transactions lost

ASSUME WebhookAssumption ==
    /\ Dispatch \in WebhookJob /\ Nobody \notin Endpoint \cup WebhookJob
    /\ WebhookAttempts \in Nat \ {0} /\ MaxTrouble \in Nat

VARIABLES
    registered,  \* webhook_endpoints that subscribe to the event's type
    occurred,    \* the event is in the outbox
    delivery,    \* webhook_deliveries.status
    published,   \* outbox_events.published_at is set
    accepted,    \* how often an endpoint answered 2xx
    queue, tries, \* the rows of the jobs
    handling, attempt, todo, at, answer, outstanding, \* the handlers' locals
    unsigned,    \* job -> the endpoint at which its latest attempt could not sign the event
    trouble

handlers == <<handling, attempt, todo, at, answer, outstanding>>
webhookVars ==
    <<registered, occurred, delivery, published, accepted, queue, tries, handlers, unsigned, trouble>>

DeliveryStatus == {"none", "pending", "delivering", "delivered", "failed", "dead_letter"}
Terminal == {"delivered", "dead_letter"}
Answer == {"none", "accepted", "rejected"}

WebhookInit ==
    /\ registered = {}
    /\ occurred = FALSE
    /\ delivery = [e \in Endpoint |-> "none"]
    /\ published = FALSE
    /\ accepted = [e \in Endpoint |-> 0]
    /\ queue = [j \in WebhookJob |-> "absent"]
    /\ tries = [j \in WebhookJob |-> 0]
    /\ handling = [h \in Handler |-> Nobody]
    /\ attempt = [h \in Handler |-> 0]
    /\ todo = [h \in Handler |-> {}]
    /\ at = [h \in Handler |-> Nobody]
    /\ answer = [h \in Handler |-> "none"]
    /\ outstanding = [h \in Handler |-> FALSE]
    /\ unsigned = [j \in WebhookJob |-> Nobody]
    /\ trouble = 0

(* assert_webhook_delivery_transition: what a status may become. *)
DeliveryMay(old, new) ==
    \/ old = new
    \/ old = "pending" /\ new \in {"delivering", "failed", "dead_letter"}
    \/ old = "delivering" /\ new \in {"delivered", "failed", "dead_letter"}
    \/ old = "failed" /\ new \in {"pending", "delivering", "dead_letter"}
    \/ old = "dead_letter" /\ new = "pending"

CreateEndpoint(e) ==
    /\ e \notin registered
    /\ registered' = registered \cup {e}
    /\ UNCHANGED <<occurred, delivery, published, accepted, queue, tries, handlers, unsigned, trouble>>

(* The trigger on the outbox: no job when nobody subscribes. *)
EventOccurs ==
    /\ ~occurred
    /\ occurred' = TRUE
    /\ queue' = [queue EXCEPT ![Dispatch] = IF registered = {} THEN "absent" ELSE "ready"]
    /\ UNCHANGED <<registered, delivery, published, accepted, tries, handlers, unsigned, trouble>>

(* replayDelivery: a new job, whatever becomes of the others. *)
ReplayDelivery(j, e) ==
    /\ j # Dispatch /\ queue[j] = "absent"
    /\ delivery[e] \notin {"none", "delivered"} /\ DeliveryMay(delivery[e], "pending")
    /\ delivery' = [delivery EXCEPT ![e] = "pending"]
    /\ queue' = [queue EXCEPT ![j] = "ready"]
    /\ UNCHANGED <<registered, occurred, published, accepted, tries, handlers, unsigned, trouble>>

-----------------------------------------------------------------------------
(* The job is claimed, or claimed again while another handler is still in it,
   and the handler loads the endpoints.                                       *)
LoadEndpoints(h, j) ==
    /\ handling[h] = Nobody /\ tries[j] < WebhookAttempts
    /\ \/ queue[j] = "ready" /\ UNCHANGED trouble
       \/ queue[j] = "running" /\ trouble < MaxTrouble /\ trouble' = trouble + 1
    /\ queue' = [queue EXCEPT ![j] = "running"]
    /\ tries' = [tries EXCEPT ![j] = @ + 1]
    /\ handling' = [handling EXCEPT ![h] = j]
    /\ attempt' = [attempt EXCEPT ![h] = tries'[j]]
    /\ todo' = [todo EXCEPT ![h] = registered]
    /\ outstanding' = [outstanding EXCEPT ![h] = FALSE]
    /\ unsigned' = [unsigned EXCEPT ![j] = Nobody]
    /\ UNCHANGED <<registered, occurred, delivery, published, accepted, at, answer>>

(* Mutant: what was delivered or given up is delivered again. *)
ClaimDeliveryAgain(h, e) ==
    /\ handling[h] # Nobody /\ at[h] = Nobody /\ e \in todo[h]
    /\ todo' = [todo EXCEPT ![h] = @ \ {e}]
    /\ delivery' = [delivery EXCEPT ![e] = IF @ \in Terminal THEN @ ELSE "delivering"]
    /\ at' = [at EXCEPT ![h] = e]
    /\ UNCHANGED <<registered, occurred, published, accepted, queue, tries,
                   handling, attempt, answer, outstanding, unsigned, trouble>>

(* claimDelivery locks the row, also when it has just inserted it. *)
ClaimDelivery(h, e) ==
    /\ handling[h] # Nobody /\ at[h] = Nobody /\ e \in todo[h]
    /\ todo' = [todo EXCEPT ![h] = @ \ {e}]
    /\ IF delivery[e] \in Terminal
       THEN UNCHANGED <<delivery, at>>
       ELSE /\ delivery' = [delivery EXCEPT ![e] = "delivering"]
            /\ at' = [at EXCEPT ![h] = e]
    /\ UNCHANGED <<registered, occurred, published, accepted, queue, tries,
                   handling, attempt, answer, outstanding, unsigned, trouble>>

(* The request.  The endpoint may accept an event whose answer is lost: the
   transport failed, or the answer came after the timeout.                    *)
Deliver(h) ==
    /\ at[h] # Nobody /\ answer[h] = "none"
    /\ \/ /\ answer' = [answer EXCEPT ![h] = "accepted"]
          /\ accepted' = [accepted EXCEPT ![at[h]] = @ + 1]
          /\ UNCHANGED trouble
       \/ /\ answer' = [answer EXCEPT ![h] = "rejected"]
          /\ UNCHANGED <<accepted, trouble>>
       \/ /\ answer' = [answer EXCEPT ![h] = "rejected"]
          /\ trouble < MaxTrouble /\ trouble' = trouble + 1
          /\ accepted' = [accepted EXCEPT ![at[h]] = @ + 1]
    /\ UNCHANGED <<registered, occurred, delivery, published, queue, tries,
                   handling, attempt, todo, at, outstanding, unsigned>>

(* Mutant: the last attempt is taken for one that is followed by another. *)
FinalAttemptTooLate(h) == attempt[h] > WebhookAttempts

FinalAttempt(h) == attempt[h] >= WebhookAttempts

Outcome(h) ==
    IF answer[h] = "accepted" THEN "delivered"
    ELSE IF FinalAttempt(h) THEN "dead_letter" ELSE "failed"

(* recordDelivered, recordDeadLetter and recordFailure. *)
RecordOutcome(h) ==
    /\ answer[h] # "none" /\ DeliveryMay(delivery[at[h]], Outcome(h))
    /\ delivery' = [delivery EXCEPT ![at[h]] = Outcome(h)]
    /\ outstanding' = [outstanding EXCEPT ![h] = @ \/ Outcome(h) = "failed"]
    /\ at' = [at EXCEPT ![h] = Nobody]
    /\ answer' = [answer EXCEPT ![h] = "none"]
    /\ UNCHANGED <<registered, occurred, published, accepted, queue, tries,
                   handling, attempt, todo, unsigned, trouble>>

Leave(h) ==
    /\ handling' = [handling EXCEPT ![h] = Nobody]
    /\ attempt' = [attempt EXCEPT ![h] = 0]
    /\ todo' = [todo EXCEPT ![h] = {}]
    /\ at' = [at EXCEPT ![h] = Nobody]
    /\ answer' = [answer EXCEPT ![h] = "none"]
    /\ outstanding' = [outstanding EXCEPT ![h] = FALSE]

(* The runtime settles a job for the attempt that still owns it. *)
Settled(h, to) ==
    LET j == handling[h] IN
    queue' = [queue EXCEPT ![j] = IF @ = "running" /\ attempt[h] = tries[j] THEN to ELSE @]

(* The handler leaves with an error: the job is tried again, or dead. *)
Throws(h) ==
    /\ Settled(h, IF attempt[h] >= WebhookAttempts THEN "dead" ELSE "ready")
    /\ Leave(h)

(* Deliveries are outstanding, or the triggers refuse an outcome because the
   other handler recorded its own.                                            *)
HandlerThrows(h) ==
    /\ handling[h] # Nobody
    /\ \/ at[h] = Nobody /\ todo[h] = {} /\ outstanding[h]
       \/ answer[h] # "none" /\ ~DeliveryMay(delivery[at[h]], Outcome(h))
    /\ Throws(h)
    /\ UNCHANGED <<registered, occurred, delivery, published, accepted, tries, unsigned, trouble>>

(* The secret of the endpoint cannot be decrypted, or the event not signed: the
   delivery is 'delivering' already, and nothing else is recorded of it.      *)
SigningThrows(h) ==
    /\ handling[h] # Nobody /\ at[h] # Nobody /\ answer[h] = "none"
    /\ unsigned' = [unsigned EXCEPT ![handling[h]] = at[h]]
    /\ Throws(h)
    /\ UNCHANGED <<registered, occurred, delivery, published, accepted, tries, trouble>>

(* A transaction of the handler fails, be it the claim of a delivery, the record
   of its outcome or the publication.                                         *)
TransactionFails(h) ==
    /\ handling[h] # Nobody /\ (at[h] = Nobody \/ answer[h] # "none")
    /\ trouble < MaxTrouble /\ trouble' = trouble + 1
    /\ Throws(h)
    /\ UNCHANGED <<registered, occurred, delivery, published, accepted, tries, unsigned>>

(* markPublished asks for the rows of all handlers. *)
NothingOutstanding == \A e \in Endpoint : delivery[e] \notin {"pending", "delivering", "failed"}

MarkPublished(h) ==
    /\ handling[h] # Nobody /\ at[h] = Nobody /\ todo[h] = {} /\ ~outstanding[h]
    /\ published' = (published \/ NothingOutstanding)
    /\ Settled(h, "done")
    /\ Leave(h)
    /\ UNCHANGED <<registered, occurred, delivery, accepted, tries, unsigned, trouble>>

(* The worker is lost with its handler. *)
HandlerLost(h) ==
    /\ handling[h] # Nobody /\ trouble < MaxTrouble
    /\ trouble' = trouble + 1
    /\ Settled(h, IF attempt[h] >= WebhookAttempts THEN "stranded" ELSE "ready")
    /\ Leave(h)
    /\ UNCHANGED <<registered, occurred, delivery, published, accepted, tries, unsigned>>

HandlerStep(h) ==
    \/ \E e \in Endpoint : ClaimDelivery(h, e)
    \/ Deliver(h) \/ RecordOutcome(h) \/ MarkPublished(h)
    \/ HandlerThrows(h) \/ SigningThrows(h) \/ TransactionFails(h)

WebhookNext ==
    \/ EventOccurs
    \/ \E e \in Endpoint : CreateEndpoint(e) \/ \E j \in WebhookJob : ReplayDelivery(j, e)
    \/ \E h \in Handler :
          HandlerStep(h) \/ HandlerLost(h) \/ \E j \in WebhookJob : LoadEndpoints(h, j)

WebhookSpec == WebhookInit /\ [][WebhookNext]_webhookVars

-----------------------------------------------------------------------------
WebhookTypeOK ==
    /\ registered \subseteq Endpoint
    /\ occurred \in BOOLEAN /\ published \in BOOLEAN
    /\ delivery \in [Endpoint -> DeliveryStatus]
    /\ accepted \in [Endpoint -> Nat]
    /\ queue \in [WebhookJob -> {"absent", "ready", "running", "done", "dead", "stranded"}]
    /\ tries \in [WebhookJob -> 0..WebhookAttempts]
    /\ handling \in [Handler -> WebhookJob \cup {Nobody}]
    /\ attempt \in [Handler -> 0..WebhookAttempts]
    /\ todo \in [Handler -> SUBSET Endpoint]
    /\ at \in [Handler -> Endpoint \cup {Nobody}]
    /\ answer \in [Handler -> Answer]
    /\ outstanding \in [Handler -> BOOLEAN]
    /\ unsigned \in [WebhookJob -> Endpoint \cup {Nobody}]
    /\ trouble \in 0..MaxTrouble

Replays == {j \in WebhookJob \ {Dispatch} : queue[j] # "absent"}

(* A retry for one failing endpoint does not send again to those that accepted
   (claimDelivery), also when the attempt ended at an endpoint whose secret could
   not be read: a subscriber gets an event twice only when a lease, a worker, an
   answer or a transaction was lost, or when an operator asked for it.        *)
AcceptedOnce == trouble = 0 /\ Replays = {} => \A e \in Endpoint : accepted[e] <= 1

(* The last attempt leaves an accurate record: once the job of the event has
   ended, each delivery it began is delivered or given up and the event is
   published, unless that attempt ended at an endpoint for which the event could
   not be signed, unless a lease, a worker, an answer or a transaction was lost,
   and unless a replay is responsible for it.                                 *)
EndedIsAccounted ==
    queue[Dispatch] \in {"done", "dead"} /\ unsigned[Dispatch] = Nobody /\ trouble = 0 /\ Replays = {} =>
        /\ published
        /\ \A e \in Endpoint : delivery[e] \in Terminal \cup {"none"}

(* published_at means that nobody is trying any more (markPublished): it is set
   only when every delivery begun so far is over, whoever began it.           *)
PublishedWhenOver ==
    [][published' /\ ~published => \A e \in Endpoint : delivery[e] \in Terminal \cup {"none"}]_webhookVars
=============================================================================
