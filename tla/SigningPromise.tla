---------------------------- MODULE SigningPromise ----------------------------
(* What the parties of a case are promised of its signing, whatever is repeated,
   late, cancelled or lost on the way.  A person begins to identify themselves
   when nobody needed before them is missing, and agrees once; only then are
   papers signed in their name, each once; a signature is admitted or refused and
   stays so; who is recorded as done has every paper admitted, and stays done.
   The case has one outcome, and is completed by those it needs.              *)
EXTENDS Integers

CONSTANTS
    Party,      \* the persons
    Needed,     \* those the case cannot do without
    Place,      \* their place in the order of signing
    Paper       \* what each of them signs

VARIABLES
    outcome,    \* "open", "completed", "declined" or "cancelled"
    present,    \* those who have begun to identify themselves
    agreed,     \* those whose identity and consent are verified
    signature,  \* signature of a person on a paper: none, signed, validated or failed
    done        \* those recorded as having signed

promiseVars == <<outcome, present, agreed, signature, done>>

PromiseInit ==
    /\ outcome = "open"
    /\ present = {} /\ agreed = {} /\ done = {}
    /\ signature = [p \in Party |-> [d \in Paper |-> "none"]]

Arrive(p) ==
    /\ p \notin present
    /\ \A q \in Needed : Place[q] < Place[p] => q \in done
    /\ present' = present \cup {p}
    /\ UNCHANGED <<outcome, agreed, signature, done>>

Agree(p) ==
    /\ p \in present \ agreed
    /\ agreed' = agreed \cup {p}
    /\ UNCHANGED <<outcome, present, signature, done>>

SignPaper(p, d) ==
    /\ p \in agreed /\ signature[p][d] = "none"
    /\ signature' = [signature EXCEPT ![p][d] = "signed"]
    /\ UNCHANGED <<outcome, present, agreed, done>>

RefuseSignature(p, d) ==
    /\ signature[p][d] = "signed"
    /\ signature' = [signature EXCEPT ![p][d] = "failed"]
    /\ UNCHANGED <<outcome, present, agreed, done>>

AdmitSignature(p, d) ==
    /\ signature[p][d] \in {"signed", "validated"}
    /\ signature' = [signature EXCEPT ![p][d] = "validated"]
    /\ \/ UNCHANGED done
       \/ done' = done \cup {p} /\ \A e \in Paper : signature'[p][e] = "validated"
    /\ UNCHANGED <<outcome, present, agreed>>

Conclude(how) ==
    /\ outcome = "open"
    /\ how = "completed" => Needed \subseteq done
    /\ outcome' = how
    /\ UNCHANGED <<present, agreed, signature, done>>

PromiseNext ==
    \/ \E how \in {"completed", "declined", "cancelled"} : Conclude(how)
    \/ \E p \in Party :
          \/ Arrive(p) \/ Agree(p)
          \/ \E d \in Paper : SignPaper(p, d) \/ RefuseSignature(p, d) \/ AdmitSignature(p, d)

SigningPromiseSpec == PromiseInit /\ [][PromiseNext]_promiseVars
===============================================================================
