---------------------------- MODULE DownloadGrants ----------------------------
(* Grants to download one artifact of a finished case: issued with an expiry and
   a ceiling of uses, revocable, redeemed by whoever has the token.           *)
EXTENDS Naturals

CONSTANTS
    Grant,
    Visitor,     \* who comes with a token, at the same time as others
    MaximumUses,
    MaxTraces    \* bound: rows of document_download_events

ASSUME GrantAssumption == MaximumUses \in Nat \ {0} /\ MaxTraces \in Nat

VARIABLES
    grant,       \* none, live, expired or revoked
    useCount,
    downloads,   \* document_download_events: downloads[g][v]
    packageReady \* the case has a ready evidence package

grantVars == <<grant, useCount, downloads, packageReady>>

GrantInit ==
    /\ grant = [g \in Grant |-> "none"]
    /\ useCount = [g \in Grant |-> 0]
    /\ downloads = [g \in Grant |-> [v \in Visitor |-> 0]]
    /\ packageReady = FALSE

PackageBecomesReady ==
    /\ ~packageReady /\ packageReady' = TRUE
    /\ UNCHANGED <<grant, useCount, downloads>>

(* assert_download_grant_case_completed guards the insert. *)
IssueGrant(g) ==
    /\ grant[g] = "none" /\ packageReady
    /\ grant' = [grant EXCEPT ![g] = "live"]
    /\ UNCHANGED <<useCount, downloads, packageReady>>

RevokeGrant(g) ==
    /\ grant[g] \in {"live", "expired"}
    /\ grant' = [grant EXCEPT ![g] = "revoked"]
    /\ UNCHANGED <<useCount, downloads, packageReady>>

GrantExpires(g) ==
    /\ grant[g] = "live"
    /\ grant' = [grant EXCEPT ![g] = "expired"]
    /\ UNCHANGED <<useCount, downloads, packageReady>>

(* Mutant: the number of uses is compared before it is counted, not while. *)
RedeemUncounted(g, v) ==
    /\ grant[g] = "live" /\ useCount[g] <= MaximumUses /\ downloads[g][v] < MaxTraces
    /\ useCount' = [useCount EXCEPT ![g] = @ + 1]
    /\ downloads' = [downloads EXCEPT ![g][v] = @ + 1]
    /\ UNCHANGED <<grant, packageReady>>

(* One conditional update is the redemption; it leaves a trace. *)
Redeem(g, v) ==
    /\ grant[g] = "live" /\ useCount[g] < MaximumUses /\ downloads[g][v] < MaxTraces
    /\ useCount' = [useCount EXCEPT ![g] = @ + 1]
    /\ downloads' = [downloads EXCEPT ![g][v] = @ + 1]
    /\ UNCHANGED <<grant, packageReady>>

GrantNext ==
    \/ PackageBecomesReady
    \/ \E g \in Grant :
          IssueGrant(g) \/ RevokeGrant(g) \/ GrantExpires(g) \/ \E v \in Visitor : Redeem(g, v)

GrantSpec == GrantInit /\ [][GrantNext]_grantVars

-----------------------------------------------------------------------------
GrantTypeOK ==
    /\ grant \in [Grant -> {"none", "live", "expired", "revoked"}]
    /\ useCount \in [Grant -> 0..MaximumUses]
    /\ downloads \in [Grant -> [Visitor -> 0..MaxTraces]]
    /\ packageReady \in BOOLEAN
=============================================================================
