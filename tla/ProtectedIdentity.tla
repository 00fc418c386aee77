---------------------------- MODULE ProtectedIdentity ----------------------------
(***************************************************************************)
(* What may leave through which channel about a person with protected      *)
(* personal data, and when a recorded confidentiality assessment is        *)
(* needed for it.                                                          *)
(***************************************************************************)
ProtectionLevel == {"NONE", "SEKRETESSMARKERING", "SKYDDAD_FOLKBOKFORING",
                    "FINGERADE_PERSONUPPGIFTER"}
OutputChannel == {"SCREEN_AUTHORISED", "SCREEN_COLLEAGUE", "SEARCH_RESULT",
                  "NOTIFICATION_EMAIL_BODY", "NOTIFICATION_EMAIL_SUBJECT",
                  "DOCUMENT_VISIBLE_TEXT", "EVIDENCE_PACKAGE", "ARCHIVE_EXPORT",
                  "APPLICATION_LOG", "AUDIT_LOG", "SUPPORT_TOOLING", "ANALYTICS", "URL"}
ProtectedField == {"personalNumber", "fullName", "address", "emailAddress", "phoneNumber",
                   "organisationalUnit"}

NeverIdentifying == {"APPLICATION_LOG", "ANALYTICS", "URL"}
IdentifyingOnly == {"fullName", "personalNumber"}

(* What is stored is read fail-closed: an unknown level is the strictest. *)
NormaliseProtectionLevel(stored) ==
    IF stored \in ProtectionLevel THEN stored ELSE "FINGERADE_PERSONUPPGIFTER"

Allowed(level, channel) ==
    CASE channel \in NeverIdentifying                     -> {}
      [] level = "NONE" /\ channel \in OutputChannel \ NeverIdentifying
                                                          -> ProtectedField
      [] level \in {"SEKRETESSMARKERING", "SKYDDAD_FOLKBOKFORING"}
         /\ channel \in {"EVIDENCE_PACKAGE", "AUDIT_LOG"} -> IdentifyingOnly
      [] OTHER                                            -> {}

RequiresAssessment(level, channel) ==
    CASE level = "SEKRETESSMARKERING" /\ channel \in {"SCREEN_AUTHORISED", "SUPPORT_TOOLING"}
           -> ProtectedField
      [] level = "SEKRETESSMARKERING" /\ channel \in {"SCREEN_COLLEAGUE", "SEARCH_RESULT",
               "NOTIFICATION_EMAIL_BODY", "DOCUMENT_VISIBLE_TEXT", "ARCHIVE_EXPORT"}
           -> IdentifyingOnly
      [] level = "SKYDDAD_FOLKBOKFORING" /\ channel = "SCREEN_AUTHORISED"
           -> IdentifyingOnly
      [] OTHER -> {}

(* The fields disclosed; the others are replaced by a placeholder. *)
Disclosed(level, channel, fields, assessed) ==
    {f \in fields : \/ f \in Allowed(level, channel)
                    \/ assessed /\ f \in RequiresAssessment(level, channel)}
==================================================================================
