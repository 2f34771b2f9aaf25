----------------------------- MODULE Notifications -----------------------------
(* The e-mails of one candidate session: the invitation and its resends,    *)
(* the confirmations of a schedule to candidate and talent partner, and the *)
(* talent partner's notices that the candidate is done and that a report is *)
(* ready, which jobs send (app/notifications and the notification handlers *)
(* of app/shared/jobs).  Each attempt leaves an audit row, committed after  *)
(* the provider was called; a mail with a "sent" row is not sent again,     *)
(* invitations aside.  A provider may accept a mail and lose the answer,    *)
(* and a job's lease may run out under a worker that is still sending.      *)
EXTENDS Integers, FiniteSets

CONSTANTS
  Mailers,         \* requests and workers that send
  SendAttempts,    \* EmailSender.max_attempts
  NoticeAttempts,  \* max_attempts of a notice's job
  LastInvite,      \* bound: invitations asked for
  LastReport,      \* bound: reports that become ready
  LastOverlap,     \* bound: claims of a notice that a worker is still at
  MailFaults       \* bound: failing calls and deaths

ASSUME NotificationsAssumption ==
  /\ IsFiniteSet(Mailers)
  /\ SendAttempts \in Nat \ {0} /\ NoticeAttempts \in Nat \ {0}
  /\ LastInvite \in Nat /\ LastReport \in Nat
  /\ LastOverlap \in Nat /\ MailFaults \in Nat

VARIABLES
  partnerKnown,  \* the trial's creator has an e-mail address
  inbox,         \* mails delivered, by kind
  audit,         \* committed audit rows by kind: [sent, other]
  inviteMail,    \* the session's invite e-mail columns: [status, asked, recent]
  scheduled,     \* the candidate's schedule is committed
  reports,       \* reports that became ready
  notice,        \* jobs of the notices: [status, attempt]
  mailer,        \* [at, kind, attempt, tries, result, rows] per mailer
  excused,       \* mails of a kind whose first copy the backend may not know of
  overlaps,      \* claims of a notice while a worker was still at it
  mailFaults
mailVars == <<partnerKnown, inbox, audit, inviteMail, scheduled, reports, notice,
              mailer, excused, overlaps, mailFaults>>

Notices == {"candidate_completed", "winoe_report_ready"}
Confirmations == {"schedule_confirmation_candidate", "schedule_confirmation_talent_partner"}
MailKinds == Notices \cup Confirmations \cup {"trial_invite"}
NoRows == [k \in MailKinds |-> [sent |-> 0, other |-> 0]]
IdleMailer == [at |-> "idle", kind |-> "trial_invite", attempt |-> 0, tries |-> 0,
               result |-> "none", rows |-> NoRows]

MailTypeOK ==
  /\ partnerKnown \in BOOLEAN /\ scheduled \in BOOLEAN
  /\ inbox \in [MailKinds -> Nat]
  /\ audit \in [MailKinds -> [sent : Nat, other : Nat]]
  /\ inviteMail \in [status : {"none", "sent", "failed", "rate_limited"},
                     asked : 0..LastInvite, recent : BOOLEAN]
  /\ reports \in 0..LastReport
  /\ notice \in [Notices -> [status : {"absent", "queued", "running", "succeeded", "dead_letter"},
                             attempt : Nat]]
  /\ \A m \in Mailers : /\ mailer[m].at \in {"idle", "look", "send", "record", "commit", "settle"}
                        /\ mailer[m].kind \in MailKinds /\ mailer[m].tries \in 0..SendAttempts
  /\ mailFaults \in 0..MailFaults

MailInit ==
  /\ partnerKnown \in BOOLEAN
  /\ inbox = [k \in MailKinds |-> 0] /\ audit = NoRows
  /\ inviteMail = [status |-> "none", asked |-> 0, recent |-> FALSE]
  /\ scheduled = FALSE /\ reports = 0
  /\ notice = [k \in Notices |-> [status |-> "absent", attempt |-> 0]]
  /\ mailer = [m \in Mailers |-> IdleMailer]
  /\ excused = [k \in MailKinds |-> 0] /\ overlaps = [k \in Notices |-> 0] /\ mailFaults = 0

FaultHappens == mailFaults < MailFaults /\ mailFaults' = mailFaults + 1
Starts(m, at, kind, attempt) ==
  /\ mailer[m].at = "idle"
  /\ mailer' = [mailer EXCEPT ![m] = [IdleMailer EXCEPT !.at = at, !.kind = kind, !.attempt = attempt]]

-----------------------------------------------------------------------------
(* What asks for mails. *)

\* An invitation or its resend; within the limit's seconds of the last attempt
\* it is not sent, and the attempt counts as one for the next.
RateLimit ==
  /\ inviteMail' = [status |-> "rate_limited", asked |-> inviteMail.asked + 1, recent |-> TRUE]
  /\ audit' = [audit EXCEPT !["trial_invite"].other = @ + 1]
AskForInvite(m) ==
  /\ inviteMail.asked < LastInvite
  /\ \A o \in Mailers : mailer[o].kind = "trial_invite" => mailer[o].at = "idle"
  /\ IF inviteMail.recent
     THEN RateLimit /\ UNCHANGED mailer
     ELSE /\ inviteMail' = [inviteMail EXCEPT !.asked = @ + 1]
          /\ Starts(m, "send", "trial_invite", 0)
          /\ UNCHANGED audit
  /\ UNCHANGED <<partnerKnown, inbox, scheduled, reports, notice, excused, overlaps, mailFaults>>

LimitPasses ==
  /\ inviteMail.recent
  /\ inviteMail' = [inviteMail EXCEPT !.recent = FALSE]
  /\ UNCHANGED <<partnerKnown, inbox, audit, scheduled, reports, notice, mailer, excused, overlaps, mailFaults>>

\* The request that commits the schedule sends the confirmations, once.
ConfirmSchedule(m) ==
  /\ ~scheduled /\ inviteMail.status # "none"
  /\ scheduled' = TRUE
  /\ Starts(m, "look", "schedule_confirmation_candidate", 0)
  /\ UNCHANGED <<partnerKnown, inbox, audit, inviteMail, reports, notice, excused, overlaps, mailFaults>>

\* create_or_get_idempotent: one job of a session and kind, for good.
EnqueueNotice(k) ==
  notice' = IF notice[k].status = "absent" THEN [notice EXCEPT ![k].status = "queued"] ELSE notice
CompleteSession ==
  /\ scheduled
  /\ EnqueueNotice("candidate_completed")
  /\ UNCHANGED <<partnerKnown, inbox, audit, inviteMail, scheduled, reports, mailer, excused, overlaps, mailFaults>>
ReportBecomesReady ==
  /\ scheduled /\ reports < LastReport
  /\ reports' = reports + 1
  /\ EnqueueNotice("winoe_report_ready")
  /\ UNCHANGED <<partnerKnown, inbox, audit, inviteMail, scheduled, mailer, excused, overlaps, mailFaults>>

\* A worker takes a queued notice, or a running one whose lease has run out,
\* whether its worker died or is still at it; no claim looks at max_attempts.
AtWork(k) == \E m \in Mailers : mailer[m].at # "idle" /\ mailer[m].kind = k
ClaimNotice(m, k) ==
  /\ notice[k].status \in {"queued", "running"}
  /\ IF AtWork(k) THEN overlaps[k] < LastOverlap /\ overlaps' = [overlaps EXCEPT ![k] = @ + 1]
     ELSE UNCHANGED overlaps
  /\ notice' = [notice EXCEPT ![k] = [status |-> "running", attempt |-> @.attempt + 1]]
  /\ Starts(m, "look", k, notice[k].attempt + 1)
  /\ UNCHANGED <<partnerKnown, inbox, audit, inviteMail, scheduled, reports, excused, mailFaults>>

-----------------------------------------------------------------------------
(* Sending. *)
ToPartner(kind) == kind \in Notices \cup {"schedule_confirmation_talent_partner"}

\* Mutation: what was sent is not looked up.
NeverDelivered(m) == FALSE
DeliveredBefore(m) == audit[mailer[m].kind].sent > 0

\* No address, or a "sent" row: nothing is sent.
Look(m) ==
  /\ mailer[m].at = "look"
  /\ mailer' = [mailer EXCEPT
       ![m].result = IF DeliveredBefore(m) THEN "before" ELSE "none",
       ![m].at = IF ToPartner(mailer[m].kind) /\ ~partnerKnown THEN "commit"
                 ELSE IF DeliveredBefore(m) THEN "record" ELSE "send"]
  /\ UNCHANGED <<partnerKnown, inbox, audit, inviteMail, scheduled, reports, notice, excused, overlaps, mailFaults>>

Arrives(m) == inbox' = [inbox EXCEPT ![mailer[m].kind] = @ + 1]
Again(m) == mailer[m].tries + 1 < SendAttempts

\* send_email: a mail is accepted; a failure that may pass is tried again, and
\* its mail may have been accepted with the answer lost; a refusal is final.
Accept(m) ==
  /\ Arrives(m) /\ UNCHANGED <<mailFaults, excused>>
  /\ mailer' = [mailer EXCEPT ![m].at = "record", ![m].result = "sent"]
FailForNow(m) ==
  /\ FaultHappens
  /\ \/ UNCHANGED <<inbox, excused>>
     \/ Arrives(m) /\ excused' = [excused EXCEPT ![mailer[m].kind] = @ + 1]
  /\ mailer' = [mailer EXCEPT ![m].tries = @ + 1, ![m].result = "failed",
                  ![m].at = IF Again(m) THEN "send" ELSE "record"]
Refuse(m) ==
  /\ FaultHappens /\ UNCHANGED <<inbox, excused>>
  /\ mailer' = [mailer EXCEPT ![m].at = "record", ![m].result = "failed"]
SendEmail(m) ==
  /\ mailer[m].at = "send"
  /\ Accept(m) \/ FailForNow(m) \/ Refuse(m)
  /\ UNCHANGED <<partnerKnown, audit, inviteMail, scheduled, reports, notice, overlaps>>

\* record_notification_delivery_audit, flushed; the candidate's confirmation is
\* followed by the talent partner's before anything is committed.
RowOf(m) ==
  LET row == mailer[m].rows[mailer[m].kind]
  IN  [mailer[m].rows EXCEPT ![mailer[m].kind] =
         CASE mailer[m].result = "sent" -> [row EXCEPT !.sent = row.sent + 1]
           [] mailer[m].result = "failed" -> [row EXCEPT !.other = row.other + 1]
           [] OTHER -> row]
RecordDelivery(m) ==
  /\ mailer[m].at = "record"
  /\ mailer' = [mailer EXCEPT ![m] =
       IF mailer[m].kind = "schedule_confirmation_candidate"
       THEN [IdleMailer EXCEPT !.at = "look", !.rows = RowOf(m),
                               !.kind = "schedule_confirmation_talent_partner"]
       ELSE [@ EXCEPT !.at = "commit", !.rows = RowOf(m)]]
  /\ UNCHANGED <<partnerKnown, inbox, audit, inviteMail, scheduled, reports, notice, excused, overlaps, mailFaults>>

Commit(m) ==
  /\ mailer[m].at = "commit"
  /\ audit' = [k \in MailKinds |-> [sent |-> audit[k].sent + mailer[m].rows[k].sent,
                                    other |-> audit[k].other + mailer[m].rows[k].other]]
  /\ inviteMail' = IF mailer[m].kind = "trial_invite"
                   THEN [inviteMail EXCEPT !.status = mailer[m].result, !.recent = TRUE]
                   ELSE inviteMail
  /\ mailer' = [mailer EXCEPT ![m] = IF @.kind \in Notices
                                     THEN [@ EXCEPT !.at = "settle", !.rows = NoRows]
                                     ELSE IdleMailer]
  /\ UNCHANGED <<partnerKnown, inbox, scheduled, reports, notice, excused, overlaps, mailFaults>>

\* A notice that was not sent raises: the job waits for its next attempt.  The
\* row is found by its id alone, whoever has it by now.
\* Mutation: a notice that failed is done.
DoneAnyway(m) == "succeeded"
NoticeEnds(m) ==
  IF mailer[m].result # "failed" THEN "succeeded"
  ELSE IF mailer[m].attempt < NoticeAttempts THEN "queued" ELSE "dead_letter"
SettleNotice(m) ==
  /\ mailer[m].at = "settle"
  /\ notice' = [notice EXCEPT ![mailer[m].kind].status = NoticeEnds(m)]
  /\ mailer' = [mailer EXCEPT ![m] = IdleMailer]
  /\ UNCHANGED <<partnerKnown, inbox, audit, inviteMail, scheduled, reports, excused, overlaps, mailFaults>>

\* The process dies, or the commit fails: rows that were not committed are gone
\* and so is what the backend knows of their mails.
Unknown(m, k) ==
  mailer[m].rows[k].sent
    + IF mailer[m].at = "record" /\ mailer[m].kind = k /\ mailer[m].result = "sent" THEN 1 ELSE 0
MailerDies(m) ==
  /\ mailer[m].at # "idle" /\ FaultHappens
  /\ excused' = [k \in MailKinds |-> excused[k] + Unknown(m, k)]
  /\ mailer' = [mailer EXCEPT ![m] = IdleMailer]
  /\ UNCHANGED <<partnerKnown, inbox, audit, inviteMail, scheduled, reports, notice, overlaps>>

-----------------------------------------------------------------------------
MailerStep(m) ==
  \/ Look(m) \/ SendEmail(m) \/ RecordDelivery(m) \/ Commit(m) \/ SettleNotice(m)
MailNext ==
  \/ \E m \in Mailers :
       \/ AskForInvite(m) \/ ConfirmSchedule(m) \/ MailerStep(m) \/ MailerDies(m)
       \/ \E k \in Notices : ClaimNotice(m, k)
  \/ LimitPasses \/ CompleteSession \/ ReportBecomesReady
MailSpec == MailInit /\ [][MailNext]_mailVars

(* A notice's job that succeeded told the talent partner, who has an address, *)
(* and every "sent" row stands for a mail that was delivered, whatever died   *)
(* in between and however often the job was tried                             *)
(* (_send_talent_partner_update_email, record_notification_delivery_audit).   *)
SentMeansTold ==
  /\ \A k \in Notices :
       notice[k].status = "succeeded" /\ partnerKnown => inbox[k] > 0 /\ audit[k].sent > 0
  /\ \A k \in MailKinds : audit[k].sent <= inbox[k]

(* Notices and confirmations come once: a second copy has a first one whose   *)
(* answer was lost, or whose row died with its process, or a worker that was  *)
(* still at it when another took the job (has_successful_notification_delivery). *)
SecondCopiesExcused ==
  /\ \A k \in Notices : inbox[k] <= 1 + excused[k] + overlaps[k]
  /\ \A k \in Confirmations : inbox[k] <= 1 + excused[k]

(* The same of a job whose lease runs out under its worker: two workers look  *)
(* before either has committed, and both send                                 *)
(* (_send_talent_partner_update_email).                                       *)
NoticesComeOnce == \A k \in Notices : inbox[k] <= 1 + excused[k]

(* "Queue a Talent Partner email when the winoe report becomes ready"        *)
(* (notifications_talent_partner_updates_service.py:141): each report has a  *)
(* mail of its own once its job is over.                                     *)
EveryReportAnnounced ==
  notice["winoe_report_ready"].status = "succeeded" /\ partnerKnown
    => inbox["winoe_report_ready"] >= reports
=============================================================================
