------------------------------- MODULE Leads --------------------------------
(* A lead from the file to the outcome of its call.  The rows of a file become *)
(* leads, and a lead together with what an enrichment provider says becomes    *)
(* the context of a call; then what is planned before the call, the queue of   *)
(* the campaign, and what is reported after it.  A row is a record of optional *)
(* fields; its phone says how the phone library takes it: [raw, number,        *)
(* readable, prefixed], number None when it is not valid.                      *)
EXTENDS Python, Integers, Sequences, SequencesExt, FiniteSets

---------------------------------------------------------------------------
(* One row.                                                                 *)

PhoneStatus(phone, country) ==
    IF phone.number # None THEN "valid_e164"
    ELSE IF ~phone.readable /\ country = None /\ ~phone.prefixed
    THEN "needs_review" ELSE "invalid"

\* How ready a lead is follows from its phone.
Readiness(status) ==
    CASE status = "needs_review" -> "needs_review"
      [] status = "invalid" -> "invalid"
      [] OTHER -> "ready_for_contact"

\* A blank website is one nobody knows of, never one that is not there.
WebsiteStatus(website) ==
    IF website = None THEN "unknown"
    ELSE IF website.address THEN "unverified_candidate" ELSE "invalid"

DedupKey(phone) == IF phone.number # None THEN phone.number ELSE phone.raw

LeadFields == {"category", "city", "state", "country", "address", "email",
               "contact_name"}

LeadOf(row, number, context) ==
    [id |-> number,
     phone |-> row.phone,
     readiness |-> Readiness(PhoneStatus(row.phone,
                       IF row.fields["country"] # None
                       THEN row.fields["country"] ELSE context)),
     website |-> row.website, websiteStatus |-> WebsiteStatus(row.website),
     fields |-> row.fields, duplicate |-> "unique"]

---------------------------------------------------------------------------
(* One file.                                                                *)

NoImport == [accepted |-> <<>>, rejected |-> <<>>, duplicates |-> <<>>,
             seen |-> {}]

\* A row without a name or a phone is rejected; one whose number is known, or
\* came earlier in the file, is a duplicate.
ImportRow(import, row, number, existing, context) ==
    LET lead == LeadOf(row, number, context)
        duplicate(kind) ==
            [import EXCEPT !.duplicates =
                Append(@, [lead EXCEPT !.duplicate = kind])]
    IN  IF row.name = None \/ row.phone = None
        THEN [import EXCEPT !.rejected = Append(@, number)]
        ELSE IF row.phone.number # None /\ row.phone.number \in existing
        THEN duplicate("duplicate_existing")
        ELSE IF DedupKey(row.phone) \in import.seen
        THEN duplicate("duplicate_in_batch")
        ELSE [import EXCEPT !.accepted = Append(@, lead),
                            !.seen = @ \cup {DedupKey(row.phone)}]

\* Rows are numbered as in the file, whose first row is the header.
ImportLeads(rows, existing, context) ==
    FoldLeftDomain(LAMBDA import, i :
                       ImportRow(import, rows[i], i + 1, existing, context),
                   NoImport, rows)

\* The statistics of an import add up.
ImportComplete(import, rows) ==
    Len(import.accepted) + Len(import.rejected) + Len(import.duplicates)
        = Len(rows)

---------------------------------------------------------------------------
(* Reconciliation.                                                          *)

Field(value, state, source) == [value |-> value, state |-> state,
                                source |-> source]

\* Mutant: a provider that contradicts the user is not noticed.
UserAlwaysRight(said, found) ==
    IF said # None THEN Field(said, "known", "user_provided")
    ELSE IF found # None THEN Field(found, "unverified", "enrichment_candidate")
    ELSE Field(None, "unknown", "unknown")

\* What the user said is kept whatever a provider says of it.
ReconciledField(said, found) ==
    IF said # None
    THEN Field(said, IF found \in {None, said} THEN "known" ELSE "conflicting",
               "user_provided")
    ELSE IF found # None THEN Field(found, "unverified", "enrichment_candidate")
    ELSE Field(None, "unknown", "unknown")

\* A provider that failed says nothing, except that its website, if it names
\* one, still makes the lead's website a candidate.
Reconciled(lead, enrichment) ==
    LET found(f) == IF enrichment = None \/ f = "contact_name" THEN None
                    ELSE IF enrichment.success THEN enrichment.fields[f]
                    ELSE None
    IN  [lead |-> lead.id,
         websiteStatus |->
            IF /\ lead.websiteStatus = "unknown"
               /\ enrichment # None
               /\ (enrichment # None => enrichment.website # None)
            THEN "unverified_candidate" ELSE lead.websiteStatus,
         fields |-> [f \in LeadFields |-> ReconciledField(lead.fields[f],
                                                          found(f))]]

-----------------------------------------------------------------------------
(* PreCallIntelligenceEngine.plan: what is known of a lead before the call,   *)
(* what is worth verifying, and how to open.                                  *)


\* The facts of a plan, in their order.
FactOrder == <<"website.presence", "business.category", "contact.name",
               "contact.email", "location.city", "location.state",
               "location.country", "location.address">>

FactField ==
    [key \in {FactOrder[i] : i \in 2..8} |->
        CASE key = "business.category" -> "category"
          [] key = "contact.name" -> "contact_name"
          [] key = "contact.email" -> "email"
          [] key = "location.city" -> "city"
          [] key = "location.state" -> "state"
          [] key = "location.country" -> "country"
          [] key = "location.address" -> "address"]

\* Not knowing the website is never knowing there is none.
WebsiteState(status) ==
    CASE status \in {"verified_present", "verified_absent"} -> "known"
      [] status \in {"unverified_candidate", "invalid"} -> "unverified"
      [] OTHER -> "unknown"

FactState(context, key) ==
    IF key = "website.presence" THEN WebsiteState(context.websiteStatus)
    ELSE context.fields[FactField[key]].state

IsFact(key) == \E i \in DOMAIN FactOrder : FactOrder[i] = key

Facts(context, state) ==
    {FactOrder[i] : i \in {j \in DOMAIN FactOrder :
                              FactState(context, FactOrder[j]) = state}}

---------------------------------------------------------------------------
(* What is missing.                                                         *)

RuleFor(policy, service) ==
    LET rules == {r \in policy.rules : r.service = service}
    IN  IF rules = {} THEN None ELSE CHOOSE r \in rules : TRUE

Ruled(policy, services) == {s \in services : RuleFor(policy, s) # None}

\* A service's required facts that are not known, even those that no fact of
\* the context is about.
MissingFor(context, policy, service) ==
    {key \in RuleFor(policy, service).required :
        ~IsFact(key) \/ (IsFact(key) => FactState(context, key) # "known")}

Gaps(context, policy, services) ==
    {[service |-> s, missing |-> MissingFor(context, policy, s)] :
        s \in {r \in Ruled(policy, services) :
                  MissingFor(context, policy, r) # {}}}

PriorityRank == [critical |-> 0, high |-> 1, normal |-> 2, low |-> 3]

\* An override of the policy, else a conflict, else what a service or the
\* campaign asks for; None is not worth a question.
PriorityOf(context, policy, services, key) ==
    LET state == FactState(context, key)
        required == \/ key \in Range(policy.required)
                    \/ \E g \in Gaps(context, policy, services) :
                            key \in g.missing
        optional == \/ key \in Range(policy.optional)
                    \/ \E s \in Ruled(policy, services) :
                            key \in RuleFor(policy, s).optional
    IN  IF state = "known" THEN None
        ELSE IF key \in DOMAIN policy.override THEN policy.override[key]
        ELSE IF state = "conflicting" THEN "critical"
        ELSE IF required THEN "high"
        ELSE IF state = "unverified" THEN "normal"
        ELSE IF optional THEN "low" ELSE None

\* What the campaign asks for, and where it asks first for what is no fact of
\* a lead.
Asked(policy) == policy.required \o policy.optional

FirstAsked(policy) ==
    {i \in DOMAIN Asked(policy) :
        /\ ~IsFact(Asked(policy)[i])
        /\ \A j \in 1..(i - 1) : Asked(policy)[j] # Asked(policy)[i]}

BeyondPriority(policy, key) ==
    IF key \in DOMAIN policy.override THEN policy.override[key]
    ELSE IF key \in Range(policy.required) THEN "high" ELSE "low"

Target(key, priority, order) == [key |-> key, priority |-> priority,
                                 order |-> order]

\* The facts come in their order, before those beyond them.
FactTargets(context, policy, services) ==
    {Target(FactOrder[i], PriorityOf(context, policy, services, FactOrder[i]), i)
        : i \in {j \in DOMAIN FactOrder :
                    PriorityOf(context, policy, services, FactOrder[j]) # None}}

BeyondTargets(policy) ==
    {Target(Asked(policy)[i], BeyondPriority(policy, Asked(policy)[i]), 999 + i) :
        i \in FirstAsked(policy)}

Targets(context, policy, services) ==
    FactTargets(context, policy, services) \cup BeyondTargets(policy)

Before(a, b) ==
    \/ PriorityRank[a.priority] < PriorityRank[b.priority]
    \/ a.priority = b.priority /\ a.order <= b.order

\* What to find out first.
Primary(targets) ==
    IF targets = {} THEN None
    ELSE CHOOSE t \in targets : \A o \in targets : Before(t, o)

---------------------------------------------------------------------------
(* How to begin.                                                            *)

AlwaysGuarded == {"decision_maker", "budget", "language"}

Guardrails(context) ==
    AlwaysGuarded \cup
    (IF WebsiteState(context.websiteStatus) = "known" THEN {} ELSE {"no_website"})

Anonymous(context) == \A f \in {"email", "contact_name"} :
                          context.fields[f].value = None

RiskFlags(context, services) ==
    {flag \in {"no_service", "thin_profile", "conflicting", "unverified_contact"} :
        CASE flag = "no_service" -> services = {}
          [] flag = "thin_profile" -> Cardinality(Facts(context, "known")) <= 1
          [] flag = "conflicting" -> Facts(context, "conflicting") # {}
          [] OTHER -> Anonymous(context)}

Posture(context) ==
    LET known == Cardinality(Facts(context, "known"))
    IN  IF Facts(context, "conflicting") # {} THEN "conflicted"
        ELSE IF known >= 5 THEN "informed"
        ELSE IF known >= 2 THEN "normal" ELSE "low"

\* The campaign context of a lead is never filled in, so nothing is resumed.
Opening(context, primary) ==
    IF primary # None /\ (primary # None => primary.priority = "critical")
    THEN "verify_critical_fact"
    ELSE IF Cardinality(Facts(context, "known")) >= 2
    THEN "confirm_business_context"
    ELSE IF Anonymous(context) THEN "establish_contact" ELSE "earn_permission"

PreCallPlan(context, policy, services) ==
    LET targets == Targets(context, policy, services)
    IN  [known |-> Facts(context, "known"), targets |-> targets,
         primary |-> Primary(targets), gaps |-> Gaps(context, policy, services),
         guardrails |-> Guardrails(context),
         risks |-> RiskFlags(context, services), posture |-> Posture(context),
         opening |-> Opening(context, Primary(targets)),
         degraded |-> services = {}]

-----------------------------------------------------------------------------
(* CampaignQueueEngine: whether a campaign may call now and whom, and what a  *)
(* call leaves of an entry of its queue.  All of it decides, none of it       *)
(* writes; the store that keeps the queue refuses to forget an opt-out.       *)

LeadQueueStatus == {"pending", "ready", "in_progress", "completed", "failed",
                    "dnc", "needs_review", "skipped", "retry_scheduled",
                    "exhausted"}

\* An entry of an opted-out lead has the status for it, whatever it was given.
Entry(lead, position, status, attempts, dnc) ==
    [lead |-> lead, position |-> position,
     status |-> IF dnc THEN "dnc" ELSE status,
     attempts |-> attempts, dnc |-> dnc]

\* From start to before end, in minutes of the day; a window may pass midnight.
ContainsTime(window, minute) ==
    IF window.start <= window.end
    THEN window.start <= minute /\ minute < window.end
    ELSE minute >= window.start \/ minute < window.end

\* What keeps the campaign from calling at all, None if nothing does.
CampaignRefusal(config, snapshot, minute) ==
    CASE config.status = "paused" -> "campaign_paused"
      [] config.status # "active" -> "campaign_not_active"
      [] snapshot.today >= config.daily -> "daily_limit_reached"
      [] snapshot.active >= config.concurrent -> "concurrency_limit"
      [] OTHER -> IF config.window = None THEN None
                  ELSE IF ContainsTime(config.window, minute) THEN None
                  ELSE "outside_calling_window"

GapElapsed(config, elapsed) == elapsed = None \/ elapsed >= config.gap

Callable(entry, config) ==
    /\ ~entry.dnc
    /\ entry.status \notin {"completed", "dnc", "exhausted", "skipped",
                            "in_progress"}
    /\ entry.attempts < config.retries

NoLead(reason) == [entry |-> None, reason |-> reason]

\* The first callable lead of the queue.
NextLead(config, queue, snapshot, minute, elapsed) ==
    LET refusal == CampaignRefusal(config, snapshot, minute)
        callable == {e \in queue : Callable(e, config)}
    IN  IF refusal # None THEN NoLead(refusal)
        ELSE IF ~GapElapsed(config, elapsed) THEN NoLead("gap_not_elapsed")
        ELSE IF callable = {} THEN NoLead("no_leads_available")
        ELSE [entry |-> CHOOSE e \in callable :
                            \A o \in callable : e.position <= o.position,
              reason |-> None]

\* The attempts are counted before anything is decided.
NoAnswer(entry, config) ==
    LET count == entry.attempts + 1
        to(status) == [entry EXCEPT !.status = status, !.attempts = count]
    IN  IF entry.dnc THEN to("dnc")
        ELSE IF count >= config.retries THEN to("exhausted")
        ELSE CASE config.noAnswer = "skip" -> to("skipped")
               [] config.noAnswer = "mark_exhausted" -> to("exhausted")
               [] OTHER -> to("retry_scheduled")

MarkedDnc(entry) == [entry EXCEPT !.dnc = TRUE, !.status = "dnc"]
\* The record of an opted-out lead keeps its status.
MarkedCompleted(entry) ==
    Entry(entry.lead, entry.position, "completed", entry.attempts, entry.dnc)

Paused(config) ==
    IF config.status = "active" THEN [config EXCEPT !.status = "paused"]
    ELSE config
Resumed(config) ==
    IF config.status = "paused" THEN [config EXCEPT !.status = "active"]
    ELSE config

---------------------------------------------------------------------------
(* The store.                                                               *)

\* Mutant: an entry is written as it is.
SavesAnything(stored, entry) == TRUE

\* Whether saving an entry over the stored one is refused.
Saves(stored, entry) == stored.dnc => entry.dnc

\* Mutant: the status read earlier is not compared.
MovesRegardless(stored, from, to) == stored.dnc => to = "dnc"

\* Whether the stored entry moves from a status to another one.
Moves(stored, from, to) ==
    /\ stored.dnc => to = "dnc"
    /\ stored.status = from

\* UPDATE ... WHERE status = from
UpdatedWhere(stored, from, to) ==
    IF stored.status = from THEN [stored EXCEPT !.status = to] ELSE stored

-----------------------------------------------------------------------------
(* OutcomeIntelligenceEngine.resolve: what is reported of a finished call.    *)
(* The record of a call holds what was observed and inferred of the prospect, *)
(* the problems found, the playbook's choice and the flags its caller passes; *)
(* every part of it may be None.                                              *)

MaxReported == 10

FirstTen(s) == SubSeq(s, 1, IF Len(s) < MaxReported THEN Len(s)
                            ELSE MaxReported)

NextStep(input) ==
    LET known(part) == IF part = None THEN None
                       ELSE IF part.nextStep = "unknown" THEN None
                       ELSE part.nextStep
    IN  IF known(input.observed) # None THEN known(input.observed)
        ELSE known(input.inferred)

Interested(input) ==
    input.observed # None /\ (input.observed # None =>
                                  input.observed.interest = TRUE)

Selected(input) == IF input.playbook = None THEN None
                   ELSE input.playbook.selected

\* Mutant: a lack of interest is reported before an opt-out.
StatusInterestFirst(input) ==
    IF input.notInterested THEN "not_interested"
    ELSE IF input.dnc THEN "dnc" ELSE "unknown"

\* An opt-out is reported before anything else.
OutcomeStatus(input) ==
    LET step == NextStep(input) # None
    IN  IF input.dnc THEN "dnc"
        ELSE IF input.notInterested THEN "not_interested"
        ELSE IF Interested(input) THEN IF step THEN "follow_up" ELSE "interested"
        ELSE IF Selected(input) # None
        THEN IF step THEN "follow_up" ELSE "needs_more_information"
        ELSE IF ~input.terminal THEN "unknown" ELSE "completed_no_commitment"

Openness(input) == IF input.inferred = None THEN None ELSE input.inferred.openness

InterestLevel(input) ==
    LET said == IF input.observed = None THEN None ELSE input.observed.interest
    IN  IF input.dnc \/ input.notInterested THEN "no_interest"
        ELSE IF said # None
        THEN IF said = TRUE THEN "explicit_interest" ELSE "no_interest"
        ELSE IF Openness(input) \in {"high", "medium"} THEN "possible_interest"
        ELSE "unknown"

FollowUp(input) ==
    IF input.dnc \/ input.notInterested THEN "not_needed"
    ELSE IF \/ input.error \/ NextStep(input) # None
            \/ OutcomeStatus(input) \in {"follow_up", "interested",
                                         "needs_more_information"}
    THEN "needed" ELSE "unknown"

\* Pains first, then the problems of the business that are not among them.
Problems(input) ==
    LET pains == IF input.observed = None THEN <<>> ELSE input.observed.pains
    IN  FirstTen(FoldLeft(LAMBDA all, p : IF p \in Range(all) THEN all
                                          ELSE Append(all, p),
                          pains, input.problems))

\* The playbook's service, then the ones for later.
RelevantServices(input) ==
    IF Selected(input) = None THEN <<>>
    ELSE FirstTen(<<input.playbook.selected>> \o
                  SelectSeq(input.playbook.future,
                            LAMBDA s : s # input.playbook.selected))

Objections(input) ==
    LET of(part) == IF part = None THEN {}
                    ELSE {part.objection} \ {None, "none"}
    IN  of(input.observed) \cup of(input.inferred)

DecisionMaker(input) ==
    LET as(part) == IF part = None THEN "unknown"
                    ELSE CASE part.authority \in {"final", "high"} -> "confirmed"
                           [] part.authority = "low" -> "not_decision_maker"
                           [] OTHER -> "unknown"
    IN  IF as(input.observed) # "unknown" THEN as(input.observed)
        ELSE as(input.inferred)

LeadOutcome(input) ==
    [status |-> OutcomeStatus(input), interest |-> InterestLevel(input),
     dnc |-> input.dnc, failed |-> input.error, problems |-> Problems(input),
     services |-> RelevantServices(input), objections |-> Objections(input),
     decisionMaker |-> DecisionMaker(input), step |-> NextStep(input),
     followUp |-> FollowUp(input)]

\* The outcome of a call nothing is known of but that it ended.
EndedCall == [dnc |-> FALSE, notInterested |-> FALSE, error |-> FALSE,
              terminal |-> TRUE, observed |-> None, inferred |-> None,
              problems |-> <<>>, playbook |-> None]
=============================================================================
