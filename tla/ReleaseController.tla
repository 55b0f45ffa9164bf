------------------------- MODULE ReleaseController -------------------------
(***************************************************************************)
(* How a release gets onto the host: GitHub publishes deployments, an      *)
(* agent polls them and starts the root controller for each, one at a time *)
(* under the global lock, and the controller records what it does in a     *)
(* ledger on disk while it changes the release files, the services and the *)
(* schema.  The host may crash between any two steps.                      *)
(***************************************************************************)
EXTENDS Naturals, Sequences, FiniteSetsExt

CONSTANTS
    Deployments,   \* GitHub's deployments, numbered in the order of creation
    Scripts,       \* what they may ask for, each for an environment and a release
    Fingerprint,   \* how many migrations a release knows
    Installed,     \* the release both environments run at the start
    Unreliable,    \* the operations of the host that may fail by themselves
    MaxFaults      \* crashes, failed writes, lost answers, deadlines that pass

Environments == {"staging", "production"}
Releases     == DOMAIN Fingerprint

ASSUME ReleaseAssumption ==
    /\ Deployments \subseteq Nat /\ IsFiniteSet(Deployments)
    /\ Fingerprint \in [Releases -> Nat] /\ Installed \in Releases
    /\ Scripts \subseteq [Deployments -> [env : Environments, release : Releases]]
    /\ MaxFaults \in Nat

VARIABLES
    request,     \* what each deployment asks for
    published,   \* the deployments GitHub lists
    fresh,       \* those whose intent and token have not expired
    seen, etag,  \* the agent's state on disk
    agent,       \* the agent's poll in progress
    ctl,         \* the controller in progress, with its copy of the record
    ledger,      \* deployment-ledger.json
    journal,     \* the previous release kept for an undo, by deployment
    host,        \* files, services and schema of each environment
    status,      \* the newest status of each deployment on GitHub
    faults

vars == <<request, published, fresh, seen, etag, agent, ctl, ledger, journal, host, status, faults>>
hub  == <<request, published, fresh>>
poll == <<seen, etag, agent>>
disk == <<ledger, journal, host>>

Env(d)    == request[d].env
Target(d) == request[d].release

Files(e)    == IF e = "staging" THEN <<"authority", "runtime", "monitoring">> ELSE <<"authority", "runtime">>
Services(e) == IF e = "staging" THEN <<"web", "workers", "exporter">> ELSE <<"web", "workers">>

\* The operations of yolpol-deploy-internal, refused once the deadline has passed,
\* and what the controller does by itself.
Timed   == {"validate", "health", "backup", "pull", "database", "migrate", "web", "workers", "exporter"}
Checks  == {"authenticate", "validate", "staging-succeeded", "health", "backup", "durability", "pull", "database", "restore"}
Started == {"web", "workers", "exporter"}
Written == {"authority", "runtime", "monitoring"}
Operations == Checks \cup Started \cup Written \cup {"journal", "migrate"}

NoRecord == [phase |-> "none", migration |-> "never-started", outcome |-> "none",
             result |-> "none", before |-> Installed]

Off == [at |-> "off", d |-> 0, rec |-> 0, step |-> 1, changed |-> FALSE, late |-> FALSE,
        state |-> "none", posted |-> FALSE, record |-> NoRecord]

Idle == [at |-> "idle", env |-> "staging", todo |-> {}, page |-> {}, retry |-> FALSE]

\* The blocks a record puts on its environment.
DatabaseReview(r) ==
    \/ r.migration \in {"started", "failed"}
    \/ r.phase = "manual-review"
    \/ r.result = "database-review"

\* Mutant: an attempt that never ended blocks nothing.
ReconciliationIfFailed(r) == r.phase = "rollback-failed" \/ r.result = "reconciliation"

Reconciliation(r) ==
    \/ r.outcome = "in-progress"
    \/ r.phase = "rollback-failed"
    \/ r.result = "reconciliation"

InDoubt(r) == DatabaseReview(r) \/ Reconciliation(r)

Recorded(e)     == {d \in Deployments : Env(d) = e /\ ledger[d] # NoRecord}
Blocked(e)      == \E d \in Recorded(e) : InDoubt(ledger[d])
Succeeded(e, m) == {d \in Recorded(e) : Target(d) = m /\ ledger[d].outcome = "success"}

Init ==
    /\ request \in Scripts
    /\ published = {} /\ fresh = Deployments
    /\ seen = {} /\ etag = [e \in Environments |-> {}] /\ agent = Idle
    /\ ctl = Off
    /\ ledger = [d \in Deployments |-> NoRecord]
    /\ journal = [d \in Deployments |-> {}]
    /\ host = [e \in Environments |->
                 [file    |-> [f \in Range(Files(e)) |-> Installed],
                  service |-> [s \in Range(Services(e)) |-> Installed],
                  schema  |-> Fingerprint[Installed]]]
    /\ status = [d \in Deployments |-> "none"]
    /\ faults = 0

Fault == faults < MaxFaults /\ faults' = faults + 1
-----------------------------------------------------------------------------
(* The transaction as a list of operations and of phases that are written  *)
(* to the ledger, in the order of the code.                                *)

\* What is verified before anything changes; a changed migration needs a backup.
Preparation(e, changed) ==
       <<"authenticate", "release-authenticated", "validate">>
    \o (IF e = "production" THEN <<"staging-succeeded">> ELSE <<>>)
    \o (IF ~ changed THEN <<>>
        ELSE IF e = "staging" THEN <<"backup", "backup-verified">>
        ELSE <<"health", "production-current-verified", "backup", "production-backup-deep-verified",
               "durability", "offserver-durability-confirmed">>)

\* The release files of the environment become those of the target.
Switch(e) ==
       <<"journal", "authority-changing">> \o Files(e)
    \o <<"authority-active", "pull", "images-pulled", "database", "database-ready">>

Migration(changed) ==
    IF changed THEN <<"migration-starting", "migrate", "migration-completed">> ELSE <<>>

Rollout(e) ==
       <<"web", "application-deployed", "workers", "workers-deployed">>
    \o (IF e = "staging" THEN <<"exporter", "operations-exporter-deployed">> ELSE <<>>)
    \o <<"health", "verified">>

Plan(e, changed) == Preparation(e, changed) \o Switch(e) \o Migration(changed) \o Rollout(e)

UndoPlan(e) == <<"restore">> \o Files(e) \o Services(e) \o <<"rolled-back">>

Steps == IF ctl.at = "undo" THEN UndoPlan(Env(ctl.d)) ELSE Plan(Env(ctl.d), ctl.changed)
Step  == Steps[ctl.step]

\* The authority of the environment is about to change or has changed.
Mutating == \E i \in 1 .. ctl.step - 1 : Steps[i] = "authority-changing"

Goto(c, at) == [c EXCEPT !.at = at, !.step = 1]
\* Mutant: the last step has a successor.
ForthOnce(c) == [c EXCEPT !.step = @ + 1]

Forth(c) == IF c.step < Len(Steps) THEN [c EXCEPT !.step = @ + 1]
            ELSE Goto(c, IF c.at = "undo" THEN "failed" ELSE "completed")

\* Mutant: only a migration under way rules out the undo.
FailsWithUndo(c) ==
    IF c.at = "undo" THEN Goto(c, "undo-failed")
    ELSE IF ~ Mutating THEN Goto(c, "failed")
    ELSE Goto(c, IF c.changed /\ c.record.migration = "started" THEN "review" ELSE "undo")

\* execute_transaction's except clause: give up before the authority changes, never
\* go back to an older application once a changed migration was begun, else undo.
Fails(c) ==
    IF c.at = "undo" THEN Goto(c, "undo-failed")
    ELSE IF ~ Mutating THEN Goto(c, "failed")
    ELSE IF ~ (c.changed /\ c.record.migration # "never-started") THEN Goto(c, "undo")
    ELSE IF \/ c.record.migration = "started"
            \/ (Env(c.d) = "production" /\ c.record.migration = "completed")
         THEN Goto(c, "review")
    ELSE Goto(c, "failed")

Exit(result) == [Off EXCEPT !.at = "exited", !.d = ctl.d, !.state = result]

\* transition: the copy in memory changes first; when writing the file fails, the
\* file may have changed or not.
Save(record, then, otherwise) ==
    LET written == [ledger EXCEPT ![ctl.rec] = record] IN
    /\ UNCHANGED <<hub, poll, journal, host, status>>
    /\ \/ ledger' = written /\ ctl' = then /\ UNCHANGED faults
       \/ Fault /\ ledger' \in {ledger, written} /\ ctl' = otherwise
-----------------------------------------------------------------------------
(* GitHub and the agent.                                                   *)

Listed(e) == {d \in published : Env(d) = e}

Publish(d) ==
    /\ d \notin published /\ \A c \in Deployments : c < d => c \in published
    /\ published' = published \cup {d}
    /\ UNCHANGED <<request, fresh, poll, ctl, disk, status, faults>>

Expire(d) ==
    /\ d \in published \cap fresh
    /\ fresh' = fresh \ {d}
    /\ UNCHANGED <<request, published, poll, ctl, disk, status, faults>>

Following(e) == IF e = "staging" THEN [Idle EXCEPT !.env = "production"] ELSE Idle

\* poll_environment: the list, or 304 when it is the one of the kept ETag; without
\* an answer this run of the agent ends.
Poll ==
    /\ agent.at = "idle"
    /\ LET listed == Listed(agent.env) IN
       \/ /\ agent' = IF etag[agent.env] = listed THEN Following(agent.env)
                      ELSE [agent EXCEPT !.at = "page", !.page = listed, !.todo = listed \ seen]
          /\ UNCHANGED faults
       \/ agent.env = "production" /\ Fault /\ agent' = Idle
    /\ UNCHANGED <<hub, seen, etag, ctl, disk, status>>

\* invoke_controller, the oldest deployment first.
Invoke ==
    /\ agent.at = "page" /\ agent.todo # {} /\ ctl.at = "off"
    /\ ctl' = [Off EXCEPT !.at = "begin", !.d = Min(agent.todo)]
    /\ agent' = [agent EXCEPT !.at = "waiting"]
    /\ UNCHANGED <<hub, seen, etag, disk, status, faults>>

\* Mutant: only what the controller handled is marked.
MarkHandled ==
    /\ agent.at = "waiting" /\ ctl.at = "exited"
    /\ ctl' = Off
    /\ seen' = IF ctl.state = "handled" THEN seen \cup {ctl.d} ELSE seen
    /\ agent' = [agent EXCEPT !.at = "page", !.todo = @ \ {ctl.d},
                              !.retry = @ \/ ctl.state # "handled"]
    /\ UNCHANGED <<hub, etag, disk, status, faults>>

\* Handled and finally rejected deployments are marked as seen on disk.
Mark ==
    /\ agent.at = "waiting" /\ ctl.at = "exited"
    /\ ctl' = Off
    /\ seen' = IF ctl.state = "retry" THEN seen ELSE seen \cup {ctl.d}
    /\ agent' = [agent EXCEPT !.at = "page", !.todo = @ \ {ctl.d},
                              !.retry = @ \/ ctl.state = "retry"]
    /\ UNCHANGED <<hub, etag, disk, status, faults>>

\* The ETag is kept only when nothing has to be tried again; otherwise this run of the
\* agent ends and the next one starts with Staging.
EndPage ==
    /\ agent.at = "page" /\ agent.todo = {}
    /\ etag' = IF agent.retry THEN etag ELSE [etag EXCEPT ![agent.env] = agent.page]
    /\ agent' = IF agent.retry THEN Idle ELSE Following(agent.env)
    /\ UNCHANGED <<hub, seen, ctl, disk, status, faults>>
-----------------------------------------------------------------------------
(* The controller.                                                         *)

\* Mutant: only a deployment's own record answers.
AnswersOwn(d) == IF ledger[d] # NoRecord THEN {d} ELSE {}

\* The record that answers a deployment: its own, or the success of its release.
Answers(d) ==
    IF ledger[d] # NoRecord THEN {d}
    ELSE IF Blocked(Env(d)) THEN {} ELSE Succeeded(Env(d), Target(d))

\* A record of an earlier attempt answers; a blocked environment refuses; a release
\* that has succeeded is not deployed again; anything else is a new attempt.
Begin ==
    /\ ctl.at = "begin"
    /\ LET d == ctl.d
           e == Env(d)
           old == Answers(d)
           new == [NoRecord EXCEPT !.phase = "accepted", !.outcome = "in-progress",
                                   !.before = host[e].file["authority"]]
           refused == [new EXCEPT !.outcome = "failure",
                         !.phase = IF \E r \in Recorded(e) : DatabaseReview(ledger[r])
                                   THEN "manual-review-blocked" ELSE "manual-reconciliation-blocked",
                         !.result = IF \E r \in Recorded(e) : DatabaseReview(ledger[r])
                                    THEN "database-review" ELSE "reconciliation"]
           Enter(record, then) ==
             \/ ledger' = [ledger EXCEPT ![d] = record] /\ ctl' = then /\ UNCHANGED faults
             \/ Fault /\ ctl' = Exit("retry")
                /\ ledger' \in {ledger, [ledger EXCEPT ![d] = record]}
       IN
       \/ d \notin fresh /\ ctl' = Exit("rejected") /\ UNCHANGED <<ledger, faults>>
       \/ d \in fresh /\ Fault /\ ctl' = Exit("retry") /\ UNCHANGED ledger
       \/ /\ d \in fresh /\ old # {}
          /\ LET r == Min(old) IN
             ctl' = IF ledger[r].outcome = "in-progress" THEN Exit("retry")
                    ELSE [Goto(ctl, "post") EXCEPT !.rec = r, !.record = ledger[r], !.state = ledger[r].outcome]
          /\ UNCHANGED <<ledger, faults>>
       \/ /\ d \in fresh /\ old = {} /\ Blocked(e)
          /\ Enter(refused, [Goto(ctl, "post") EXCEPT !.rec = d, !.record = refused, !.state = "error"])
       \/ /\ d \in fresh /\ old = {} /\ ~ Blocked(e)
          /\ Enter(new, [Goto(ctl, "announce") EXCEPT !.rec = d, !.record = new,
                             !.changed = Fingerprint[new.before] # Fingerprint[Target(d)]])
    /\ UNCHANGED <<hub, poll, journal, host, status>>

\* post_status: a lost answer may hide a status that GitHub took.
Posts(state, then) ==
    /\ UNCHANGED <<hub, poll, disk>>
    /\ \/ status' = [status EXCEPT ![ctl.d] = state] /\ ctl' = [then EXCEPT !.posted = TRUE] /\ UNCHANGED faults
       \/ /\ Fault
          /\ status' \in {status, [status EXCEPT ![ctl.d] = state]}
          /\ ctl' = [then EXCEPT !.posted = FALSE]

\* Publishing in_progress is synchronization, not authorization.
Announce == ctl.at = "announce" /\ Posts("in_progress", Goto(ctl, "announced"))

Announced == ctl.at = "announced" /\ Save(ctl.record, Goto(ctl, "run"), Exit("retry"))

\* A phase of the transaction reaches the ledger.
Phase ==
    /\ ctl.at \in {"run", "undo"} /\ Step \notin Operations
    /\ LET record == [ctl.record EXCEPT !.phase = Step,
                        !.migration = CASE Step = "migration-starting" -> "started"
                                        [] Step = "migration-completed" -> "completed"
                                        [] OTHER -> @]
           c == [ctl EXCEPT !.record = record]
       IN Save(record, Forth(c), Fails(c))

\* What yolpol-deploy-internal validates first: the runtime files against the authority.
Agree(e, files) == \A f \in files : host[e].file[f] = host[e].file["authority"]

\* Mutant: an attempt on Staging is enough.
TriedOnStaging(m) == \E d \in Recorded("staging") : Target(d) = m

ProvenOnStaging(m) == Succeeded("staging", m) # {}

Possible(op) ==
    LET e == Env(ctl.d) IN
    CASE op = "staging-succeeded" -> ProvenOnStaging(Target(ctl.d))
      [] op = "exporter" -> Agree(e, {"monitoring"})
      [] op \in {"validate", "pull"} -> Agree(e, Range(Files(e)))
      [] op \in {"restore", "journal"} -> (op = "restore") = (journal[ctl.d] # {})
      [] OTHER -> Agree(e, {"runtime"}) \/ op \notin Timed

Refused(op)  == ~ Possible(op) \/ (ctl.late /\ op \in Timed)
CanFail(op)  == Refused(op) \/ op \in Unreliable
Does(op)     == ctl.at \in {"run", "undo"} /\ Step = op
Succeeds(op) == ~ Refused(op) /\ ctl' = Forth(ctl)

\* An operation that changes no release file, service or schema.
Check(op) ==
    /\ Does(op)
    /\ \/ Succeeds(op)
       \/ CanFail(op) /\ ctl' = IF op = "durability" THEN Goto(ctl, "not-durable") ELSE Fails(ctl)
    /\ UNCHANGED <<hub, poll, disk, status, faults>>

KeepJournal ==
    /\ Does("journal")
    /\ \/ Succeeds("journal") /\ journal' = [journal EXCEPT ![ctl.d] = {host[Env(ctl.d)].file["authority"]}]
       \/ CanFail("journal") /\ ctl' = Fails(ctl) /\ UNCHANGED journal
    /\ UNCHANGED <<hub, poll, ledger, host, status, faults>>

\* A file of the release is replaced as a whole.  The bootstrap's own errors are not
\* among those the transaction catches.
WriteFile(f) ==
    /\ Does(f)
    /\ LET release == IF ctl.at = "undo" THEN CHOOSE m \in journal[ctl.d] : TRUE ELSE Target(ctl.d) IN
       \/ Succeeds(f) /\ host' = [host EXCEPT ![Env(ctl.d)].file[f] = release]
       \/ f \in Unreliable /\ ctl' = Fails(ctl) /\ UNCHANGED host
       \/ f \in Unreliable /\ ctl.at = "run" /\ ctl' = Exit("retry") /\ UNCHANGED host
    /\ UNCHANGED <<hub, poll, ledger, journal, status, faults>>

\* compose up: the service takes the image its runtime file names.  It may have been
\* replaced although the operation fails.
Start(s) ==
    /\ Does(s)
    /\ LET e == Env(ctl.d)
           started == [host EXCEPT ![e].service[s] = host[e].file[IF s = "exporter" THEN "monitoring" ELSE "runtime"]]
       IN
       \/ Succeeds(s) /\ host' = started
       \/ s \in Unreliable /\ ~ Refused(s) /\ ctl' = Fails(ctl) /\ host' \in {host, started}
       \/ Refused(s) /\ ctl' = Fails(ctl) /\ UNCHANGED host
    /\ UNCHANGED <<hub, poll, ledger, journal, status, faults>>

\* The migrations are forward only; some may be applied although the operation fails.
Migrate ==
    /\ Does("migrate")
    /\ LET e == Env(ctl.d)
           schema == Max({host[e].schema, Fingerprint[Target(ctl.d)]})
       IN
       \/ Succeeds("migrate") /\ host' = [host EXCEPT ![e].schema = schema]
       \/ /\ "migrate" \in Unreliable /\ ~ Refused("migrate") /\ ctl' = Fails(ctl)
          /\ \E n \in host[e].schema .. schema : host' = [host EXCEPT ![e].schema = n]
       \/ Refused("migrate") /\ ctl' = Fails(ctl) /\ UNCHANGED host
    /\ UNCHANGED <<hub, poll, ledger, journal, status, faults>>

Perform ==
    \/ \E op \in Checks : Check(op)
    \/ KeepJournal
    \/ \E f \in Written : WriteFile(f)
    \/ \E s \in Started : Start(s)
    \/ Migrate

\* The ways a transaction ends badly.  An error while writing the record of one is
\* caught only where the code is still inside the transaction's own try.
NotDurable ==
    /\ ctl.at = "not-durable"
    /\ LET record == [ctl.record EXCEPT !.phase = "phase-c2-required", !.outcome = "failure", !.result = "phase-c2"]
           c == Goto([ctl EXCEPT !.record = record], "failed")
       IN Save(record, c, c)

Review ==
    /\ ctl.at = "review"
    /\ LET record == [ctl.record EXCEPT !.phase = "manual-review",
                        !.migration = IF @ = "started" THEN "failed" ELSE @]
       IN Save(record, Goto([ctl EXCEPT !.record = record], "failed"), Exit("retry"))

UndoFailed ==
    /\ ctl.at = "undo-failed"
    /\ LET record == [ctl.record EXCEPT !.phase = "rollback-failed", !.result = "manual-review-required"]
       IN Save(record, Goto([ctl EXCEPT !.record = record], "failed"), Exit("retry"))

\* Mutant: the outcome is written only after it was posted.
FinishUnsaved ==
    /\ ctl.at \in {"failed", "completed"}
    /\ LET record == [ctl.record EXCEPT !.outcome = IF ctl.at = "completed" THEN "success" ELSE "failure"] IN
       ctl' = [Goto(ctl, "post") EXCEPT !.record = record, !.state = record.outcome]
    /\ UNCHANGED <<hub, poll, disk, status, faults>>

Finish ==
    /\ ctl.at \in {"failed", "completed"}
    /\ LET record == IF ctl.at = "completed"
                     THEN [ctl.record EXCEPT !.phase = "completed", !.outcome = "success", !.result = "deployed"]
                     ELSE IF ctl.record.outcome = "in-progress"
                     THEN [ctl.record EXCEPT !.outcome = "failure", !.result = "failed"]
                     ELSE ctl.record
       IN Save(record, [Goto(ctl, "post") EXCEPT !.record = record, !.state = record.outcome], Exit("retry"))

Post == ctl.at = "post" /\ Posts(ctl.state, Goto(ctl, "posted"))

\* The record is written once more with the state of its synchronization.
Posted ==
    /\ ctl.at = "posted"
    /\ Save(ctl.record, Exit(IF ctl.posted THEN "handled" ELSE "retry"), Exit("retry"))
-----------------------------------------------------------------------------
\* The deadline of the transaction passes.
Late ==
    /\ ctl.at \in {"run", "undo"} /\ ~ ctl.late /\ Fault
    /\ ctl' = [ctl EXCEPT !.late = TRUE]
    /\ UNCHANGED <<hub, poll, disk, status>>

\* The host goes down: what is on disk stays, and so do the services.
Crash ==
    /\ Fault
    /\ agent' = Idle /\ ctl' = Off
    /\ UNCHANGED <<hub, seen, etag, disk, status>>

\* Root settles an attempt that died before it touched anything (Staging only).
Reconcile(d) ==
    /\ ctl.at = "off" /\ Env(d) = "staging"
    /\ ledger[d].outcome = "in-progress" /\ ledger[d].phase = "accepted"
    /\ ledger[d].migration = "never-started"
    /\ \A o \in Recorded("staging") \ {d} : ~ InDoubt(ledger[o])
    /\ host["staging"].file["authority"] = ledger[d].before
    /\ journal[d] = {}
    /\ ledger' = [ledger EXCEPT ![d].phase = "reconciled-pre-mutation", ![d].outcome = "failure",
                                ![d].result = "pre-mutation"]
    /\ UNCHANGED <<hub, poll, ctl, journal, host, status, faults>>

Control ==
    \/ Begin \/ Announce \/ Announced \/ Phase \/ Perform
    \/ NotDurable \/ Review \/ UndoFailed \/ Finish \/ Post \/ Posted

Agent == Poll \/ Invoke \/ Mark \/ EndPage

Next ==
    \/ \E d \in Deployments : Publish(d) \/ Expire(d) \/ Reconcile(d)
    \/ Agent \/ Control \/ Late \/ Crash

Spec == Init /\ [][Next]_vars

\* systemd starts the agent again and again, the controller runs on by itself, and
\* intents and tokens carry an expiry time.
Fairness == WF_vars(Agent) /\ WF_vars(Control) /\ \A d \in Deployments : WF_vars(Expire(d))

FairSpec == Spec /\ Fairness
-----------------------------------------------------------------------------
TypeOK ==
    /\ request \in Scripts
    /\ published \subseteq Deployments /\ fresh \subseteq Deployments /\ seen \subseteq published
    /\ etag \in [Environments -> SUBSET Deployments]
    /\ agent.at \in {"idle", "page", "waiting"} /\ agent.todo \subseteq agent.page
    /\ (agent.at = "waiting") = (ctl.at # "off")
    /\ ctl.at \in {"run", "undo"} => ctl.step <= Len(Steps)
    /\ \A d \in Deployments :
          /\ ledger[d].migration \in {"never-started", "started", "completed", "failed"}
          /\ ledger[d].outcome \in {"none", "in-progress", "success", "failure"}
          /\ ledger[d].before \in Releases
          /\ status[d] \in {"none", "in_progress", "success", "failure", "error"}
    /\ \A e \in Environments :
          /\ host[e].file \in [Range(Files(e)) -> Releases]
          /\ host[e].service \in [Range(Services(e)) -> Releases]
          /\ host[e].schema \in Nat

\* Whatever crashed or failed, an environment that the ledger does not block is in
\* order: its files name one release, its schema has that release's migrations, and
\* its services run it, unless it is a Staging release whose application failed after
\* its migration and may be tried again (docs/tasks/0069, "forward-retry").
HostIsAccountedFor ==
    \A e \in Environments : ~ Blocked(e) =>
       LET m == host[e].file["authority"] IN
       /\ Agree(e, Range(Files(e)))
       /\ Fingerprint[m] <= host[e].schema
       /\ \/ \A s \in Range(Services(e)) : host[e].service[s] = m
          \/ /\ e = "staging"
             /\ \E d \in Recorded(e) : /\ Target(d) = m /\ ledger[d].outcome = "failure"
                                       /\ ledger[d].migration = "completed"

\* What GitHub shows as the end of a deployment is on disk before it is shown.
StatusIsTrue ==
    \A d \in Deployments :
       /\ status[d] = "success" => Succeeded(Env(d), Target(d)) # {}
       /\ status[d] \in {"failure", "error"} => ledger[d].outcome = "failure"

\* However often GitHub lists a deployment and however many ask for the same release,
\* a release succeeds once in an environment.
OneSuccessPerTarget ==
    \A e \in Environments, m \in Releases : Cardinality(Succeeded(e, m)) <= 1

\* Production never gets a release that has not succeeded on Staging, whichever way
\* it gets there, an undo included.
ProductionFollowsStaging ==
    \A f \in Range(Files("production")) :
       LET m == host["production"].file[f] IN m = Installed \/ Succeeded("staging", m) # {}

\* Once the ledger says that a deployment's migration was begun, its attempt starts no
\* other release than its own: no older application on the newer schema.
NoWayBackAfterMigration ==
    [][\A d \in Deployments, s \in Started :
          (ledger[d].migration # "never-started" /\ s \in DOMAIN host[Env(d)].service
             /\ host'[Env(d)].service[s] # host[Env(d)].service[s] /\ ctl.d = d)
          => host'[Env(d)].service[s] = Target(d)]_vars

\* Every deployment comes to an end with the agent: crashes, lost answers and stranded
\* records delay it, and at the latest its expiry rejects it.
EveryRequestIsAnswered == \A d \in Deployments : d \in published ~> d \in seen

\* control-plane README: before a changed migration starts, failure restores the
\* previous manifest and runtime and redeploys the previous application services.
FailuresAreUndone ==
    ctl.at = "failed" /\ ctl.record.migration = "never-started" =>
       LET here == host[Env(ctl.d)] IN
       Range(here.file) \cup Range(here.service) = {ctl.record.before}
=============================================================================
