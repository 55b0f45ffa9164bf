--------------------------- MODULE TranslatedLog ---------------------------
(***************************************************************************)
(* A conversation as the readers of the database may rely on it: messages  *)
(* that are only appended, what is known of their language, whether staff  *)
(* skipped them and how far their translation is.  Nothing here says who   *)
(* translates; TranslationJobs implements it with jobs, leases and workers.*)
(***************************************************************************)
EXTENDS Naturals, Sequences

CONSTANTS
    Kinds,         \* the messages that may be written: [sender, lang]
    MaxMessages    \* bound on the length of the conversation

Senders == {"CUSTOMER", "INTERNAL_USER", "AI_AGENT", "SYSTEM"}

\* The source locale of a message against the locale of the one who is to read it.
Langs    == {"unknown", "same", "other"}

\* A translation waits for a worker or is being made, is stored, or has ended without.
Progress == {"NONE", "WAITING", "SUCCEEDED", "ENDED"}

ASSUME LogAssumption ==
    /\ Kinds \subseteq [sender : Senders, lang : Langs]
    /\ MaxMessages \in Nat

VARIABLE log

Entries == [sender : Senders, lang : Langs, skipped : BOOLEAN, status : Progress]

Positions == DOMAIN log

\* The customer may read it: never retracted once it is so.
Safe(e) == e.sender # "SYSTEM" /\ (e.lang = "same" \/ (e.lang = "other" /\ e.status = "SUCCEEDED"))

Outbound == {"INTERNAL_USER", "AI_AGENT", "SYSTEM"}

LogInit == log = << >>

\* Whether a job comes with it is the policy's choice; AI answers always get one.
Write == \E k \in Kinds :
    /\ Len(log) < MaxMessages
    /\ \E s \in {"NONE", "WAITING"} :
          /\ (s = "WAITING") => (k.lang = "other" /\ k.sender # "SYSTEM")
          /\ (k.lang = "other" /\ k.sender = "AI_AGENT") => (s = "WAITING")
          /\ log' = Append(log, [sender |-> k.sender, lang |-> k.lang, skipped |-> FALSE, status |-> s])

\* Mutant: staff may skip what the customer has seen.
SkipAny(p) ==
    /\ log[p].sender \in Outbound /\ ~log[p].skipped
    /\ log' = [log EXCEPT ![p].skipped = TRUE,
                          ![p].status = IF @ = "WAITING" THEN "ENDED" ELSE @]

\* Staff decides on a message that is not skipped.
Skip(p) ==
    /\ log[p].sender \in Outbound /\ ~log[p].skipped /\ ~Safe(log[p])
    /\ log' = [log EXCEPT ![p].skipped = TRUE,
                          ![p].status = IF @ = "WAITING" THEN "ENDED" ELSE @]

Confirm(p) == \E l \in {"same", "other"}, s \in {"NONE", "WAITING"} :
    /\ log[p].sender \in {"INTERNAL_USER", "AI_AGENT"} /\ ~log[p].skipped
    /\ log[p].lang = "unknown" /\ log[p].status = "NONE"
    /\ (s = "WAITING") => (l = "other")
    /\ (l = "other" /\ log[p].sender = "AI_AGENT") => (s = "WAITING")
    /\ log' = [log EXCEPT ![p].lang = l, ![p].status = s]

Order(p) ==
    /\ ~log[p].skipped
    /\ \/ log[p].status = "ENDED"
       \/ /\ log[p].status = "NONE" /\ log[p].lang = "other"
          /\ log[p].sender \in {"CUSTOMER", "INTERNAL_USER"}
    /\ log' = [log EXCEPT ![p].status = "WAITING"]

\* What translating does, to any number of messages at once.
Translate == \E done, failed \in SUBSET {p \in Positions : log[p].status = "WAITING"} :
    /\ done \cap failed = {} /\ done \cup failed # {}
    /\ log' = [p \in Positions |-> IF p \in done THEN [log[p] EXCEPT !.status = "SUCCEEDED"]
                                  ELSE IF p \in failed THEN [log[p] EXCEPT !.status = "ENDED"]
                                  ELSE log[p]]

LogNext == Write \/ Translate \/ \E p \in Positions : Skip(p) \/ Confirm(p) \/ Order(p)

LogSpec == LogInit /\ [][LogNext]_log

LogTypeOK == log \in Seq(Entries) /\ Len(log) <= MaxMessages
=============================================================================
