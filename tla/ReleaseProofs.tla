--------------------------- MODULE ReleaseProofs ---------------------------
(***************************************************************************)
(* Proofs about ReleaseController, for any set of deployments, releases,   *)
(* failing operations and faults.                                          *)
(***************************************************************************)
EXTENDS ReleaseController, SequenceTheorems, FiniteSetTheorems, WellFoundedInduction, TLAPS
-----------------------------------------------------------------------------
(* The order of the steps of a transaction.                                *)

\* The names of the operations and phases.
Names == Operations \cup
    {"release-authenticated", "backup-verified", "production-current-verified",
     "production-backup-deep-verified", "offserver-durability-confirmed",
     "authority-changing", "authority-active", "images-pulled", "database-ready",
     "migration-starting", "migration-completed", "application-deployed",
     "workers-deployed", "operations-exporter-deployed", "verified", "rolled-back"}

\* Every b of the list comes behind an a; every b comes before any a.
Behind(p, a, b) == \A j \in 1..Len(p) : p[j] = b => \E i \in 1..j - 1 : p[i] = a
Ahead(p, b, a)  == \A i, j \in 1..Len(p) : p[i] = a /\ p[j] = b => j < i

LEMMA Joined ==
    ASSUME NEW s \in Seq(Names), NEW t \in Seq(Names)
    PROVE  /\ s \o t \in Seq(Names)
           /\ Len(s \o t) = Len(s) + Len(t) /\ Len(s) \in Nat /\ Len(t) \in Nat
           /\ \A i \in 1..Len(s) : (s \o t)[i] = s[i]
           /\ \A i \in 1..Len(t) : (s \o t)[Len(s) + i] = t[i]
           /\ Range(s \o t) = Range(s) \cup Range(t)
<1>1. /\ s \o t \in Seq(Names)
      /\ Len(s \o t) = Len(s) + Len(t) /\ Len(s) \in Nat /\ Len(t) \in Nat
      /\ \A i \in 1..Len(s) + Len(t) : (s \o t)[i] = IF i <= Len(s) THEN s[i] ELSE t[i - Len(s)]
  BY ConcatProperties, LenProperties
<1>2. \A i \in 1..Len(s) : (s \o t)[i] = s[i]
  BY <1>1
<1>3. \A i \in 1..Len(t) : (s \o t)[Len(s) + i] = t[i]
  <2> TAKE i \in 1..Len(t)
  <2>1. /\ Len(s) + i \in 1..Len(s) + Len(t) /\ ~ (Len(s) + i <= Len(s))
        /\ (Len(s) + i) - Len(s) = i
    BY <1>1
  <2> QED
    BY <1>1, <2>1
<1>4. /\ DOMAIN s = 1..Len(s) /\ DOMAIN t = 1..Len(t)
      /\ DOMAIN (s \o t) = 1..Len(s) + Len(t)
  BY <1>1, LenProperties
<1>5. ASSUME NEW x \in Range(s \o t)
      PROVE  x \in Range(s) \cup Range(t)
  <2>1. PICK i \in 1..Len(s) + Len(t) : x = (s \o t)[i]
    BY <1>4 DEF Range
  <2>2. i <= Len(s) \/ i - Len(s) \in 1..Len(t)
    BY <1>1
  <2> QED
    BY <1>1, <1>4, <2>1, <2>2 DEF Range
<1>6. ASSUME NEW x \in Range(s) \cup Range(t)
      PROVE  x \in Range(s \o t)
  <2>1. CASE x \in Range(s)
    <3>1. PICK i \in 1..Len(s) : x = s[i]
      BY <1>4, <2>1 DEF Range
    <3>2. i \in 1..Len(s) + Len(t)
      BY <1>1
    <3> QED
      BY <1>2, <1>4, <3>1, <3>2 DEF Range
  <2>2. CASE x \in Range(t)
    <3>1. PICK i \in 1..Len(t) : x = t[i]
      BY <1>4, <2>2 DEF Range
    <3>2. Len(s) + i \in 1..Len(s) + Len(t)
      BY <1>1
    <3> QED
      BY <1>3, <1>4, <3>1, <3>2 DEF Range
  <2> QED
    BY <2>1, <2>2
<1> QED
  BY <1>1, <1>2, <1>3, <1>5, <1>6

\* Where something new is put behind a list.
LEMMA Orders ==
    ASSUME NEW s \in Seq(Names), NEW t \in Seq(Names)
    PROVE  /\ \A a, b : Behind(s, a, b) /\ (a \in Range(s) \/ Behind(t, a, b))
                           => Behind(s \o t, a, b)
           /\ \A a, b : b \notin Range(s) => Behind(s, a, b)
           /\ \A a, b : a \notin Range(s) \/ Ahead(s, b, a) =>
                 (b \notin Range(t) => Ahead(s \o t, b, a))
<1> DEFINE m == Len(s)
           n == Len(t)
<1>1. /\ Len(s \o t) = m + n /\ m \in Nat /\ n \in Nat
      /\ \A i \in 1..m : (s \o t)[i] = s[i]
      /\ \A i \in 1..n : (s \o t)[m + i] = t[i]
      /\ DOMAIN s = 1..m /\ DOMAIN t = 1..n
  BY Joined, LenProperties
<1>2. \A i \in 1..m + n : i \in 1..m \/ (i - m \in 1..n /\ i = m + (i - m))
  BY <1>1
<1>3. ASSUME NEW a, NEW b, Behind(s, a, b), a \in Range(s) \/ Behind(t, a, b),
             NEW j \in 1..m + n, (s \o t)[j] = b
      PROVE  \E i \in 1..j - 1 : (s \o t)[i] = a
  <2>1. CASE j \in 1..m
    <3>1. PICK i \in 1..j - 1 : s[i] = a
      BY <1>1, <1>3, <2>1 DEF Behind
    <3> QED
      BY <1>1, <2>1, <3>1
  <2>2. CASE j \notin 1..m /\ a \in Range(s)
    <3>1. PICK i \in 1..m : s[i] = a
      BY <1>1, <2>2 DEF Range
    <3> QED
      BY <1>1, <2>2, <3>1
  <2>3. CASE j \notin 1..m /\ Behind(t, a, b)
    <3>1. j - m \in 1..n /\ t[j - m] = b
      BY <1>1, <1>2, <1>3, <2>3
    <3>2. PICK i \in 1..j - m - 1 : t[i] = a
      BY <1>1, <2>3, <3>1 DEF Behind
    <3>3. m + i \in 1..j - 1 /\ i \in 1..n
      BY <1>1, <3>1
    <3> QED
      BY <1>1, <3>2, <3>3
  <2> QED
    BY <1>3, <2>1, <2>2, <2>3
<1>4. ASSUME NEW a, NEW b, b \notin Range(s)
      PROVE  Behind(s, a, b)
  BY <1>1, <1>4 DEF Behind, Range
<1>5. ASSUME NEW a, NEW b, a \notin Range(s) \/ Ahead(s, b, a), b \notin Range(t)
      PROVE  Ahead(s \o t, b, a)
  <2> SUFFICES ASSUME NEW i \in 1..m + n, NEW j \in 1..m + n,
                      (s \o t)[i] = a, (s \o t)[j] = b
               PROVE  j < i
    BY <1>1 DEF Ahead
  <2>1. j \in 1..m
    BY <1>1, <1>2, <1>5 DEF Range
  <2>2. CASE i \notin 1..m
    BY <1>1, <2>1, <2>2
  <2>3. CASE i \in 1..m
    <3>1. a \in Range(s) /\ s[i] = a /\ s[j] = b
      BY <1>1, <2>1, <2>3 DEF Range
    <3> QED
      BY <1>5, <2>1, <2>3, <3>1 DEF Ahead
  <2> QED
    BY <2>2, <2>3
<1> HIDE DEF m, n
<1>6. \A a, b : Behind(s, a, b) /\ (a \in Range(s) \/ Behind(t, a, b)) => Behind(s \o t, a, b)
  BY <1>1, <1>3 DEF Behind
<1> QED
  BY <1>4, <1>5, <1>6

Migrations == {"migration-starting", "migrate", "migration-completed"}
Switches   == {"journal", "authority-changing"} \cup Written

LEMMA Lists ==
    ASSUME NEW e \in Environments
    PROVE  /\ Files(e) \in Seq(Names) /\ Services(e) \in Seq(Names)
           /\ Range(Files(e)) \subseteq Written /\ {"authority", "runtime"} \subseteq Range(Files(e))
           /\ Range(Services(e)) \subseteq Started
           /\ "monitoring" \in Range(Files(e)) <=> e = "staging"
           /\ "exporter" \in Range(Services(e)) <=> e = "staging"
<1>1. CASE e = "staging"
  <2>1. Files(e) = <<"authority", "runtime", "monitoring">>
        /\ Services(e) = <<"web", "workers", "exporter">>
    BY <1>1 DEF Files, Services
  <2>2. /\ Range(<<"authority", "runtime", "monitoring">>) = {"authority", "runtime", "monitoring"}
        /\ Range(<<"web", "workers", "exporter">>) = {"web", "workers", "exporter"}
    BY DEF Range, Names, Operations, Checks, Started, Written
  <2>3. /\ <<"authority", "runtime", "monitoring">> \in Seq(Names)
        /\ <<"web", "workers", "exporter">> \in Seq(Names)
    BY DEF Names, Operations, Started, Written
  <2> QED
    BY <1>1, <2>1, <2>2, <2>3 DEF Written, Started
<1>2. CASE e = "production"
  <2>1. Files(e) = <<"authority", "runtime">> /\ Services(e) = <<"web", "workers">>
    BY <1>2 DEF Files, Services
  <2>2. /\ Range(<<"authority", "runtime">>) = {"authority", "runtime"}
        /\ Range(<<"web", "workers">>) = {"web", "workers"}
    BY DEF Range, Names, Operations, Checks, Started, Written
  <2>3. <<"authority", "runtime">> \in Seq(Names) /\ <<"web", "workers">> \in Seq(Names)
    BY DEF Names, Operations, Started, Written
  <2> QED
    <3>1. e # "staging" /\ "monitoring" \notin Range(Files(e)) /\ "exporter" \notin Range(Services(e))
      BY <1>2, <2>1, <2>2
    <3>2. Files(e) \in Seq(Names) /\ Services(e) \in Seq(Names)
      BY <2>1, <2>3
    <3>3. Range(Files(e)) = {"authority", "runtime"} /\ Range(Services(e)) = {"web", "workers"}
      BY <2>1, <2>2
    <3> QED
      BY <3>1, <3>2, <3>3 DEF Written, Started
<1> QED
  BY <1>1, <1>2 DEF Environments

LEMMA PreparationSteps ==
    ASSUME NEW e \in Environments, NEW changed \in BOOLEAN
    PROVE  /\ Preparation(e, changed) \in Seq(Names)
           /\ Range(Preparation(e, changed))
                 \cap (Switches \cup Started \cup Migrations \cup {"verified"}) = {}
           /\ e = "production" => "staging-succeeded" \in Range(Preparation(e, changed))
<1> DEFINE a == <<"authenticate", "release-authenticated", "validate">>
           b == IF e = "production" THEN <<"staging-succeeded">> ELSE <<>>
           c == IF ~ changed THEN <<>>
                ELSE IF e = "staging" THEN <<"backup", "backup-verified">>
                ELSE <<"health", "production-current-verified", "backup",
                       "production-backup-deep-verified", "durability",
                       "offserver-durability-confirmed">>
           other == {"authenticate", "release-authenticated", "validate", "staging-succeeded",
                     "backup", "backup-verified", "health", "production-current-verified",
                     "production-backup-deep-verified", "durability",
                     "offserver-durability-confirmed"}
<1>1. a \in Seq(Names) /\ Range(a) \subseteq other
  BY DEF Range, Names, Operations, Checks, Started, Written
<1>2. /\ b \in Seq(Names) /\ Range(b) \subseteq other
      /\ e = "production" => "staging-succeeded" \in Range(b)
  <2> DEFINE t == <<"staging-succeeded">>
  <2>1. t \in Seq(Names) /\ Range(t) = {"staging-succeeded"}
    BY DEF Range, Names, Operations, Checks
  <2>2. << >> \in Seq(Names) /\ Range(<< >>) = {}
    BY DEF Range
  <2>3. (b = t /\ e = "production") \/ (b = << >> /\ e # "production")
    OBVIOUS
  <2> HIDE DEF t, b
  <2> QED
    BY <2>1, <2>2, <2>3
<1>3. c \in Seq(Names) /\ Range(c) \subseteq other
  <2> DEFINE s == <<"backup", "backup-verified">>
             t == <<"health", "production-current-verified", "backup",
                    "production-backup-deep-verified", "durability",
                    "offserver-durability-confirmed">>
  <2>1. s \in Seq(Names) /\ Range(s) \subseteq other
    BY DEF Range, Names, Operations, Checks
  <2>2. t \in Seq(Names) /\ Range(t) \subseteq other
    BY DEF Range, Names, Operations, Checks
  <2>3. << >> \in Seq(Names) /\ Range(<< >>) = {}
    BY DEF Range
  <2>4. c = << >> \/ c = s \/ c = t
    <3> HIDE DEF s, t
    <3> QED
      BY DEF s, t
  <2> HIDE DEF s, t, c
  <2> QED
    BY <2>1, <2>2, <2>3, <2>4
<1>4. Preparation(e, changed) = (a \o b) \o c
  BY DEF Preparation
<1>5. other \cap (Switches \cup Started \cup Migrations \cup {"verified"}) = {}
  BY DEF Switches, Started, Migrations, Written
<1> HIDE DEF a, b, c, other
<1>6. a \o b \in Seq(Names) /\ Range(a \o b) = Range(a) \cup Range(b)
  BY <1>1, <1>2, Joined
<1>7. (a \o b) \o c \in Seq(Names) /\ Range((a \o b) \o c) = Range(a \o b) \cup Range(c)
  BY <1>3, <1>6, Joined
<1> QED
  BY <1>1, <1>2, <1>3, <1>4, <1>5, <1>6, <1>7

LEMMA SwitchSteps ==
    ASSUME NEW e \in Environments
    PROVE  /\ Switch(e) \in Seq(Names)
           /\ Switches \cap Range(Switch(e)) = {"journal", "authority-changing"} \cup Range(Files(e))
           /\ Range(Switch(e)) \cap (Started \cup Migrations \cup {"durability", "verified"}) = {}
           /\ Behind(Switch(e), "journal", "authority-changing")
           /\ \A f \in Written : Behind(Switch(e), "authority-changing", f)
<1> DEFINE a == <<"journal", "authority-changing">>
           c == <<"authority-active", "pull", "images-pulled", "database", "database-ready">>
<1>1. /\ a \in Seq(Names) /\ Range(a) = {"journal", "authority-changing"}
      /\ Behind(a, "journal", "authority-changing")
  BY DEF Range, Behind, Names, Operations, Checks, Started, Written
<1>2. /\ c \in Seq(Names)
      /\ Range(c) = {"authority-active", "pull", "images-pulled", "database", "database-ready"}
  BY DEF Range, Names, Operations, Checks, Started, Written
<1>3. Switch(e) = (a \o Files(e)) \o c
  BY DEF Switch
<1>4. /\ Files(e) \in Seq(Names) /\ Range(Files(e)) \subseteq Written
      /\ {"authority", "runtime"} \subseteq Range(Files(e))
  BY Lists
<1> HIDE DEF a, c
<1>0. a \o Files(e) \in Seq(Names) /\ Range(a \o Files(e)) = Range(a) \cup Range(Files(e))
  BY <1>1, <1>4, Joined
<1>5. /\ a \o Files(e) \in Seq(Names) /\ Range(a \o Files(e)) = Range(a) \cup Range(Files(e))
      /\ Switch(e) \in Seq(Names) /\ Range(Switch(e)) = Range(a \o Files(e)) \cup Range(c)
  BY <1>0, <1>2, <1>3, Joined
<1>6. Behind(Switch(e), "journal", "authority-changing")
  <2>1. Behind(a \o Files(e), "journal", "authority-changing")
    BY <1>1, <1>4, Orders
  <2>2. "journal" \in Range(a \o Files(e))
    BY <1>1, <1>5
  <2> QED
    BY <1>2, <1>3, <1>5, <2>1, <2>2, Orders
<1>7. ASSUME NEW f \in Written
      PROVE  Behind(Switch(e), "authority-changing", f)
  <2>1. Behind(a, "authority-changing", f)
    BY <1>1, <1>4, Orders DEF Written
  <2>2. Behind(a \o Files(e), "authority-changing", f)
    BY <1>1, <1>4, <2>1, Orders
  <2>3. "authority-changing" \in Range(a \o Files(e))
    BY <1>1, <1>5
  <2>4. Behind((a \o Files(e)) \o c, "authority-changing", f)
    BY <1>2, <1>5, <2>2, <2>3, Orders
  <2> QED
    BY <1>3, <2>4
<1> QED
  BY <1>1, <1>2, <1>4, <1>5, <1>6, <1>7 DEF Switches, Written, Started, Migrations

LEMMA MigrationSteps ==
    ASSUME NEW changed \in BOOLEAN
    PROVE  /\ Migration(changed) \in Seq(Names)
           /\ Range(Migration(changed)) = IF changed THEN Migrations ELSE {}
           /\ Behind(Migration(changed), "migration-starting", "migrate")
           /\ Behind(Migration(changed), "migrate", "migration-completed")
<1>1. CASE changed
  <2> DEFINE m == <<"migration-starting", "migrate", "migration-completed">>
  <2>1. /\ m \in Seq(Names) /\ Range(m) = Migrations
        /\ Behind(m, "migration-starting", "migrate")
        /\ Behind(m, "migrate", "migration-completed")
    BY DEF Range, Migrations, Behind, Names, Operations, Checks, Started, Written
  <2> QED
    BY <1>1, <2>1 DEF Migration
<1>2. CASE ~ changed
  BY <1>2 DEF Migration, Range, Behind
<1> QED
  BY <1>1, <1>2


LEMMA RolloutSteps ==
    ASSUME NEW e \in Environments
    PROVE  /\ Rollout(e) \in Seq(Names)
           /\ Len(Rollout(e)) >= 1 /\ Rollout(e)[Len(Rollout(e))] = "verified"
           /\ Started \cap Range(Rollout(e)) = Range(Services(e))
           /\ Range(Rollout(e)) \cap (Switches \cup Migrations \cup {"durability"}) = {}
           /\ \A s \in Range(Services(e)) : Behind(Rollout(e), s, "verified")
<1> DEFINE a == <<"web", "application-deployed", "workers", "workers-deployed">>
           x == <<"exporter", "operations-exporter-deployed">>
           b == IF e = "staging" THEN x ELSE << >>
           c == <<"health", "verified">>
           ab == a \o b
<1>1. /\ a \in Seq(Names)
      /\ Range(a) = {"web", "application-deployed", "workers", "workers-deployed"}
  BY DEF Range, Names, Operations, Started
<1>2. /\ b \in Seq(Names)
      /\ Range(b) = IF e = "staging" THEN {"exporter", "operations-exporter-deployed"} ELSE {}
  <2>1. x \in Seq(Names) /\ Range(x) = {"exporter", "operations-exporter-deployed"}
    BY DEF Range, Names, Operations, Started
  <2>2. << >> \in Seq(Names) /\ Range(<< >>) = {}
    BY DEF Range
  <2>3. (b = x /\ e = "staging") \/ (b = << >> /\ e # "staging")
    OBVIOUS
  <2> HIDE DEF b, x
  <2> QED
    BY <2>1, <2>2, <2>3
<1>3. /\ c \in Seq(Names) /\ Range(c) = {"health", "verified"} /\ Len(c) = 2 /\ c[2] = "verified"
  BY DEF Range, Names, Operations, Checks
<1>4. Rollout(e) = ab \o c
  BY DEF Rollout
<1>5. Range(Services(e)) = IF e = "staging" THEN Started ELSE {"web", "workers"}
  <2>1. /\ Range(<<"web", "workers", "exporter">>) = Started
        /\ Range(<<"web", "workers">>) = {"web", "workers"}
    BY DEF Range, Started
  <2> QED
    BY <2>1 DEF Services
<1> HIDE DEF a, b, c
<1>6. ab \in Seq(Names) /\ Range(ab) = Range(a) \cup Range(b) /\ Len(ab) \in Nat
  BY <1>1, <1>2, Joined, LenProperties
<1> HIDE DEF ab
<1>7. /\ Rollout(e) \in Seq(Names) /\ Range(Rollout(e)) = Range(ab) \cup Range(c)
      /\ Len(Rollout(e)) = Len(ab) + 2 /\ Rollout(e)[Len(ab) + 2] = "verified"
  <2>1. /\ ab \o c \in Seq(Names) /\ Range(ab \o c) = Range(ab) \cup Range(c)
        /\ Len(ab \o c) = Len(ab) + Len(c)
        /\ \A i \in 1..Len(c) : (ab \o c)[Len(ab) + i] = c[i]
    BY <1>3, <1>6, Joined
  <2>2. (ab \o c)[Len(ab) + 2] = c[2]
    BY <1>3, <2>1
  <2> QED
    BY <1>3, <1>4, <2>1, <2>2
<1>8. ASSUME NEW s \in Range(Services(e))
      PROVE  Behind(Rollout(e), s, "verified")
  <2>1. "verified" \notin Range(ab) /\ s \in Range(ab)
    BY <1>1, <1>2, <1>5, <1>6 DEF Started
  <2>2. Behind(ab, s, "verified")
    BY <1>6, <2>1, Orders
  <2>3. Behind(ab \o c, s, "verified")
    BY <1>3, <1>6, <2>1, <2>2, Orders
  <2> QED
    BY <1>4, <2>3
<1>9. Started \cap Range(Rollout(e)) = Range(Services(e))
  BY <1>1, <1>2, <1>3, <1>5, <1>6, <1>7 DEF Started
<1>10. Range(Rollout(e)) \cap (Switches \cup Migrations \cup {"durability"}) = {}
  BY <1>1, <1>2, <1>3, <1>6, <1>7 DEF Switches, Migrations, Written
<1> QED
  BY <1>6, <1>7, <1>8, <1>9, <1>10

\* What the proofs need to know of the order of a transaction: Staging first, the journal
\* before the authority, the files before the migration and the services, the last step
\* behind all of them.
LEMMA PlanSteps ==
    ASSUME NEW e \in Environments, NEW changed \in BOOLEAN
    PROVE  /\ Plan(e, changed) \in Seq(Names)
           /\ Len(Plan(e, changed)) >= 1
           /\ Plan(e, changed)[Len(Plan(e, changed))] = "verified"
           /\ Range(Plan(e, changed)) \cap Written = Range(Files(e))
           /\ Range(Plan(e, changed)) \cap Started = Range(Services(e))
           /\ ~ changed => Range(Plan(e, changed)) \cap Migrations = {}
           /\ Ahead(Plan(e, changed), "durability", "authority-changing")
           /\ Behind(Plan(e, changed), "journal", "authority-changing")
           /\ e = "production" =>
                 Behind(Plan(e, changed), "staging-succeeded", "authority-changing")
           /\ \A f \in Written : Behind(Plan(e, changed), "authority-changing", f)
           /\ \A f \in Range(Files(e)), s \in Started \cup Migrations \cup {"verified"} :
                 Behind(Plan(e, changed), f, s)
           /\ Behind(Plan(e, changed), "migration-starting", "migrate")
           /\ Behind(Plan(e, changed), "migrate", "migration-completed")
           /\ changed => Behind(Plan(e, changed), "migrate", "verified")
           /\ \A s \in Range(Services(e)) : Behind(Plan(e, changed), s, "verified")
<1> DEFINE a == Preparation(e, changed)
           b == Switch(e)
           c == Migration(changed)
           d == Rollout(e)
           ab == a \o b
           abc == ab \o c
           p == abc \o d
<1>1. /\ a \in Seq(Names) /\ Range(a) \cap (Switches \cup Started \cup Migrations) = {}
      /\ e = "production" => "staging-succeeded" \in Range(a)
      /\ "verified" \notin Range(a)
  BY PreparationSteps
<1>2. /\ b \in Seq(Names)
      /\ Switches \cap Range(b) = {"journal", "authority-changing"} \cup Range(Files(e))
      /\ Range(b) \cap (Started \cup Migrations \cup {"durability", "verified"}) = {}
      /\ Behind(b, "journal", "authority-changing")
      /\ \A f \in Written : Behind(b, "authority-changing", f)
  BY SwitchSteps
<1>3. /\ c \in Seq(Names) /\ Range(c) = IF changed THEN Migrations ELSE {}
      /\ Behind(c, "migration-starting", "migrate")
      /\ Behind(c, "migrate", "migration-completed")
  BY MigrationSteps
<1>4. /\ d \in Seq(Names) /\ Len(d) \in Nat /\ Len(d) >= 1 /\ d[Len(d)] = "verified"
      /\ Started \cap Range(d) = Range(Services(e))
      /\ Range(d) \cap (Switches \cup Migrations \cup {"durability"}) = {}
      /\ \A s \in Range(Services(e)) : Behind(d, s, "verified")
  BY RolloutSteps, LenProperties
<1>5. Plan(e, changed) = p
  BY DEF Plan
<1>6. /\ Range(Files(e)) \subseteq Written /\ Range(Services(e)) \subseteq Started
      /\ Written \subseteq Switches /\ {"journal", "authority-changing"} \subseteq Switches
      /\ Switches \cap (Started \cup Migrations \cup {"verified", "durability", "staging-succeeded"}) = {}
      /\ Started \cap (Migrations \cup {"verified"}) = {} /\ "verified" \notin Migrations
  BY Lists DEF Switches, Written, Started, Migrations
<1> HIDE DEF a, b, c, d
<1>7. /\ ab \in Seq(Names) /\ Range(ab) = Range(a) \cup Range(b)
      /\ \A x, y : (Behind(a, x, y) \/ y \notin Range(a)) /\ (x \in Range(a) \/ Behind(b, x, y))
                      => Behind(ab, x, y)
  BY <1>1, <1>2, Joined, Orders
<1> HIDE DEF ab
<1>8. /\ abc \in Seq(Names) /\ Range(abc) = Range(ab) \cup Range(c)
      /\ \A x, y : (Behind(ab, x, y) \/ y \notin Range(ab)) /\ (x \in Range(ab) \/ Behind(c, x, y))
                      => Behind(abc, x, y)
  BY <1>3, <1>7, Joined, Orders
<1> HIDE DEF abc
<1>9. /\ p \in Seq(Names) /\ Range(p) = Range(abc) \cup Range(d)
      /\ Len(p) = Len(abc) + Len(d) /\ Len(abc) \in Nat /\ p[Len(abc) + Len(d)] = "verified"
      /\ \A x, y : (Behind(abc, x, y) \/ y \notin Range(abc)) /\ (x \in Range(abc) \/ Behind(d, x, y))
                      => Behind(p, x, y)
  BY <1>4, <1>8, Joined, Orders
<1> HIDE DEF p
<1>10. Behind(p, "journal", "authority-changing")
  BY <1>1, <1>2, <1>6, <1>7, <1>8, <1>9
<1>11. e = "production" => Behind(p, "staging-succeeded", "authority-changing")
  BY <1>1, <1>6, <1>7, <1>8, <1>9
<1>12. ASSUME NEW f \in Written
       PROVE  Behind(p, "authority-changing", f)
  BY <1>1, <1>2, <1>6, <1>7, <1>8, <1>9
<1>13. ASSUME NEW f \in Range(Files(e)), NEW s \in Started \cup Migrations \cup {"verified"}
       PROVE  Behind(p, f, s)
  <2>1. f \in Range(ab) /\ s \notin Range(ab) /\ f \in Range(abc)
    BY <1>1, <1>2, <1>6, <1>7, <1>8
  <2>2. Behind(ab, f, s)
    BY <1>7, <2>1, Orders
  <2>3. Behind(abc, f, s)
    BY <1>8, <2>1
  <2> QED
    BY <1>9, <2>1, <2>3
<1>14. ASSUME NEW x \in Migrations, NEW y \in Migrations, Behind(c, x, y)
       PROVE  Behind(p, x, y)
  <2>1. x \notin Range(ab) /\ y \notin Range(ab)
    BY <1>1, <1>2, <1>7
  <2>2. Behind(abc, x, y)
    BY <1>8, <1>14, <2>1
  <2>4. Behind(d, x, y)
    BY <1>4, Orders
  <2> QED
    BY <1>9, <2>2, <2>4
<1>15. changed => Behind(p, "migrate", "verified")
  <2> SUFFICES ASSUME changed PROVE Behind(p, "migrate", "verified")
    OBVIOUS
  <2>1. "migrate" \in Range(abc) /\ "verified" \notin Range(abc)
    BY <1>1, <1>2, <1>3, <1>6, <1>7, <1>8 DEF Migrations
  <2> QED
    BY <1>9, <2>1
<1>16. ASSUME NEW s \in Range(Services(e))
       PROVE  Behind(p, s, "verified")
  BY <1>1, <1>2, <1>3, <1>4, <1>6, <1>7, <1>8, <1>9
<1>17. Ahead(p, "durability", "authority-changing")
  <2>1. Ahead(ab, "durability", "authority-changing")
    BY <1>1, <1>2, <1>6, Orders DEF ab
  <2>2. Ahead(abc, "durability", "authority-changing")
    BY <1>3, <1>6, <1>7, <2>1, Orders DEF abc, Migrations
  <2> QED
    BY <1>4, <1>8, <2>2, Orders DEF p
<1>21. Behind(p, "migration-starting", "migrate") /\ Behind(p, "migrate", "migration-completed")
  BY <1>3, <1>14 DEF Migrations
<1>18. Range(p) \cap Written = Range(Files(e)) /\ Range(p) \cap Started = Range(Services(e))
  <2>1. Range(p) = Range(a) \cup Range(b) \cup Range(c) \cup Range(d)
    BY <1>7, <1>8, <1>9
  <2>2. /\ Range(a) \cap Written = {} /\ Range(c) \cap Written = {} /\ Range(d) \cap Written = {}
        /\ Range(a) \cap Started = {} /\ Range(b) \cap Started = {} /\ Range(c) \cap Started = {}
    BY <1>1, <1>2, <1>3, <1>4, <1>6
  <2>3. Range(b) \cap Written = Range(Files(e))
    BY <1>2, <1>6 DEF Written
  <2> QED
    BY <1>4, <2>1, <2>2, <2>3
<1>19. ~ changed => Range(p) \cap Migrations = {}
  BY <1>1, <1>2, <1>3, <1>4, <1>6, <1>7, <1>8, <1>9
<1>20. p \in Seq(Names) /\ Len(p) >= 1 /\ p[Len(p)] = "verified"
  BY <1>4, <1>9
<1> QED
  BY <1>5, <1>10, <1>11, <1>12, <1>13, <1>15, <1>16, <1>17, <1>18, <1>19, <1>20, <1>21

LEMMA UndoSteps ==
    ASSUME NEW e \in Environments
    PROVE  /\ UndoPlan(e) \in Seq(Names)
           /\ Len(UndoPlan(e)) >= 1 /\ UndoPlan(e)[Len(UndoPlan(e))] = "rolled-back"
           /\ Range(UndoPlan(e)) = {"restore", "rolled-back"} \cup Range(Files(e)) \cup Range(Services(e))
           /\ \A f \in Range(Files(e)), s \in Started \cup {"rolled-back"} :
                 Behind(UndoPlan(e), f, s)
           /\ \A s \in Range(Services(e)) : Behind(UndoPlan(e), s, "rolled-back")
<1> DEFINE a == <<"restore">>
           b == Files(e)
           c == Services(e)
           d == <<"rolled-back">>
           ab == a \o b
           abc == ab \o c
           p == abc \o d
<1>1. a \in Seq(Names) /\ Range(a) = {"restore"}
  BY DEF Range, Names, Operations, Checks
<1>2. /\ b \in Seq(Names) /\ c \in Seq(Names)
      /\ Range(b) \subseteq Written /\ Range(c) \subseteq Started
  BY Lists
<1>3. d \in Seq(Names) /\ Range(d) = {"rolled-back"} /\ Len(d) = 1 /\ d[1] = "rolled-back"
  BY DEF Range, Names
<1>4. UndoPlan(e) = p
  BY DEF UndoPlan
<1> HIDE DEF a, b, c, d
<1>a. ab \in Seq(Names) /\ Range(ab) = Range(a) \cup Range(b)
  BY <1>1, <1>2, Joined
<1> HIDE DEF ab
<1>5. /\ ab \in Seq(Names) /\ Range(ab) = Range(a) \cup Range(b)
      /\ "rolled-back" \notin Range(ab) /\ Range(ab) \cap Started = {}
  BY <1>a, <1>1, <1>2 DEF Written, Started
<1>b. /\ abc \in Seq(Names) /\ Range(abc) = Range(ab) \cup Range(c)
      /\ \A x, y : Behind(ab, x, y) /\ (x \in Range(ab) \/ Behind(c, x, y)) => Behind(abc, x, y)
  BY <1>2, <1>5, Joined, Orders
<1> HIDE DEF abc
<1>6. /\ abc \in Seq(Names) /\ Range(abc) = Range(ab) \cup Range(c)
      /\ "rolled-back" \notin Range(abc) /\ Len(abc) \in Nat
      /\ \A x, y : Behind(ab, x, y) /\ (x \in Range(ab) \/ Behind(c, x, y)) => Behind(abc, x, y)
  BY <1>b, <1>2, <1>5, LenProperties DEF Started
<1>7. /\ p \in Seq(Names) /\ Range(p) = Range(abc) \cup Range(d)
      /\ Len(p) = Len(abc) + 1 /\ p[Len(abc) + 1] = "rolled-back"
      /\ \A x, y : Behind(abc, x, y) /\ (x \in Range(abc) \/ Behind(d, x, y)) => Behind(p, x, y)
  <2>1. /\ p \in Seq(Names) /\ Range(p) = Range(abc) \cup Range(d)
        /\ Len(p) = Len(abc) + Len(d)
        /\ \A i \in 1..Len(d) : p[Len(abc) + i] = d[i]
    BY <1>3, <1>6, Joined
  <2>2. p[Len(abc) + 1] = "rolled-back"
    BY <1>3, <2>1
  <2>3. \A x, y : Behind(abc, x, y) /\ (x \in Range(abc) \/ Behind(d, x, y)) => Behind(p, x, y)
    BY <1>3, <1>6, Orders
  <2> QED
    BY <1>3, <2>1, <2>2, <2>3
<1> HIDE DEF p
<1>8. ASSUME NEW f \in Range(Files(e)), NEW s \in Started \cup {"rolled-back"}
      PROVE  Behind(p, f, s)
  <2>1. f \in Range(ab) /\ s \notin Range(ab) /\ f \in Range(abc)
    BY <1>5, <1>6 DEF b
  <2>2. Behind(ab, f, s)
    BY <1>5, <2>1, Orders
  <2>3. Behind(abc, f, s)
    BY <1>6, <2>1, <2>2
  <2> QED
    BY <1>7, <2>1, <2>3
<1>9. ASSUME NEW s \in Range(Services(e))
      PROVE  Behind(p, s, "rolled-back")
  <2>1. s \in Range(abc)
    BY <1>6 DEF c
  <2>2. Behind(abc, s, "rolled-back")
    BY <1>6, Orders
  <2> QED
    BY <1>7, <2>1, <2>2
<1> QED
  BY <1>1, <1>3, <1>4, <1>5, <1>6, <1>7, <1>8, <1>9 DEF b, c
-----------------------------------------------------------------------------
(* The inductive invariant.                                                *)

RecordPhases == Names \cup
    {"none", "accepted", "manual-review-blocked", "manual-reconciliation-blocked",
     "phase-c2-required", "manual-review", "rollback-failed", "completed",
     "reconciled-pre-mutation"}
Results == {"none", "database-review", "reconciliation", "phase-c2", "manual-review-required",
            "deployed", "failed", "pre-mutation"}

Records ==
    [phase : RecordPhases, migration : {"never-started", "started", "completed", "failed"},
     outcome : {"none", "in-progress", "success", "failure"}, result : Results,
     before : Releases]

\* An attempt from its record to its outcome; the answer to GitHub.
Attempt   == {"announce", "announced", "run", "undo", "not-durable", "review", "undo-failed",
              "failed", "completed"}
Answering == {"post", "posted"}

Controllers ==
    [at : {"off", "begin", "exited"} \cup Attempt \cup Answering,
     d : Nat, rec : Nat, step : Nat \ {0}, changed : BOOLEAN, late : BOOLEAN,
     state : {"none", "retry", "rejected", "handled", "success", "failure", "error"},
     posted : BOOLEAN, record : Records]

Agents ==
    [at : {"idle", "page", "waiting"}, env : Environments, todo : SUBSET Deployments,
     page : SUBSET Deployments, retry : BOOLEAN]

HostRows(e) ==
    [file : [Range(Files(e)) -> Releases], service : [Range(Services(e)) -> Releases],
     schema : Nat]

Typed ==
    /\ request \in Scripts
    /\ published \subseteq Deployments /\ fresh \subseteq Deployments /\ seen \subseteq published
    /\ etag \in [Environments -> SUBSET Deployments]
    /\ agent \in Agents /\ agent.todo \subseteq agent.page /\ agent.page \subseteq published
    /\ agent.at = "waiting" <=> ctl.at # "off"
    /\ ctl \in Controllers
    /\ ctl.at # "off" => ctl.d \in published
    /\ ctl.at \in Attempt \cup Answering => ctl.rec \in Deployments
    /\ ctl.at \in {"run", "undo"} => ctl.step <= Len(Steps)
    /\ ledger \in [Deployments -> Records]
    /\ journal \in [Deployments -> SUBSET Releases]
    /\ host = [e \in Environments |-> host[e]]
    /\ \A e \in Environments : host[e] \in HostRows(e)
    /\ status \in [Deployments -> {"none", "in_progress", "success", "failure", "error"}]
    /\ faults \in Nat

\* What HostIsAccountedFor says of an environment that is not blocked.
Accounted(e) ==
    LET m == host[e].file["authority"] IN
    /\ Agree(e, Range(Files(e)))
    /\ Fingerprint[m] <= host[e].schema
    /\ \/ \A s \in Range(Services(e)) : host[e].service[s] = m
       \/ /\ e = "staging"
          /\ \E d \in Recorded(e) : /\ Target(d) = m /\ ledger[d].outcome = "failure"
                                    /\ ledger[d].migration = "completed"

Proven(m) == m = Installed \/ Succeeded("staging", m) # {}

\* The step op has been taken.
Done(op) == \E i \in 1 .. ctl.step - 1 : Steps[i] = op

\* A record without an outcome is none; at most one attempt of an environment is open,
\* and none for a release that has succeeded there.
Ordered ==
    \A c \in Deployments :
        /\ ledger[c].outcome = "none" => ledger[c] = NoRecord /\ journal[c] = {}
        /\ \A d \in Deployments :
              /\ Env(c) = Env(d) /\ ledger[c].outcome = "in-progress" =>
                    /\ ledger[d].outcome = "in-progress" => c = d
                    /\ Target(c) = Target(d) => ledger[d].outcome # "success"
              /\ Env(c) = Env(d) /\ Target(c) = Target(d) =>
                    (ledger[c].outcome = "success" /\ ledger[d].outcome = "success" => c = d)

\* An open attempt without a journal has not touched its environment.
Untouched ==
    \A d \in Deployments :
        ledger[d].outcome = "in-progress" /\ journal[d] = {} => Accounted(Env(d))

\* What may come back in Production has succeeded on Staging.
JournalsProven ==
    \A d \in Deployments : Env(d) = "production" => \A m \in journal[d] : Proven(m)

\* The record of the attempt in progress and its copy in memory.
Attempting ==
    ctl.at \in Attempt =>
        /\ ctl.rec = ctl.d
        /\ ledger[ctl.d].outcome # "none"
        /\ ctl.at # "failed" =>
              ctl.record.outcome = "in-progress" /\ ledger[ctl.d].outcome = "in-progress"
        /\ {ctl.record.outcome, ledger[ctl.d].outcome} \subseteq {"in-progress", "failure"}
        /\ "failure" \in {ctl.record.outcome, ledger[ctl.d].outcome} =>
              /\ Accounted(Env(ctl.d)) /\ ctl.record.outcome = "failure"
              /\ ctl.record.migration = "never-started"
        /\ ctl.record.migration = "never-started" => ledger[ctl.d].migration = "never-started"
        /\ ctl.changed <=> Fingerprint[ctl.record.before] # Fingerprint[Target(ctl.d)]

Beginning ==
    ctl.at \in {"announce", "announced", "not-durable"} =>
        /\ Accounted(Env(ctl.d)) /\ ctl.record.migration = "never-started"
        /\ ctl.at # "not-durable" => /\ journal[ctl.d] = {}
                                     /\ host[Env(ctl.d)].file["authority"] = ctl.record.before

\* A transaction has changed exactly what its steps so far say.
Running ==
    LET d == ctl.d
        e == Env(d)
        before == ctl.record.before
    IN  ctl.at = "run" =>
        /\ journal[d] = IF Done("journal") THEN {before} ELSE {}
        /\ ~ Done("authority-changing") =>
              Accounted(e) /\ ctl.record.migration = "never-started"
        /\ \A f \in Range(Files(e)) :
              host[e].file[f] = IF Done(f) THEN Target(d) ELSE before
        /\ \A s \in Range(Services(e)) : Done(s) => host[e].service[s] = Target(d)
        /\ Fingerprint[before] <= host[e].schema
        /\ Done("migrate") => Fingerprint[Target(d)] <= host[e].schema
        /\ ~ ctl.changed => ctl.record.migration = "never-started"
        /\ ctl.record.migration # "never-started" => \A f \in Range(Files(e)) : Done(f)
        /\ ctl.record.migration = "completed" => Fingerprint[Target(d)] <= host[e].schema
        /\ ctl.record.migration # "failed"
        /\ e = "production" /\ Done("staging-succeeded") => Proven(Target(d))

\* An undo has restored what its steps so far say.
Undoing ==
    LET e == Env(ctl.d)
        before == ctl.record.before
    IN  ctl.at = "undo" =>
        /\ journal[ctl.d] = {before} /\ ctl.record.migration = "never-started"
        /\ \A f \in Range(Files(e)) : Done(f) => host[e].file[f] = before
        /\ \A s \in Range(Services(e)) : Done(s) => host[e].service[s] = before
        /\ Fingerprint[before] <= host[e].schema

\* How a transaction ends.
Ending ==
    LET e == Env(ctl.d)
        here == host[e]
    IN  /\ ctl.at = "failed" =>
              \/ ctl.record.phase \in {"manual-review", "rollback-failed"}
              \/ Accounted(e)
              \/ /\ e = "staging" /\ ctl.record.migration = "completed"
                 /\ \A f \in Range(Files(e)) : here.file[f] = Target(ctl.d)
                 /\ Fingerprint[Target(ctl.d)] <= here.schema
        /\ ctl.at = "completed" =>
              /\ \A f \in Range(Files(e)) : here.file[f] = Target(ctl.d)
              /\ \A s \in Range(Services(e)) : here.service[s] = Target(ctl.d)
              /\ Fingerprint[Target(ctl.d)] <= here.schema

\* What is told GitHub is on disk.
Telling ==
    ctl.at \in Answering =>
        /\ ledger[ctl.rec] = ctl.record /\ Env(ctl.rec) = Env(ctl.d)
        /\ \/ /\ ctl.state = "success" /\ ctl.record.outcome = "success"
              /\ Target(ctl.rec) = Target(ctl.d)
           \/ /\ ctl.state \in {"failure", "error"} /\ ctl.record.outcome = "failure"
              /\ ctl.rec = ctl.d

Controlled == Attempting /\ Beginning /\ Running /\ Undoing /\ Ending /\ Telling

\* The part of the invariant that is about the disk.
InOrder == Ordered /\ Untouched /\ JournalsProven /\ HostIsAccountedFor /\ ProductionFollowsStaging

IInv == Typed /\ InOrder /\ Controlled /\ StatusIsTrue
-----------------------------------------------------------------------------
(* What the state types say.                                               *)

LEMMA Requests ==
    ASSUME request \in Scripts, NEW d \in Deployments
    PROVE  Env(d) \in Environments /\ Target(d) \in Releases
  BY ReleaseAssumption DEF Env, Target

LEMMA Fingerprints ==
    Installed \in Releases /\ \A m \in Releases : Fingerprint[m] \in Nat
  BY ReleaseAssumption DEF Releases

LEMMA Least ==
    ASSUME NEW S, S \subseteq Nat, S # {}
    PROVE  Min(S) \in S
<1> DEFINE R == {p \in Nat \X Nat : p[1] < p[2]}
<1>1. IsWellFoundedOn(R, Nat)
  BY NatLessThanWellFounded DEF OpToRel
<1>2. \A x, y \in S : <<y, x>> \notin R => x <= y
  OBVIOUS
<1> HIDE DEF R
<1>3. PICK x \in S : \A y \in S : ~ (<<y, x>> \in R)
  BY <1>1, WFMin
<1> QED
  BY <1>2, <1>3 DEF Min

LEMMA Greater ==
    ASSUME NEW a \in Nat, NEW b \in Nat
    PROVE  Max({a, b}) \in Nat /\ a <= Max({a, b}) /\ b <= Max({a, b})
<1>1. \E x \in {a, b} : \A y \in {a, b} : x >= y
  OBVIOUS
<1> QED
  BY <1>1 DEF Max

\* The recorded deployments of an environment are those with an outcome.
LEMMA RecordedOnes ==
    ASSUME Typed, Ordered, NEW e
    PROVE  Recorded(e) = {d \in Deployments : Env(d) = e /\ ledger[d].outcome # "none"}
  BY DEF Typed, Ordered, Recorded, NoRecord
-----------------------------------------------------------------------------
(* What a change of the ledger or of the host means for the environments.  *)

\* A record with a final outcome keeps it.
Final ==
    /\ request' = request
    /\ \A c \in Deployments :
          ledger[c].outcome \in {"success", "failure"} =>
             ledger'[c].outcome = ledger[c].outcome /\ ledger'[c].migration = ledger[c].migration

LEMMA SuccessStays ==
    ASSUME Final, NEW e, NEW m
    PROVE  Succeeded(e, m) # {} => Succeeded(e, m)' # {}
<1> SUFFICES ASSUME NEW d \in Succeeded(e, m)
             PROVE  d \in Succeeded(e, m)'
  OBVIOUS
<1>1. d \in Deployments /\ Env(d) = e /\ Target(d) = m /\ ledger[d].outcome = "success"
  BY DEF Succeeded, Recorded
<1>2. Env(d)' = e /\ Target(d)' = m /\ ledger'[d].outcome = "success"
  BY <1>1 DEF Final, Env, Target
<1>3. ledger'[d] # NoRecord
  BY <1>2 DEF NoRecord
<1> QED
  BY <1>1, <1>2, <1>3 DEF Succeeded, Recorded

LEMMA ProofStays ==
    ASSUME Final, NEW m, Proven(m)
    PROVE  Proven(m)'
  BY SuccessStays DEF Proven

LEMMA AccountedStays ==
    ASSUME Final, NEW e \in Environments, host'[e] = host[e], Accounted(e)
    PROVE  Accounted(e)'
<1> DEFINE m == host[e].file["authority"]
<1>1. PICK n : n = m
  OBVIOUS
<1>2. host'[e].file["authority"] = n
  BY <1>1
<1>3. Agree(e, Range(Files(e)))'
  BY DEF Accounted, Agree
<1>4. (Fingerprint[n] <= host[e].schema)'
  BY <1>1 DEF Accounted
<1>5. CASE \A s \in Range(Services(e)) : host[e].service[s] = m
  <2>1. (\A s \in Range(Services(e)) : host[e].service[s] = n)'
    BY <1>1, <1>5
  <2> QED
    BY <1>2, <1>3, <1>4, <2>1 DEF Accounted
<1>6. CASE e = "staging" /\ \E d \in Recorded(e) : /\ Target(d) = m /\ ledger[d].outcome = "failure"
                                                   /\ ledger[d].migration = "completed"
  <2>1. PICK d \in Recorded(e) : Target(d) = n /\ ledger[d].outcome = "failure"
                                 /\ ledger[d].migration = "completed"
    BY <1>1, <1>6
  <2>2. d \in Deployments /\ Env(d) = e
    BY <2>1 DEF Recorded
  <2>3. Target(d)' = n /\ ledger'[d].outcome = "failure" /\ ledger'[d].migration = "completed"
        /\ Env(d)' = e
    BY <2>1, <2>2 DEF Final, Target, Env
  <2>4. d \in Recorded(e)'
    BY <2>2, <2>3 DEF Recorded, NoRecord
  <2>5. (\E c \in Recorded(e) : Target(c) = n /\ ledger[c].outcome = "failure"
                                /\ ledger[c].migration = "completed")'
    BY <2>3, <2>4
  <2> QED
    BY <1>2, <1>3, <1>4, <1>6, <2>5 DEF Accounted
<1> QED
  BY <1>5, <1>6 DEF Accounted
LEMMA NothingWritten ==
    ASSUME InOrder, UNCHANGED <<request, ledger, journal, host>>
    PROVE  InOrder' /\ Final
<1>1. Final
  BY DEF Final
<1>2. Ordered' /\ Untouched' /\ JournalsProven'
  BY DEF InOrder, Ordered, Untouched, JournalsProven, Env, Target, Accounted, Agree, Recorded,
         Proven, Succeeded
<1>3. HostIsAccountedFor' /\ ProductionFollowsStaging'
  BY DEF InOrder, HostIsAccountedFor, ProductionFollowsStaging, Env, Target, Agree, Recorded,
         Blocked, Succeeded
<1> QED
  BY <1>1, <1>2, <1>3 DEF InOrder

\* The record r of one deployment d is written.
Writes(d, r) ==
    /\ UNCHANGED <<request, journal, host>>
    /\ ledger' = [ledger EXCEPT ![d] = r]

\* A record may be written when it opens an attempt of an environment that is in order, or
\* keeps one open, or closes it; and when it leaves the environment open only in order.
LEMMA RecordWritten ==
    ASSUME Typed, InOrder, NEW d \in Deployments, NEW r \in Records, Writes(d, r),
           NEW here \in Environments, Env(d) = here,
           r.outcome # "none",
           ledger[d].outcome \in {"success", "failure"} =>
              r.outcome = ledger[d].outcome /\ r.migration = ledger[d].migration,
           r.outcome = "in-progress" =>
              \/ ledger[d].outcome = "in-progress"
              \/ ~ Blocked(here) /\ Succeeded(here, Target(d)) = {},
           r.outcome = "success" => ledger[d].outcome \in {"in-progress", "success"},
           ~ InDoubt(r) => Accounted(here) \/ Accounted(here)'
    PROVE  InOrder' /\ Final /\ ledger' \in [Deployments -> Records]
<1>1. /\ ledger' \in [Deployments -> Records] /\ ledger'[d] = r
      /\ \A c \in Deployments : c # d => ledger'[c] = ledger[c]
  BY DEF Typed, Writes
<1>2. Final
  BY <1>1 DEF Final, Writes
<1>3. \A c \in Deployments : Env(c)' = Env(c) /\ Target(c)' = Target(c)
  BY DEF Writes, Env, Target
<1>4. \A c \in Deployments : Env(c) \in Environments /\ Target(c) \in Releases
  BY Requests DEF Typed
<1>5. r.outcome = "in-progress" /\ ledger[d].outcome # "in-progress" =>
         /\ ledger[d].outcome = "none"
         /\ \A c \in Deployments : Env(c) = Env(d) =>
               /\ ledger[c].outcome # "in-progress"
               /\ Target(c) = Target(d) => ledger[c].outcome # "success"
  <2> SUFFICES ASSUME r.outcome = "in-progress", ledger[d].outcome # "in-progress",
                      NEW c \in Deployments, Env(c) = Env(d)
               PROVE  /\ ledger[d].outcome = "none"
                      /\ ledger[c].outcome # "in-progress"
                      /\ Target(c) = Target(d) => ledger[c].outcome # "success"
    BY DEF Typed, Records
  <2>1. ledger[d].outcome = "none"
    BY DEF Typed, Records
  <2>2. ~ Blocked(here) /\ Succeeded(here, Target(d)) = {}
    OBVIOUS
  <2>3. ledger[c].outcome # "in-progress"
    BY <2>2 DEF Blocked, InDoubt, Reconciliation, Recorded, NoRecord
  <2>4. Target(c) = Target(d) => ledger[c].outcome # "success"
    BY <2>2 DEF Succeeded, Recorded, NoRecord
  <2> QED
    BY <2>1, <2>3, <2>4
<1>6. Ordered'
  <2>1. ASSUME NEW c \in Deployments, ledger'[c].outcome = "none"
        PROVE  ledger'[c] = NoRecord /\ journal'[c] = {}
    BY <1>1, <2>1 DEF InOrder, Ordered, Writes
  <2>2. ASSUME NEW a \in Deployments, NEW b \in Deployments, Env(a) = Env(b),
               ledger'[a].outcome = "in-progress", ledger'[b].outcome = "in-progress"
        PROVE  a = b
    BY <1>1, <1>5, <2>2 DEF InOrder, Ordered
  <2>3. ASSUME NEW a \in Deployments, NEW b \in Deployments, Env(a) = Env(b),
               ledger'[a].outcome = "in-progress", Target(a) = Target(b)
        PROVE  ledger'[b].outcome # "success"
    BY <1>1, <1>5, <2>3 DEF InOrder, Ordered
  <2>4. ASSUME NEW a \in Deployments, NEW b \in Deployments, Env(a) = Env(b),
               Target(a) = Target(b),
               ledger'[a].outcome = "success", ledger'[b].outcome = "success"
        PROVE  a = b
    BY <1>1, <2>4 DEF InOrder, Ordered
  <2>5. \A a, b \in Deployments :
           /\ Env(a) = Env(b) /\ ledger'[a].outcome = "in-progress" =>
                 /\ ledger'[b].outcome = "in-progress" => a = b
                 /\ Target(a) = Target(b) => ledger'[b].outcome # "success"
           /\ Env(a) = Env(b) /\ Target(a) = Target(b) =>
                 (ledger'[a].outcome = "success" /\ ledger'[b].outcome = "success" => a = b)
    BY <2>2, <2>3, <2>4
  <2> QED
    BY <1>3, <2>1, <2>5 DEF Ordered
<1>7. \A e \in Environments : Accounted(e) => Accounted(e)'
  BY <1>2, AccountedStays DEF Writes
<1>8. ~ Blocked(here) => Accounted(here)
  BY DEF InOrder, HostIsAccountedFor, Accounted
<1>9. Untouched'
  <2> SUFFICES ASSUME NEW c \in Deployments, ledger'[c].outcome = "in-progress", journal'[c] = {}
               PROVE  Accounted(Env(c))'
    BY DEF Untouched
  <2>0. PICK e \in Environments : e = Env(c)
    BY <1>4
  <2>1. CASE ledger[c].outcome = "in-progress"
    <3>1. Accounted(Env(c))
      BY <2>1 DEF InOrder, Untouched, Writes
    <3>2. Accounted(e)
      BY <2>0, <3>1
    <3>3. Accounted(e)'
      BY <1>7, <3>2
    <3> QED
      BY <1>3, <2>0, <3>3
  <2>2. CASE ledger[c].outcome # "in-progress"
    <3>1. c = d /\ e = here /\ ~ Blocked(here)
      BY <1>1, <2>0, <2>2
    <3>2. Accounted(e)'
      BY <1>7, <1>8, <3>1
    <3> QED
      BY <1>3, <2>0, <3>2
  <2> QED
    BY <2>1, <2>2
<1>10. JournalsProven'
  <2> SUFFICES ASSUME NEW c \in Deployments, Env(c) = "production", NEW m \in journal[c]
               PROVE  Proven(m)'
    BY <1>3 DEF JournalsProven, Writes
  <2> QED
    BY <1>2, ProofStays DEF InOrder, JournalsProven
<1>11. HostIsAccountedFor'
  <2> SUFFICES ASSUME NEW e \in Environments, ~ Blocked(e)'
               PROVE  Accounted(e)'
    BY DEF HostIsAccountedFor, Accounted
  <2>1. CASE e = here
    <3>1. d \in Recorded(e)'
      BY <1>1, <1>3, <2>1 DEF Recorded, NoRecord
    <3>2. ~ InDoubt(ledger'[d])
      BY <3>1 DEF Blocked
    <3> QED
      BY <1>1, <1>7, <2>1, <3>2
  <2>2. CASE e # here
    <3>1. Recorded(e)' = Recorded(e) /\ \A c \in Recorded(e) : ledger'[c] = ledger[c]
      BY <1>1, <1>3, <2>2 DEF Recorded
    <3>2. ~ Blocked(e)
      BY <3>1 DEF Blocked
    <3> QED
      BY <1>7, <3>2 DEF InOrder, HostIsAccountedFor, Accounted
  <2> QED
    BY <2>1, <2>2
<1>12. ProductionFollowsStaging'
  <2> SUFFICES ASSUME NEW f \in Range(Files("production"))
               PROVE  Proven(host["production"].file[f])'
    BY DEF ProductionFollowsStaging, Proven
  <2>1. PICK m : m = host["production"].file[f]
    OBVIOUS
  <2>2. Proven(m)
    BY <2>1 DEF InOrder, ProductionFollowsStaging, Proven
  <2>3. Proven(m)'
    BY <1>2, <2>2, ProofStays
  <2>4. (host["production"].file[f])' = m
    BY <2>1 DEF Writes
  <2> QED
    BY <2>3, <2>4 DEF Proven
<1> QED
  BY <1>1, <1>2, <1>6, <1>9, <1>10, <1>11, <1>12 DEF InOrder

\* The host and the journal may change under an open attempt that has a journal.
LEMMA HostTouched ==
    ASSUME Typed, InOrder, NEW d \in Deployments, ledger[d].outcome = "in-progress",
           NEW here \in Environments, Env(d) = here,
           UNCHANGED <<request, ledger>>,
           journal'[d] # {},
           \A c \in Deployments \ {d} : journal'[c] = journal[c],
           \A e \in Environments \ {here} : host'[e] = host[e],
           here = "production" => \A m \in journal'[d] : Proven(m),
           here = "production" => \A f \in Range(Files(here)) :
                                     \E m : host'[here].file[f] = m /\ Proven(m)
    PROVE  InOrder' /\ Final
<1>1. Final
  BY DEF Final
<1>2. \A c \in Deployments : Env(c)' = Env(c) /\ Target(c)' = Target(c)
  BY DEF Env, Target
<1>3. \A e \in Environments \ {here} : Accounted(e) => Accounted(e)'
  BY <1>1, AccountedStays
<1>4. \A c \in Deployments : Env(c) \in Environments
  BY Requests DEF Typed
<1>5. Ordered'
  BY <1>2 DEF InOrder, Ordered
<1>6. Untouched'
  <2> SUFFICES ASSUME NEW c \in Deployments, ledger[c].outcome = "in-progress", journal'[c] = {}
               PROVE  Accounted(Env(c))'
    BY DEF Untouched
  <2>1. PICK e \in Environments : e = Env(c)
    BY <1>4
  <2>2. c # d /\ e # here
    BY <2>1 DEF InOrder, Ordered
  <2>3. Accounted(Env(c))
    BY <2>2 DEF InOrder, Untouched
  <2>4. Accounted(e)
    BY <2>1, <2>3
  <2>5. Accounted(e)'
    BY <1>3, <2>2, <2>4
  <2> QED
    BY <1>2, <2>1, <2>5
<1>7. JournalsProven'
  <2> SUFFICES ASSUME NEW c \in Deployments, Env(c) = "production", NEW m \in journal'[c]
               PROVE  Proven(m)'
    BY <1>2 DEF JournalsProven
  <2>1. Proven(m)
    BY DEF InOrder, JournalsProven
  <2> QED
    BY <1>1, <2>1, ProofStays
<1>8. HostIsAccountedFor'
  <2> SUFFICES ASSUME NEW e \in Environments, ~ Blocked(e)'
               PROVE  Accounted(e)'
    BY DEF HostIsAccountedFor, Accounted
  <2>1. Recorded(e)' = Recorded(e)
    BY <1>2 DEF Recorded
  <2>2. ~ Blocked(e)
    BY <2>1 DEF Blocked
  <2>3. Blocked(here)
    BY DEF Blocked, InDoubt, Reconciliation, Recorded, NoRecord
  <2>4. Accounted(e)
    BY <2>2 DEF InOrder, HostIsAccountedFor, Accounted
  <2> QED
    BY <1>3, <2>2, <2>3, <2>4
<1>9. ProductionFollowsStaging'
  <2> SUFFICES ASSUME NEW f \in Range(Files("production"))
               PROVE  Proven(host["production"].file[f])'
    BY DEF ProductionFollowsStaging, Proven
  <2>1. PICK m : host'["production"].file[f] = m /\ Proven(m)
    <3>1. CASE here = "production"
      BY <3>1
    <3>2. CASE here # "production"
      BY <3>2 DEF InOrder, ProductionFollowsStaging, Proven, Environments
    <3> QED
      BY <3>1, <3>2
  <2>2. Proven(m)'
    BY <1>1, <2>1, ProofStays
  <2> QED
    BY <2>1, <2>2 DEF Proven
<1> QED
  BY <1>1, <1>5, <1>6, <1>7, <1>8, <1>9 DEF InOrder
-----------------------------------------------------------------------------
(* Where a transaction stands and where it goes.                           *)

\* The steps of a transaction are those of a list, and its step is one of them.
LEMMA Standing ==
    ASSUME Typed, ctl.at \in {"run", "undo"}
    PROVE  /\ Steps \in Seq(Names) /\ Len(Steps) \in Nat /\ ctl.step \in 1..Len(Steps)
           /\ Step \in Range(Steps) /\ Step \in Names
           /\ \A a, b : Behind(Steps, a, b) =>
                 (Done(b) \/ Step = b => Done(a))
           /\ \A a, b : Ahead(Steps, b, a) /\ Step = b => ~ Done(a)
           /\ ctl.d \in Deployments /\ Env(ctl.d) \in Environments /\ Target(ctl.d) \in Releases
<1>1. ctl.d \in Deployments /\ ctl.changed \in BOOLEAN /\ ctl.step \in Nat \ {0}
  BY DEF Typed, Controllers
<1>2. Env(ctl.d) \in Environments /\ Target(ctl.d) \in Releases
  BY <1>1, Requests DEF Typed
<1>3. Steps \in Seq(Names)
  BY <1>1, <1>2, PlanSteps, UndoSteps DEF Steps
<1>4. Len(Steps) \in Nat /\ ctl.step \in 1..Len(Steps) /\ DOMAIN Steps = 1..Len(Steps)
  BY <1>1, <1>3, LenProperties DEF Typed
<1>5. Step \in Range(Steps) /\ Step \in Names
  BY <1>3, <1>4, ElementOfSeq DEF Step, Range
<1>6. ASSUME NEW a, NEW b, Behind(Steps, a, b), Done(b) \/ Step = b
      PROVE  Done(a)
  <2>1. PICK j \in 1..ctl.step : Steps[j] = b
    BY <1>4, <1>6 DEF Done, Step
  <2>2. PICK i \in 1..j - 1 : Steps[i] = a
    BY <1>4, <1>6, <2>1 DEF Behind
  <2> QED
    BY <1>4, <2>2 DEF Done
<1>7. ASSUME NEW a, NEW b, Ahead(Steps, b, a), Step = b
      PROVE  ~ Done(a)
  BY <1>4, <1>7 DEF Done, Step, Ahead
<1> QED
  BY <1>1, <1>2, <1>3, <1>4, <1>5, <1>6, <1>7

\* In a transaction: Staging first, the journal before the files, the files before the
\* migration and the services.
LEMMA InTheRun ==
    ASSUME Typed, ctl.at = "run"
    PROVE  /\ Done("authority-changing") \/ Step = "authority-changing" =>
                 /\ Done("journal")
                 /\ Env(ctl.d) = "production" => Done("staging-succeeded")
           /\ \A f \in Written : Step = f => f \in Range(Files(Env(ctl.d)))
           /\ \A f \in Written : Step = f \/ Done(f) => Done("authority-changing")
           /\ Step \in Started => Step \in Range(Services(Env(ctl.d)))
           /\ \A f \in Range(Files(Env(ctl.d))) :
                 Step \in Started \cup Migrations \cup {"verified"} => Done(f)
           /\ Step \in Migrations => ctl.changed
           /\ Step = "migration-completed" => Done("migrate")
           /\ Step = "verified" =>
                 /\ ctl.changed => Done("migrate")
                 /\ \A s \in Range(Services(Env(ctl.d))) : Done(s)
           /\ Step = "durability" => ~ Done("authority-changing")
           /\ ctl.step = Len(Steps) => Step = "verified"
           /\ Range(Files(Env(ctl.d))) \subseteq Written
           /\ Range(Services(Env(ctl.d))) \subseteq Started
           /\ {"authority", "runtime"} \subseteq Range(Files(Env(ctl.d)))
<1> DEFINE e == Env(ctl.d)
           p == Plan(e, ctl.changed)
<1>1. e \in Environments /\ ctl.changed \in BOOLEAN
  BY Standing DEF Typed, Controllers
<1>2. Steps = p
  BY DEF Steps
<1> HIDE DEF e, p
<1>3. /\ p[Len(p)] = "verified" /\ Len(p) >= 1
      /\ Range(p) \cap Written = Range(Files(e))
      /\ Range(p) \cap Started = Range(Services(e))
      /\ ~ ctl.changed => Range(p) \cap Migrations = {}
      /\ Ahead(p, "durability", "authority-changing")
      /\ Behind(p, "journal", "authority-changing")
      /\ e = "production" => Behind(p, "staging-succeeded", "authority-changing")
      /\ \A f \in Written : Behind(p, "authority-changing", f)
      /\ \A f \in Range(Files(e)), s \in Started \cup Migrations \cup {"verified"} :
            Behind(p, f, s)
      /\ Behind(p, "migrate", "migration-completed")
      /\ ctl.changed => Behind(p, "migrate", "verified")
      /\ \A s \in Range(Services(e)) : Behind(p, s, "verified")
  BY <1>1, PlanSteps DEF p
<1>4. /\ Step \in Range(p)
      /\ \A a, b : Behind(p, a, b) => (Done(b) \/ Step = b => Done(a))
      /\ \A a, b : Ahead(p, b, a) /\ Step = b => ~ Done(a)
  BY <1>2, Standing
<1>5. ctl.step = Len(Steps) => Step = "verified"
  BY <1>2, <1>3 DEF Step
<1>6. /\ Range(Files(e)) \subseteq Written /\ Range(Services(e)) \subseteq Started
      /\ {"authority", "runtime"} \subseteq Range(Files(e))
  BY <1>1, Lists
<1>7. \A f \in Range(Files(e)) : Step \in Started \cup Migrations \cup {"verified"} => Done(f)
  BY <1>3, <1>4
<1>8. /\ \A f \in Written : Step = f => f \in Range(Files(e))
      /\ \A f \in Written : Step = f \/ Done(f) => Done("authority-changing")
      /\ Step \in Started => Step \in Range(Services(e))
      /\ Step \in Migrations => ctl.changed
  BY <1>3, <1>4
<1>9. /\ Step = "migration-completed" => Done("migrate")
      /\ Step = "verified" => /\ ctl.changed => Done("migrate")
                              /\ \A s \in Range(Services(e)) : Done(s)
      /\ Step = "durability" => ~ Done("authority-changing")
      /\ Done("authority-changing") \/ Step = "authority-changing" =>
            Done("journal") /\ (e = "production" => Done("staging-succeeded"))
  BY <1>3, <1>4
<1> QED
  BY <1>5, <1>6, <1>7, <1>8, <1>9 DEF e

LEMMA InTheUndo ==
    ASSUME Typed, ctl.at = "undo"
    PROVE  /\ Step \in {"restore", "rolled-back"} \cup Range(Files(Env(ctl.d)))
                          \cup Range(Services(Env(ctl.d)))
           /\ \A f \in Range(Files(Env(ctl.d))) : Step \in Started \cup {"rolled-back"} => Done(f)
           /\ \A s \in Range(Services(Env(ctl.d))) : Step = "rolled-back" => Done(s)
           /\ ctl.step = Len(Steps) => Step = "rolled-back"
           /\ Range(Files(Env(ctl.d))) \subseteq Written
           /\ Range(Services(Env(ctl.d))) \subseteq Started
           /\ {"authority", "runtime"} \subseteq Range(Files(Env(ctl.d)))
<1> DEFINE e == Env(ctl.d)
           p == UndoPlan(e)
<1>1. e \in Environments
  BY Standing
<1>2. Steps = p
  BY DEF Steps
<1> HIDE DEF e, p
<1>3. /\ p[Len(p)] = "rolled-back" /\ Len(p) >= 1
      /\ Range(p) = {"restore", "rolled-back"} \cup Range(Files(e)) \cup Range(Services(e))
      /\ \A f \in Range(Files(e)), s \in Started \cup {"rolled-back"} : Behind(p, f, s)
      /\ \A s \in Range(Services(e)) : Behind(p, s, "rolled-back")
  BY <1>1, UndoSteps DEF p
<1>4. /\ Step \in Range(p)
      /\ \A a, b : Behind(p, a, b) => (Done(b) \/ Step = b => Done(a))
  BY <1>2, Standing
<1>5. ctl.step = Len(Steps) => Step = "rolled-back"
  BY <1>2, <1>3 DEF Step
<1>6. /\ Range(Files(e)) \subseteq Written /\ Range(Services(e)) \subseteq Started
      /\ {"authority", "runtime"} \subseteq Range(Files(e))
  BY <1>1, Lists
<1>7. \A f \in Range(Files(e)) : Step \in Started \cup {"rolled-back"} => Done(f)
  BY <1>3, <1>4
<1>8. \A s \in Range(Services(e)) : Step = "rolled-back" => Done(s)
  BY <1>3, <1>4
<1> QED
  BY <1>3, <1>4, <1>5, <1>6, <1>7, <1>8 DEF e

\* The controller c is the one in progress with r as its record.
Holding(c, r) == c = [ctl EXCEPT !.record = r]

LEMMA Stepping ==
    ASSUME NEW c \in Controllers, NEW n \in Nat \ {0}, NEW next, next = [c EXCEPT !.step = n]
    PROVE  /\ next \in Controllers /\ next.at = c.at /\ next.step = n
           /\ next.d = c.d /\ next.rec = c.rec /\ next.changed = c.changed
           /\ next.record = c.record
<1>1. PICK S : S = {"off", "begin", "exited"} \cup Attempt \cup Answering
  OBVIOUS
<1>2. PICK T : T = {"none", "retry", "rejected", "handled", "success", "failure", "error"}
  OBVIOUS
<1>3. Controllers =
        [at : S, d : Nat, rec : Nat, step : Nat \ {0}, changed : BOOLEAN, late : BOOLEAN,
         state : T, posted : BOOLEAN, record : Records]
  BY <1>1, <1>2 DEF Controllers
<1> QED
  BY <1>3

LEMMA Going ==
    ASSUME NEW c \in Controllers, NEW at \in Attempt \cup Answering
    PROVE  /\ Goto(c, at) \in Controllers /\ Goto(c, at).at = at /\ Goto(c, at).step = 1
           /\ Goto(c, at).d = c.d /\ Goto(c, at).rec = c.rec /\ Goto(c, at).changed = c.changed
           /\ Goto(c, at).record = c.record
<1>1. PICK S : S = {"off", "begin", "exited"} \cup Attempt \cup Answering /\ at \in S
  OBVIOUS
<1>2. PICK T : T = {"none", "retry", "rejected", "handled", "success", "failure", "error"}
  OBVIOUS
<1>3. Controllers =
        [at : S, d : Nat, rec : Nat, step : Nat \ {0}, changed : BOOLEAN, late : BOOLEAN,
         state : T, posted : BOOLEAN, record : Records]
  BY <1>1, <1>2 DEF Controllers
<1>4. PICK g : g = [c EXCEPT !.at = at]
  OBVIOUS
<1>5. /\ g \in Controllers /\ g.at = at /\ g.d = c.d /\ g.rec = c.rec /\ g.changed = c.changed
      /\ g.record = c.record
  BY <1>1, <1>3, <1>4
<1>6. Goto(c, at) = [g EXCEPT !.step = 1]
  BY <1>3, <1>4 DEF Goto
<1> QED
  BY <1>5, <1>6, Stepping

LEMMA Forward ==
    ASSUME Typed, ctl.at \in {"run", "undo"}, request' = request,
           NEW r \in Records, NEW c, Holding(c, r), ctl' = Forth(c)
    PROVE  /\ ctl' \in Controllers /\ ctl'.d = ctl.d /\ ctl'.rec = ctl.rec
           /\ ctl'.changed = ctl.changed /\ ctl'.record = r
           /\ \/ /\ ctl'.at = ctl.at /\ ctl'.step <= Len(Steps)'
                 /\ \A x : Done(x)' <=> Done(x) \/ Step = x
              \/ ctl.at = "run" /\ ctl'.at = "completed" /\ Step = "verified"
              \/ ctl.at = "undo" /\ ctl'.at = "failed" /\ Step = "rolled-back"
<1>1. /\ c \in Controllers /\ c.d = ctl.d /\ c.rec = ctl.rec /\ c.changed = ctl.changed
      /\ c.record = r /\ c.at = ctl.at /\ c.step = ctl.step
  BY DEF Holding, Typed, Controllers
<1>2. Len(Steps) \in Nat /\ ctl.step \in 1..Len(Steps)
  BY Standing
<1>3. CASE ctl.step < Len(Steps)
  <2>1. ctl' = [c EXCEPT !.step = @ + 1]
    BY <1>1, <1>3 DEF Forth
  <2>2. /\ ctl' \in Controllers /\ ctl'.d = ctl.d /\ ctl'.rec = ctl.rec
        /\ ctl'.changed = ctl.changed /\ ctl'.record = r /\ ctl'.at = ctl.at
        /\ ctl'.step = ctl.step + 1
    <3>1. ctl.step + 1 \in Nat \ {0}
      BY <1>2
    <3>2. PICK n \in Nat \ {0} : n = ctl.step + 1
      BY <3>1
    <3>3. PICK g : g = [c EXCEPT !.step = n]
      OBVIOUS
    <3>4. /\ g \in Controllers /\ g.at = c.at /\ g.step = n /\ g.d = c.d /\ g.rec = c.rec
          /\ g.changed = c.changed /\ g.record = c.record
      BY <1>1, <3>3, Stepping
    <3>5. ctl' = g
      BY <1>1, <2>1, <3>2, <3>3
    <3> QED
      BY <1>1, <3>2, <3>4, <3>5
  <2>3. Steps' = Steps
    BY <2>2 DEF Steps, Env
  <2>4. ASSUME NEW x
        PROVE  Done(x)' <=> Done(x) \/ Step = x
    <3>1. Done(x)' <=> \E i \in 1..ctl.step : Steps[i] = x
      BY <1>2, <2>2, <2>3 DEF Done
    <3>2. \A i : i \in 1..ctl.step <=> i \in 1..ctl.step - 1 \/ i = ctl.step
      BY <1>2
    <3> QED
      BY <3>1, <3>2 DEF Done, Step
  <2> QED
    BY <1>2, <1>3, <2>2, <2>3, <2>4
<1>4. CASE ctl.step = Len(Steps)
  <2>1. ctl' = Goto(c, IF ctl.at = "undo" THEN "failed" ELSE "completed")
    BY <1>1, <1>4 DEF Forth
  <2>2. /\ ctl' \in Controllers /\ ctl'.d = ctl.d /\ ctl'.rec = ctl.rec
        /\ ctl'.changed = ctl.changed /\ ctl'.record = r
        /\ ctl'.at = IF ctl.at = "undo" THEN "failed" ELSE "completed"
    <3>1. PICK at \in Attempt : at = IF ctl.at = "undo" THEN "failed" ELSE "completed"
      BY DEF Attempt
    <3>2. ctl' = Goto(c, at)
      BY <2>1, <3>1
    <3>3. /\ Goto(c, at) \in Controllers /\ Goto(c, at).at = at
          /\ Goto(c, at).d = c.d /\ Goto(c, at).rec = c.rec /\ Goto(c, at).changed = c.changed
          /\ Goto(c, at).record = c.record
      BY <1>1, Going
    <3> QED
      BY <1>1, <3>1, <3>2, <3>3
  <2> QED
    BY <1>4, <2>2, InTheRun, InTheUndo
<1> QED
  BY <1>2, <1>3, <1>4

LEMMA Failing ==
    ASSUME Typed, ctl.at \in {"run", "undo"}, request' = request,
           NEW r \in Records, NEW c, Holding(c, r), ctl' = Fails(c)
    PROVE  /\ ctl' \in Controllers /\ ctl'.d = ctl.d /\ ctl'.rec = ctl.rec
           /\ ctl'.changed = ctl.changed /\ ctl'.record = r
           /\ ctl'.step <= Len(Steps)' /\ \A x : ~ Done(x)'
           /\ ctl.at = "undo" => ctl'.at = "undo-failed"
           /\ ctl.at = "run" =>
                 \/ ctl'.at = "failed" /\ ~ Done("authority-changing")
                 \/ /\ ctl'.at = "undo" /\ Done("authority-changing")
                    /\ ~ ctl.changed \/ r.migration = "never-started"
                 \/ ctl'.at = "review"
                 \/ /\ ctl'.at = "failed" /\ r.migration \in {"completed", "failed"}
                    /\ r.migration = "completed" => Env(ctl.d) # "production"
<1>1. /\ c \in Controllers /\ c.d = ctl.d /\ c.rec = ctl.rec /\ c.changed = ctl.changed
      /\ c.record = r /\ c.at = ctl.at
  BY DEF Holding, Typed, Controllers
<1>2. Mutating <=> Done("authority-changing")
  BY DEF Mutating, Done
<1> DEFINE At == {"undo-failed", "failed", "undo", "review"}
<1>3. PICK at \in At :
         /\ ctl' = Goto(c, at)
         /\ ctl.at = "undo" => at = "undo-failed"
         /\ ctl.at = "run" =>
               \/ at = "failed" /\ ~ Done("authority-changing")
               \/ /\ at = "undo" /\ Done("authority-changing")
                  /\ ~ ctl.changed \/ r.migration = "never-started"
               \/ at = "review"
               \/ /\ at = "failed" /\ r.migration \in {"completed", "failed"}
                  /\ r.migration = "completed" => Env(ctl.d) # "production"
  <2>1. CASE ctl.at = "undo"
    BY <1>1, <2>1 DEF Fails
  <2>2. CASE ctl.at = "run" /\ ~ Done("authority-changing")
    BY <1>1, <1>2, <2>2 DEF Fails
  <2>3. CASE ctl.at = "run" /\ Done("authority-changing")
                /\ ~ (ctl.changed /\ r.migration # "never-started")
    BY <1>1, <1>2, <2>3 DEF Fails
  <2>4. CASE ctl.at = "run" /\ Done("authority-changing")
                /\ ctl.changed /\ r.migration # "never-started"
    <3>1. r.migration \in {"started", "completed", "failed"}
      BY <2>4 DEF Records
    <3>2. CASE r.migration = "started" \/ (Env(ctl.d) = "production" /\ r.migration = "completed")
      BY <1>1, <1>2, <2>4, <3>2 DEF Fails
    <3>3. CASE ~ (r.migration = "started" \/ (Env(ctl.d) = "production" /\ r.migration = "completed"))
      BY <1>1, <1>2, <2>4, <3>1, <3>3 DEF Fails
    <3> QED
      BY <3>2, <3>3
  <2> QED
    BY <2>1, <2>2, <2>3, <2>4
<1>4. /\ ctl' \in Controllers /\ ctl'.d = ctl.d /\ ctl'.rec = ctl.rec
      /\ ctl'.changed = ctl.changed /\ ctl'.record = r /\ ctl'.at = at /\ ctl'.step = 1
  <2>1. at \in Attempt
    BY DEF Attempt
  <2>2. /\ Goto(c, at) \in Controllers /\ Goto(c, at).at = at /\ Goto(c, at).step = 1
        /\ Goto(c, at).d = c.d /\ Goto(c, at).rec = c.rec /\ Goto(c, at).changed = c.changed
        /\ Goto(c, at).record = c.record
    BY <1>1, <2>1, Going
  <2> QED
    BY <1>1, <1>3, <2>2
<1>5. \A x : ~ Done(x)'
  BY <1>4 DEF Done
<1>6. Len(Steps)' >= 1
  <2>1. ctl.d \in Deployments /\ Env(ctl.d) \in Environments /\ ctl.changed \in BOOLEAN
    BY Standing DEF Typed, Controllers
  <2>2. PICK e \in Environments : e = Env(ctl.d)
    BY <2>1
  <2>3. PICK b \in BOOLEAN : b = ctl.changed
    BY <2>1
  <2>4. Steps' = UndoPlan(e) \/ Steps' = Plan(e, b)
    BY <1>4, <2>2, <2>3 DEF Steps, Env
  <2>5. Len(UndoPlan(e)) >= 1 /\ Len(Plan(e, b)) >= 1
    BY PlanSteps, UndoSteps
  <2> QED
    BY <2>4, <2>5
<1> QED
  BY <1>3, <1>4, <1>5, <1>6
-----------------------------------------------------------------------------
(* The controller's part of the invariant.                                 *)

LEMMA NoAttempt ==
    ASSUME ctl'.at \in {"off", "begin", "exited"}
    PROVE  Controlled'
  BY DEF Controlled, Attempting, Beginning, Running, Undoing, Ending, Telling, Attempt, Answering

\* The attempt goes on, its record and its copy open.
Open(e, r) ==
    /\ ctl.rec = ctl.d /\ ctl'.d = ctl.d /\ ctl'.rec = ctl.rec /\ ctl'.changed = ctl.changed
    /\ ctl'.record = r /\ Env(ctl.d) = e /\ request' = request
    /\ ledger'[ctl.d].outcome = "in-progress" /\ r.outcome = "in-progress"
    /\ r.before = ctl.record.before
    /\ r.migration = "never-started" => ledger'[ctl.d].migration = "never-started"

LEMMA StaysOpen ==
    ASSUME Attempting, ctl.at \in Attempt, NEW e, NEW r, Open(e, r)
    PROVE  Attempting' /\ Env(ctl.d)' = e /\ Target(ctl.d)' = Target(ctl.d)
<1>1. Env(ctl.d)' = e /\ Target(ctl.d)' = Target(ctl.d)
  BY DEF Open, Env, Target
<1>2. ctl.changed <=> Fingerprint[ctl.record.before] # Fingerprint[Target(ctl.d)]
  BY DEF Attempting
<1>3. (ctl.changed <=> Fingerprint[ctl.record.before] # Fingerprint[Target(ctl.d)])'
  BY <1>1, <1>2 DEF Open
<1> QED
  BY <1>1, <1>3 DEF Attempting, Open

\* What a run that fails leaves behind.
LEMMA RunFails ==
    ASSUME Typed, Attempting, ctl.at = "run", NEW e \in Environments,
           NEW r \in Records, NEW c, Holding(c, r), ctl' = Fails(c), Open(e, r),
           ~ Done("authority-changing") => Accounted(e)',
           Done("authority-changing") => journal'[ctl.d] = {r.before},
           Fingerprint[r.before] <= host'[e].schema,
           ~ ctl.changed => r.migration = "never-started",
           r.migration # "failed",
           r.migration = "completed" =>
              /\ \A f \in Range(Files(e)) : host'[e].file[f] = Target(ctl.d)
              /\ Fingerprint[Target(ctl.d)] <= host'[e].schema
    PROVE  Controlled' /\ ctl' \in Controllers /\ ctl'.at \in Attempt
           /\ (ctl.at \in {"run", "undo"} => ctl.step <= Len(Steps))'
<1>1. request' = request /\ ctl.at \in Attempt
  BY DEF Open, Attempt
<1>2. /\ ctl' \in Controllers /\ ctl'.d = ctl.d /\ ctl'.record = r
      /\ ctl'.step <= Len(Steps)' /\ \A x : ~ Done(x)'
      /\ \/ ctl'.at = "failed" /\ ~ Done("authority-changing")
         \/ /\ ctl'.at = "undo" /\ Done("authority-changing")
            /\ ~ ctl.changed \/ r.migration = "never-started"
         \/ ctl'.at = "review"
         \/ /\ ctl'.at = "failed" /\ r.migration \in {"completed", "failed"}
            /\ r.migration = "completed" => Env(ctl.d) # "production"
  BY <1>1, Failing
<1>3. Attempting' /\ Env(ctl.d)' = e /\ Target(ctl.d)' = Target(ctl.d) /\ Env(ctl.d) = e
  BY <1>1, StaysOpen DEF Open
<1>4. Beginning' /\ Running' /\ Telling'
  BY <1>2 DEF Beginning, Running, Telling, Answering
<1>5. Undoing'
  <2> SUFFICES ASSUME ctl'.at = "undo" PROVE Undoing'
    BY DEF Undoing
  <2>1. journal'[ctl'.d] = {r.before} /\ r.migration = "never-started"
    BY <1>2
  <2> QED
    BY <1>2, <1>3, <2>1 DEF Undoing
<1>6. Ending'
  <2>1. CASE ctl'.at = "failed" /\ ~ Done("authority-changing")
    <3>1. Accounted(e)'
      BY <2>1
    <3>2. Accounted(Env(ctl.d))'
      BY <1>3, <3>1
    <3> QED
      BY <2>1, <3>2 DEF Ending
  <2>2. CASE ctl'.at \in {"undo", "review"}
    BY <2>2 DEF Ending
  <2>3. CASE ctl'.at = "failed" /\ r.migration = "completed" /\ e # "production"
    <3>1. /\ e = "staging" /\ ctl'.record.migration = "completed"
          /\ \A f \in Range(Files(e)) : host'[e].file[f] = Target(ctl.d)
          /\ Fingerprint[Target(ctl.d)] <= host'[e].schema
      BY <1>2, <2>3 DEF Environments
    <3> QED
      BY <1>3, <2>3, <3>1 DEF Ending
  <2> QED
    BY <1>2, <1>3, <2>1, <2>2, <2>3
<1> QED
  BY <1>2, <1>3, <1>4, <1>5, <1>6 DEF Controlled, Attempt

LEMMA UndoFails ==
    ASSUME Typed, Attempting, ctl.at = "undo", NEW e \in Environments,
           NEW r \in Records, NEW c, Holding(c, r), ctl' = Fails(c), Open(e, r)
    PROVE  Controlled' /\ ctl' \in Controllers /\ ctl'.at \in Attempt
           /\ (ctl.at \in {"run", "undo"} => ctl.step <= Len(Steps))'
<1>1. request' = request /\ ctl.at \in Attempt
  BY DEF Open, Attempt
<1>2. ctl' \in Controllers /\ ctl'.at = "undo-failed"
  BY <1>1, Failing
<1>3. Attempting'
  BY <1>1, StaysOpen
<1> QED
  BY <1>2, <1>3
     DEF Controlled, Beginning, Running, Undoing, Ending, Telling, Attempt, Answering

\* What a run that takes its step must have changed.
LEMMA RunGoesOn ==
    ASSUME Typed, Attempting, ctl.at = "run", NEW e \in Environments,
           NEW r \in Records, NEW c, Holding(c, r), ctl' = Forth(c), Open(e, r),
           ~ Done("authority-changing") /\ Step # "authority-changing" =>
              Accounted(e)' /\ r.migration = "never-started",
           journal'[ctl.d] = IF Done("journal") \/ Step = "journal" THEN {r.before} ELSE {},
           \A f \in Range(Files(e)) :
              host'[e].file[f] = IF Done(f) \/ Step = f THEN Target(ctl.d) ELSE r.before,
           \A s \in Range(Services(e)) : Done(s) \/ Step = s => host'[e].service[s] = Target(ctl.d),
           Fingerprint[r.before] <= host'[e].schema,
           Done("migrate") \/ Step = "migrate" => Fingerprint[Target(ctl.d)] <= host'[e].schema,
           ~ ctl.changed => r.migration = "never-started",
           r.migration # "never-started" => \A f \in Range(Files(e)) : Done(f),
           r.migration = "completed" => Fingerprint[Target(ctl.d)] <= host'[e].schema,
           r.migration # "failed",
           e = "production" /\ (Done("staging-succeeded") \/ Step = "staging-succeeded") =>
              Proven(Target(ctl.d))
    PROVE  Final => /\ Controlled' /\ ctl' \in Controllers /\ ctl'.at \in Attempt
                    /\ (ctl.at \in {"run", "undo"} => ctl.step <= Len(Steps))'
<1> SUFFICES ASSUME Final
             PROVE  /\ Controlled' /\ ctl' \in Controllers /\ ctl'.at \in Attempt
                    /\ (ctl.at \in {"run", "undo"} => ctl.step <= Len(Steps))'
  OBVIOUS
<1>1. request' = request /\ ctl.at \in Attempt
  BY DEF Open, Attempt
<1>2. /\ ctl' \in Controllers /\ ctl'.d = ctl.d /\ ctl'.record = r /\ ctl'.changed = ctl.changed
      /\ \/ /\ ctl'.at = "run" /\ ctl'.step <= Len(Steps)'
            /\ \A x : Done(x)' <=> Done(x) \/ Step = x
         \/ ctl'.at = "completed" /\ Step = "verified"
  BY <1>1, Forward
<1>3. Attempting' /\ Env(ctl.d)' = e /\ Target(ctl.d)' = Target(ctl.d) /\ Env(ctl.d) = e
  BY <1>1, StaysOpen DEF Open
<1>4. Beginning' /\ Undoing' /\ Telling'
  BY <1>2 DEF Beginning, Undoing, Telling, Answering
<1>5. CASE ctl'.at = "run" /\ ctl'.step <= Len(Steps)' /\ \A x : Done(x)' <=> Done(x) \/ Step = x
  <2>1. Ending'
    BY <1>5 DEF Ending
  <2>2. PICK t : t = Target(ctl.d)
    OBVIOUS
  <2>3. e = "production" /\ Done("staging-succeeded")' => Proven(Target(ctl.d))'
    <3>1. Proven(t) => Proven(t)'
      BY ProofStays
    <3> QED
      BY <1>3, <1>5, <2>2, <3>1
  <2>4. ~ Done("authority-changing")' => Accounted(Env(ctl.d))' /\ r.migration = "never-started"
    <3>1. ~ Done("authority-changing")' => Accounted(e)' /\ r.migration = "never-started"
      BY <1>5
    <3> QED
      BY <1>3, <3>1
  <2>5. /\ journal'[ctl'.d] = IF Done("journal")' THEN {r.before} ELSE {}
        /\ \A f \in Range(Files(e)) :
              host'[e].file[f] = IF Done(f)' THEN Target(ctl.d)' ELSE r.before
        /\ \A s \in Range(Services(e)) : Done(s)' => host'[e].service[s] = Target(ctl.d)'
        /\ Done("migrate")' => Fingerprint[Target(ctl.d)'] <= host'[e].schema
        /\ r.migration # "never-started" => \A f \in Range(Files(e)) : Done(f)'
    BY <1>2, <1>3, <1>5
  <2>6. Running'
    BY <1>2, <1>3, <2>3, <2>4, <2>5 DEF Running
  <2> QED
    BY <1>2, <1>3, <1>4, <1>5, <2>1, <2>6 DEF Controlled, Attempt
<1>6. CASE ctl'.at = "completed" /\ Step = "verified"
  <2>1. /\ \A f \in Range(Files(e)) : Done(f)
        /\ \A s \in Range(Services(e)) : Done(s)
        /\ ctl.changed => Done("migrate")
    BY <1>3, <1>6, InTheRun
  <2>2. Fingerprint[Target(ctl.d)] <= host'[e].schema
    BY <1>1, <2>1 DEF Attempting, Open
  <2>3. Ending'
    BY <1>3, <1>6, <2>1, <2>2 DEF Ending
  <2>4. Running'
    BY <1>6 DEF Running
  <2> QED
    BY <1>2, <1>3, <1>4, <1>6, <2>3, <2>4 DEF Controlled, Attempt
<1> QED
  BY <1>2, <1>5, <1>6

\* What an undo that takes its step must have restored.
LEMMA UndoGoesOn ==
    ASSUME Typed, Attempting, ctl.at = "undo", NEW e \in Environments,
           NEW r \in Records, NEW c, Holding(c, r), ctl' = Forth(c), Open(e, r),
           journal'[ctl.d] = {r.before}, r.migration = "never-started",
           \A f \in Range(Files(e)) : Done(f) \/ Step = f => host'[e].file[f] = r.before,
           \A s \in Range(Services(e)) : Done(s) \/ Step = s => host'[e].service[s] = r.before,
           Fingerprint[r.before] <= host'[e].schema
    PROVE  Controlled' /\ ctl' \in Controllers /\ ctl'.at \in Attempt
           /\ (ctl.at \in {"run", "undo"} => ctl.step <= Len(Steps))'
<1>1. request' = request /\ ctl.at \in Attempt
  BY DEF Open, Attempt
<1>2. /\ ctl' \in Controllers /\ ctl'.d = ctl.d /\ ctl'.record = r
      /\ \/ /\ ctl'.at = "undo" /\ ctl'.step <= Len(Steps)'
            /\ \A x : Done(x)' <=> Done(x) \/ Step = x
         \/ ctl'.at = "failed" /\ Step = "rolled-back"
  BY <1>1, Forward
<1>3. Attempting' /\ Env(ctl.d)' = e /\ Env(ctl.d) = e
  BY <1>1, StaysOpen DEF Open
<1>4. Beginning' /\ Running' /\ Telling'
  BY <1>2 DEF Beginning, Running, Telling, Answering
<1>5. CASE ctl'.at = "undo" /\ ctl'.step <= Len(Steps)' /\ \A x : Done(x)' <=> Done(x) \/ Step = x
  <2>1. Ending'
    BY <1>5 DEF Ending
  <2>2. /\ \A f \in Range(Files(e)) : Done(f)' => host'[e].file[f] = r.before
        /\ \A s \in Range(Services(e)) : Done(s)' => host'[e].service[s] = r.before
    BY <1>5
  <2>3. Undoing'
    BY <1>2, <1>3, <2>2 DEF Undoing
  <2> QED
    BY <1>2, <1>3, <1>4, <1>5, <2>1, <2>3 DEF Controlled, Attempt
<1>6. CASE ctl'.at = "failed" /\ Step = "rolled-back"
  <2>1. /\ \A f \in Range(Files(e)) : host'[e].file[f] = r.before
        /\ \A s \in Range(Services(e)) : host'[e].service[s] = r.before
        /\ "authority" \in Range(Files(e))
    BY <1>3, <1>6, InTheUndo
  <2>2. Accounted(e)'
    BY <2>1 DEF Accounted, Agree
  <2>3. Accounted(Env(ctl.d))'
    BY <1>3, <2>2
  <2>4. Ending' /\ Undoing'
    BY <1>6, <2>3 DEF Ending, Undoing
  <2> QED
    BY <1>2, <1>3, <1>4, <1>6, <2>4 DEF Controlled, Attempt
<1> QED
  BY <1>2, <1>5, <1>6
-----------------------------------------------------------------------------
(* What most steps of the controller have in common.                       *)

LEMMA TypedStays ==
    ASSUME Typed, UNCHANGED <<hub, poll>>, ctl.at # "off",
           ctl' \in Controllers, ctl'.at # "off", ctl'.d = ctl.d,
           ctl'.at \in Attempt \cup Answering => ctl'.rec \in Deployments,
           (ctl.at \in {"run", "undo"} => ctl.step <= Len(Steps))',
           ledger' \in [Deployments -> Records],
           journal' \in [Deployments -> SUBSET Releases],
           host' = [e \in Environments |-> host'[e]],
           \A e \in Environments : host'[e] \in HostRows(e),
           status' \in [Deployments -> {"none", "in_progress", "success", "failure", "error"}],
           faults' \in Nat
    PROVE  Typed'
<1>1. /\ request' = request /\ published' = published /\ fresh' = fresh
      /\ seen' = seen /\ etag' = etag /\ agent' = agent
  BY DEF hub, poll
<1>2. (\A e \in Environments : host[e] \in HostRows(e))'
  BY DEF HostRows
<1> QED
  BY <1>1, <1>2 DEF Typed

LEMMA StatusStays ==
    ASSUME StatusIsTrue, Final, status' = status
    PROVE  StatusIsTrue'
<1> SUFFICES ASSUME NEW d \in Deployments
             PROVE  /\ status[d] = "success" => (Succeeded(Env(d), Target(d)) # {})'
                    /\ status[d] \in {"failure", "error"} => ledger'[d].outcome = "failure"
  BY DEF StatusIsTrue
<1>1. PICK e : e = Env(d)
  OBVIOUS
<1>2. PICK m : m = Target(d)
  OBVIOUS
<1>3. Env(d)' = e /\ Target(d)' = m
  BY <1>1, <1>2 DEF Final, Env, Target
<1>4. status[d] = "success" => Succeeded(e, m)' # {}
  BY <1>1, <1>2, SuccessStays DEF StatusIsTrue
<1>5. status[d] \in {"failure", "error"} => ledger'[d].outcome = "failure"
  BY DEF StatusIsTrue, Final
<1> QED
  BY <1>3, <1>4, <1>5

LEMMA NoRecordTyped == NoRecord \in Records /\ Off \in Controllers
<1>1. NoRecord \in Records
  BY Fingerprints DEF NoRecord, Records, RecordPhases, Results
<1> QED
  BY <1>1 DEF Off, Controllers

LEMMA Exits ==
    ASSUME Typed, NEW result \in {"retry", "rejected", "handled"}
    PROVE  /\ Exit(result) \in Controllers /\ Exit(result).at = "exited"
           /\ Exit(result).d = ctl.d /\ Exit(result).state = result
<1>1. Off \in Controllers
  BY NoRecordTyped
<1>2. PICK n \in Nat : n = ctl.d
  BY DEF Typed, Controllers
<1>3. PICK x : x = [Off EXCEPT !.at = "exited"]
  OBVIOUS
<1>4. x \in Controllers /\ x.at = "exited"
  BY <1>1, <1>3 DEF Controllers
<1>5. PICK y : y = [x EXCEPT !.d = n]
  OBVIOUS
<1>6. y \in Controllers /\ y.at = "exited" /\ y.d = n
  BY <1>4, <1>5 DEF Controllers
<1>7. PICK z : z = [y EXCEPT !.state = result]
  OBVIOUS
<1>8. z \in Controllers /\ z.at = "exited" /\ z.d = n /\ z.state = result
  BY <1>6, <1>7 DEF Controllers
<1>9. Exit(result) = z
  BY <1>1, <1>2, <1>3, <1>5, <1>7 DEF Exit
<1> QED
  BY <1>2, <1>8, <1>9

\* A record written, or not, by Save: the conditions are those of RecordWritten.
LEMMA Saved ==
    ASSUME Typed, InOrder, StatusIsTrue, NEW d \in Deployments, ctl.rec = d, NEW r \in Records,
           NEW then, NEW otherwise, Save(r, then, otherwise),
           NEW here \in Environments, Env(d) = here,
           r.outcome # "none",
           ledger[d].outcome \in {"success", "failure"} =>
              r.outcome = ledger[d].outcome /\ r.migration = ledger[d].migration,
           r.outcome = "in-progress" => ledger[d].outcome = "in-progress",
           r.outcome = "success" => ledger[d].outcome \in {"in-progress", "success"},
           ~ InDoubt(r) /\ ledger'[d] = r => Accounted(here) \/ Accounted(here)'
    PROVE  /\ InOrder' /\ StatusIsTrue' /\ Final
           /\ ledger' \in [Deployments -> Records] /\ faults' \in Nat
           /\ UNCHANGED <<hub, poll, journal, host, status>> /\ request' = request
           /\ ledger'[d] \in {r, ledger[d]}
           /\ \/ ctl' = then /\ ledger'[d] = r
              \/ ctl' = otherwise
<1>1. /\ UNCHANGED <<hub, poll, journal, host, status>> /\ faults' \in Nat
      /\ ledger' = ledger \/ ledger' = [ledger EXCEPT ![d] = r]
      /\ \/ ctl' = then /\ ledger' = [ledger EXCEPT ![d] = r]
         \/ ctl' = otherwise
  BY DEF Save, Fault, Typed
<1>2. request' = request /\ status' = status
  BY <1>1 DEF hub
<1>3. ledger' = [ledger EXCEPT ![d] = r] => ledger'[d] = r
  BY DEF Typed
<1>4. InOrder' /\ Final /\ ledger' \in [Deployments -> Records]
  <2>1. CASE ledger' = ledger
    BY <1>1, <1>2, <2>1, NothingWritten DEF Typed
  <2>2. CASE ledger' = [ledger EXCEPT ![d] = r]
    <3>1. Writes(d, r)
      BY <1>1, <1>2, <2>2 DEF Writes
    <3> QED
      BY <1>3, <2>2, <3>1, RecordWritten
  <2> QED
    BY <1>1, <2>1, <2>2
<1>5. StatusIsTrue'
  BY <1>2, <1>4, StatusStays
<1> QED
  BY <1>1, <1>2, <1>3, <1>4, <1>5
-----------------------------------------------------------------------------
(* The steps of GitHub, of the agent and of the controller keep IInv.      *)

\* A step that writes nothing and leaves the attempt in progress where it is, or ends it.
LEMMA Aside ==
    ASSUME IInv, UNCHANGED <<request, ledger, journal, host, status>>,
           \/ ctl'.at \in {"off", "begin", "exited"}
           \/ /\ ctl'.at = ctl.at /\ ctl'.d = ctl.d /\ ctl'.rec = ctl.rec /\ ctl'.step = ctl.step
              /\ ctl'.changed = ctl.changed /\ ctl'.state = ctl.state /\ ctl'.record = ctl.record
    PROVE  InOrder' /\ Controlled' /\ StatusIsTrue'
<1>1. InOrder' /\ Final
  BY NothingWritten DEF IInv
<1>2. StatusIsTrue'
  BY <1>1, StatusStays DEF IInv
<1>3. CASE ctl'.at \in {"off", "begin", "exited"}
  BY <1>1, <1>2, <1>3, NoAttempt
<1>4. CASE /\ ctl'.at = ctl.at /\ ctl'.d = ctl.d /\ ctl'.rec = ctl.rec /\ ctl'.step = ctl.step
           /\ ctl'.changed = ctl.changed /\ ctl'.state = ctl.state /\ ctl'.record = ctl.record
  <2>1. /\ Env(ctl.d)' = Env(ctl.d) /\ Target(ctl.d)' = Target(ctl.d)
        /\ Env(ctl.rec)' = Env(ctl.rec) /\ Target(ctl.rec)' = Target(ctl.rec)
    BY <1>4 DEF Env, Target
  <2>2. PICK e : e = Env(ctl.d)
    OBVIOUS
  <2>3. Accounted(e)' <=> Accounted(e)
    BY DEF Accounted, Agree, Recorded, Env, Target
  <2>4. Accounted(Env(ctl.d))' <=> Accounted(Env(ctl.d))
    BY <2>1, <2>2, <2>3
  <2>5. \A x : Done(x)' <=> Done(x)
    BY <1>4 DEF Done, Steps, Env
  <2>6. PICK m : m = Target(ctl.d)
    OBVIOUS
  <2>7. Proven(Target(ctl.d)) => Proven(Target(ctl.d))'
    BY <1>1, <2>1, <2>6, ProofStays DEF Proven
  <2>8. Attempting' /\ Beginning'
    BY <1>4, <2>1, <2>4 DEF IInv, Controlled, Attempting, Beginning
  <2>9. Running'
    <3>1. /\ ctl.at = "run" =>
                /\ ~ Done("authority-changing")' =>
                      Accounted(Env(ctl.d))' /\ ctl.record.migration = "never-started"
                /\ Env(ctl.d) = "production" /\ Done("staging-succeeded")' =>
                      Proven(Target(ctl.d))'
      BY <2>4, <2>5, <2>7 DEF IInv, Controlled, Running
    <3> QED
      BY <1>4, <2>1, <2>5, <3>1 DEF IInv, Controlled, Running
  <2>10. Undoing'
    BY <1>4, <2>1, <2>5 DEF IInv, Controlled, Undoing
  <2>11. Ending'
    BY <1>4, <2>1, <2>4 DEF IInv, Controlled, Ending
  <2>12. Telling'
    BY <1>4, <2>1 DEF IInv, Controlled, Telling
  <2> QED
    BY <1>1, <1>2, <2>8, <2>9, <2>10, <2>11, <2>12 DEF Controlled
<1> QED
  BY <1>3, <1>4

LEMMA Publishing ==
    ASSUME IInv, NEW d \in Deployments, Publish(d) \/ Expire(d)
    PROVE  IInv'
<1>1. /\ request' = request /\ UNCHANGED <<poll, ctl, disk, status, faults>>
      /\ published \subseteq published' /\ published' \subseteq Deployments
      /\ fresh' \subseteq Deployments
  BY DEF IInv, Typed, Publish, Expire
<1>2. /\ seen' = seen /\ etag' = etag /\ agent' = agent /\ ledger' = ledger /\ journal' = journal
      /\ host' = host /\ ctl' = ctl /\ status' = status
  BY <1>1 DEF poll, disk
<1>3. InOrder' /\ Controlled' /\ StatusIsTrue'
  BY <1>1, <1>2, Aside
<1>4. (ctl.at \in {"run", "undo"} => ctl.step <= Len(Steps))'
  BY <1>1, <1>2 DEF IInv, Typed, Steps, Env
<1>5. (\A e \in Environments : host[e] \in HostRows(e))'
  BY <1>2 DEF IInv, Typed, HostRows
<1>6. Typed'
  BY <1>1, <1>2, <1>4, <1>5 DEF IInv, Typed
<1> QED
  BY <1>3, <1>6 DEF IInv

\* A step that leaves the disk alone, but for what the agent keeps.
LEMMA AgentAside ==
    ASSUME IInv, UNCHANGED <<hub, disk, status>>, faults' \in Nat,
           seen' \subseteq published,
           etag' \in [Environments -> SUBSET Deployments],
           agent' \in Agents, agent'.todo \subseteq agent'.page, agent'.page \subseteq published,
           agent'.at = "waiting" <=> ctl'.at # "off",
           ctl' = ctl \/ (ctl' \in Controllers /\ ctl'.at \in {"off", "begin"}
                             /\ ctl'.d \in published \cup {0}),
           ctl'.at = "begin" => ctl'.d \in published
    PROVE  IInv'
<1>1. /\ request' = request /\ published' = published /\ fresh' = fresh /\ status' = status
      /\ ledger' = ledger /\ journal' = journal /\ host' = host
  BY DEF hub, disk
<1>2. InOrder' /\ Controlled' /\ StatusIsTrue'
  BY <1>1, Aside
<1>3. (ctl.at \in {"run", "undo"} => ctl.step <= Len(Steps))'
  BY <1>1 DEF IInv, Typed, Steps, Env
<1>4. (\A e \in Environments : host[e] \in HostRows(e))'
  BY <1>1 DEF IInv, Typed, HostRows
<1>5. /\ ctl' \in Controllers /\ ctl'.at # "off" => ctl'.d \in published
      /\ ctl'.at \in Attempt \cup Answering => ctl'.rec \in Deployments
  BY DEF IInv, Typed, Attempt, Answering
<1>6. Typed'
  BY <1>1, <1>3, <1>4, <1>5 DEF IInv, Typed
<1> QED
  BY <1>2, <1>6 DEF IInv

LEMMA Agency ==
    ASSUME IInv, Agent \/ Crash
    PROVE  IInv'
<1>0. Typed
  BY DEF IInv
<1>1. /\ agent \in Agents /\ agent.todo \subseteq agent.page /\ agent.page \subseteq published
      /\ seen \subseteq published /\ published \subseteq Deployments
      /\ etag \in [Environments -> SUBSET Deployments] /\ faults \in Nat
      /\ agent.at = "waiting" <=> ctl.at # "off"
  BY <1>0 DEF Typed
<1>2. Idle \in Agents /\ Idle.at = "idle" /\ Idle.todo = {} /\ Idle.page = {}
  BY DEF Idle, Agents, Environments
<1>3. \A e : Following(e) \in Agents /\ Following(e).at = "idle" /\ Following(e).todo = {}
                 /\ Following(e).page = {}
  BY DEF Following, Idle, Agents, Environments
<1>4. Off \in Controllers /\ Off.at = "off" /\ Off.d = 0
  BY NoRecordTyped DEF Off
<1>5. CASE Poll
  <2>1. /\ UNCHANGED <<hub, seen, etag, ctl, disk, status>> /\ agent.at = "idle"
        /\ faults' \in Nat
    BY <1>1, <1>5 DEF Poll, Fault
  <2>2. agent' \in Agents /\ agent'.at \in {"idle", "page"}
        /\ agent'.todo \subseteq agent'.page /\ agent'.page \subseteq published
    <3>1. PICK L : L = Listed(agent.env) /\ L \subseteq published
      BY DEF Listed
    <3>2. CASE agent' = [agent EXCEPT !.at = "page", !.page = L, !.todo = L \ seen]
      BY <1>1, <3>1, <3>2 DEF Agents
    <3>3. CASE agent' = Idle \/ agent' = Following(agent.env)
      BY <1>2, <1>3, <3>3
    <3> QED
      BY <1>5, <3>1, <3>2, <3>3 DEF Poll
  <2> QED
    BY <1>1, <2>1, <2>2, AgentAside
<1>6. CASE Invoke
  <2>1. /\ UNCHANGED <<hub, seen, etag, disk, status, faults>>
        /\ agent.todo # {} /\ agent' = [agent EXCEPT !.at = "waiting"]
        /\ ctl' = [Off EXCEPT !.at = "begin", !.d = Min(agent.todo)]
    BY <1>6 DEF Invoke
  <2>2. Min(agent.todo) \in agent.todo
    BY <1>1, <2>1, Least, ReleaseAssumption
  <2>3. PICK n \in published : n = Min(agent.todo) /\ n \in Nat
    BY <1>1, <2>2, ReleaseAssumption
  <2>4. ctl' \in Controllers /\ ctl'.at = "begin" /\ ctl'.d = n
    BY <1>4, <2>1, <2>3 DEF Controllers
  <2>5. agent' \in Agents /\ agent'.at = "waiting" /\ agent'.todo = agent.todo
        /\ agent'.page = agent.page
    BY <1>1, <2>1 DEF Agents
  <2> QED
    BY <1>1, <2>1, <2>3, <2>4, <2>5, AgentAside
<1>7. CASE Mark
  <2>1. /\ UNCHANGED <<hub, etag, disk, status, faults>> /\ ctl' = Off /\ ctl.at = "exited"
        /\ seen' = seen \/ seen' = seen \cup {ctl.d}
        /\ agent' = [agent EXCEPT !.at = "page", !.todo = @ \ {ctl.d},
                                  !.retry = @ \/ ctl.state = "retry"]
    BY <1>7 DEF Mark
  <2>2. seen' \subseteq published
    BY <1>0, <1>1, <2>1 DEF Typed
  <2>3. PICK b \in BOOLEAN : b <=> agent.retry \/ ctl.state = "retry"
    OBVIOUS
  <2>4. agent' = [agent EXCEPT !.at = "page", !.todo = agent.todo \ {ctl.d}, !.retry = b]
    <3>1. agent.retry \in BOOLEAN
      BY <1>1 DEF Agents
    <3>2. (agent.retry \/ ctl.state = "retry") = b
      BY <2>3, <3>1
    <3> QED
      BY <1>1, <2>1, <3>2 DEF Agents
  <2>5. agent' \in Agents /\ agent'.at = "page" /\ agent'.todo \subseteq agent'.page
        /\ agent'.page = agent.page
    BY <1>1, <2>4 DEF Agents
  <2> QED
    BY <1>1, <1>4, <2>1, <2>2, <2>5, AgentAside
<1>8. CASE EndPage
  <2>1. /\ UNCHANGED <<hub, seen, ctl, disk, status, faults>> /\ agent.at = "page"
        /\ etag' = etag \/ etag' = [etag EXCEPT ![agent.env] = agent.page]
        /\ agent' = Idle \/ agent' = Following(agent.env)
    BY <1>8 DEF EndPage
  <2>2. etag' \in [Environments -> SUBSET Deployments]
    BY <1>1, <2>1
  <2> QED
    BY <1>1, <1>2, <1>3, <2>1, <2>2, AgentAside
<1>9. CASE Crash
  <2>1. /\ UNCHANGED <<hub, seen, etag, disk, status>> /\ agent' = Idle /\ ctl' = Off
        /\ faults' \in Nat
    BY <1>1, <1>9 DEF Crash, Fault
  <2> QED
    BY <1>1, <1>2, <1>4, <2>1, AgentAside
<1> QED
  BY <1>5, <1>6, <1>7, <1>8, <1>9 DEF Agent

\* A step of the controller that writes nothing, to a controller that is not in an attempt.
LEMMA Leaving ==
    ASSUME IInv, UNCHANGED <<hub, poll, disk>>, status' = status, faults' \in Nat, ctl.at # "off",
           NEW result \in {"retry", "rejected", "handled"}, ctl' = Exit(result)
    PROVE  IInv'
<1>1. ctl' \in Controllers /\ ctl'.at = "exited" /\ ctl'.d = ctl.d
  BY Exits DEF IInv
<1>2. request' = request /\ ledger' = ledger /\ journal' = journal /\ host' = host
  BY DEF hub, disk
<1>3. InOrder' /\ Controlled' /\ StatusIsTrue'
  BY <1>1, <1>2, Aside
<1>4. Typed'
  BY <1>1, <1>2, TypedStays DEF IInv, Typed, Attempt, Answering
<1> QED
  BY <1>3, <1>4 DEF IInv

LEMMA Delaying ==
    ASSUME IInv, Late
    PROVE  IInv'
<1>1. /\ UNCHANGED <<hub, poll, disk, status>> /\ ctl.at \in {"run", "undo"} /\ faults' \in Nat
      /\ ctl' = [ctl EXCEPT !.late = TRUE]
  BY DEF IInv, Typed, Late, Fault
<1>2. /\ ctl' \in Controllers /\ ctl'.at = ctl.at /\ ctl'.d = ctl.d /\ ctl'.rec = ctl.rec
      /\ ctl'.step = ctl.step /\ ctl'.changed = ctl.changed /\ ctl'.state = ctl.state
      /\ ctl'.record = ctl.record
  BY <1>1 DEF IInv, Typed, Controllers
<1>3. request' = request /\ ledger' = ledger /\ journal' = journal /\ host' = host
      /\ status' = status
  BY <1>1 DEF hub, disk
<1>4. InOrder' /\ Controlled' /\ StatusIsTrue'
  BY <1>2, <1>3, Aside
<1>5. (ctl.at \in {"run", "undo"} => ctl.step <= Len(Steps))'
  BY <1>2, <1>3 DEF IInv, Typed, Steps, Env
<1>6. Typed'
  BY <1>1, <1>2, <1>3, <1>5, TypedStays DEF IInv, Typed
<1> QED
  BY <1>4, <1>6 DEF IInv

\* The answer of the ledger to a deployment that is on record or whose release is.
LEMMA Answered ==
    ASSUME Typed, Ordered, NEW d \in Deployments, NEW r \in Answers(d)
    PROVE  /\ r \in Deployments /\ Env(r) = Env(d) /\ ledger[r].outcome # "none"
           /\ ledger[r].outcome = "success" => Target(r) = Target(d)
           /\ ledger[r].outcome # "success" => r = d
<1>1. CASE ledger[d] # NoRecord
  BY <1>1 DEF Answers, Ordered
<1>2. CASE ledger[d] = NoRecord
  <2>1. r \in Succeeded(Env(d), Target(d))
    BY <1>2 DEF Answers
  <2> QED
    BY <2>1 DEF Succeeded, Recorded
<1> QED
  BY <1>1, <1>2

\* The records of a new attempt and of a refused one.
Accepted(before) ==
    [NoRecord EXCEPT !.phase = "accepted", !.outcome = "in-progress", !.before = before]
Refusal(new, phase, result) ==
    [new EXCEPT !.outcome = "failure", !.phase = phase, !.result = result]

LEMMA NewRecords ==
    ASSUME NEW before \in Releases, NEW phase \in RecordPhases, NEW result \in Results
    PROVE  /\ Accepted(before) \in Records /\ Accepted(before).outcome = "in-progress"
           /\ Accepted(before).before = before /\ Accepted(before).migration = "never-started"
           /\ Refusal(Accepted(before), phase, result) \in Records
           /\ Refusal(Accepted(before), phase, result).outcome = "failure"
           /\ Refusal(Accepted(before), phase, result).result = result
<1>0. NoRecord \in Records /\ NoRecord.migration = "never-started"
  BY NoRecordTyped DEF NoRecord
<1>1. "accepted" \in RecordPhases
  BY DEF RecordPhases
<1>2. PICK a : a = [NoRecord EXCEPT !.phase = "accepted"]
  OBVIOUS
<1>3. PICK b : b = [a EXCEPT !.outcome = "in-progress"]
  OBVIOUS
<1>4. PICK n : n = [b EXCEPT !.before = before]
  OBVIOUS
<1>5. /\ a \in Records /\ a.migration = "never-started"
      /\ b \in Records /\ b.migration = "never-started" /\ b.outcome = "in-progress"
      /\ n \in Records /\ n.migration = "never-started" /\ n.outcome = "in-progress"
      /\ n.before = before
  <2>1. a \in Records /\ a.migration = "never-started"
    BY <1>0, <1>1, <1>2 DEF Records
  <2>2. b \in Records /\ b.migration = "never-started" /\ b.outcome = "in-progress"
    BY <1>3, <2>1 DEF Records
  <2>3. /\ n \in Records /\ n.migration = "never-started" /\ n.outcome = "in-progress"
        /\ n.before = before
    BY <1>4, <2>2 DEF Records
  <2> QED
    BY <2>1, <2>2, <2>3
<1>6. Accepted(before) = n
  BY <1>0, <1>2, <1>3, <1>4 DEF Accepted, Records
<1>7. PICK c : c = [n EXCEPT !.outcome = "failure"]
  OBVIOUS
<1>8. PICK d : d = [c EXCEPT !.phase = phase]
  OBVIOUS
<1>9. PICK m : m = [d EXCEPT !.result = result]
  OBVIOUS
<1>10. /\ c \in Records /\ c.outcome = "failure" /\ d \in Records /\ d.outcome = "failure"
       /\ m \in Records /\ m.outcome = "failure" /\ m.result = result
  <2>1. c \in Records /\ c.outcome = "failure"
    BY <1>5, <1>7 DEF Records
  <2>2. d \in Records /\ d.outcome = "failure"
    BY <1>8, <2>1 DEF Records
  <2>3. m \in Records /\ m.outcome = "failure" /\ m.result = result
    BY <1>9, <2>2 DEF Records
  <2> QED
    BY <2>1, <2>2, <2>3
<1>11. Refusal(Accepted(before), phase, result) = m
  BY <1>5, <1>6, <1>7, <1>8, <1>9 DEF Refusal, Records
<1> QED
  BY <1>5, <1>6, <1>10, <1>11

\* The controller enters its attempt, or answers without one.
Answer(at, rec, r, state) == [Goto(ctl, at) EXCEPT !.rec = rec, !.record = r, !.state = state]
Enter(at, rec, r, changed) == [Goto(ctl, at) EXCEPT !.rec = rec, !.record = r, !.changed = changed]

LEMMA Placed ==
    ASSUME Typed, NEW r \in Records, NEW rec \in Deployments, NEW at \in {"post", "announce"}
    PROVE  \E k \in Controllers :
              /\ k.at = at /\ k.d = ctl.d /\ k.rec = rec /\ k.record = r
              /\ \A state : Answer(at, rec, r, state) = [k EXCEPT !.state = state]
              /\ \A changed : Enter(at, rec, r, changed) = [k EXCEPT !.changed = changed]
<1>1. PICK g : g = Goto(ctl, at)
  OBVIOUS
<1>2. g \in Controllers /\ g.at = at /\ g.d = ctl.d
  BY <1>1, Going DEF Typed, Attempt, Answering
<1>3. rec \in Nat
  BY ReleaseAssumption
<1>4. PICK h : h = [g EXCEPT !.rec = rec]
  OBVIOUS
<1>5. h \in Controllers /\ h.at = at /\ h.d = ctl.d /\ h.rec = rec
  BY <1>2, <1>3, <1>4 DEF Controllers
<1>6. PICK k : k = [h EXCEPT !.record = r]
  OBVIOUS
<1>7. k \in Controllers /\ k.at = at /\ k.d = ctl.d /\ k.rec = rec /\ k.record = r
  BY <1>5, <1>6 DEF Controllers
<1>8. \A state : Answer(at, rec, r, state) = [k EXCEPT !.state = state]
  BY <1>1, <1>2, <1>4, <1>6 DEF Controllers, Answer
<1>9. \A changed : Enter(at, rec, r, changed) = [k EXCEPT !.changed = changed]
  BY <1>1, <1>2, <1>4, <1>6 DEF Controllers, Enter
<1> QED
  BY <1>7, <1>8, <1>9

LEMMA Replies ==
    ASSUME Typed, NEW r \in Records, NEW rec \in Deployments, NEW at \in {"post", "announce"},
           NEW state \in {"success", "failure", "error"}
    PROVE  /\ Answer(at, rec, r, state) \in Controllers
           /\ Answer(at, rec, r, state).at = at /\ Answer(at, rec, r, state).d = ctl.d
           /\ Answer(at, rec, r, state).rec = rec /\ Answer(at, rec, r, state).record = r
           /\ Answer(at, rec, r, state).state = state
<1>1. PICK k \in Controllers :
         /\ k.at = at /\ k.d = ctl.d /\ k.rec = rec /\ k.record = r
         /\ Answer(at, rec, r, state) = [k EXCEPT !.state = state]
  BY Placed
<1> QED
  BY <1>1 DEF Controllers

LEMMA Enters ==
    ASSUME Typed, NEW r \in Records, NEW rec \in Deployments, NEW at \in {"post", "announce"},
           NEW changed \in BOOLEAN
    PROVE  /\ Enter(at, rec, r, changed) \in Controllers
           /\ Enter(at, rec, r, changed).at = at /\ Enter(at, rec, r, changed).d = ctl.d
           /\ Enter(at, rec, r, changed).rec = rec /\ Enter(at, rec, r, changed).record = r
           /\ Enter(at, rec, r, changed).changed = changed
<1>1. PICK k \in Controllers :
         /\ k.at = at /\ k.d = ctl.d /\ k.rec = rec /\ k.record = r
         /\ Enter(at, rec, r, changed) = [k EXCEPT !.changed = changed]
  BY Placed
<1> QED
  BY <1>1 DEF Controllers

LEMMA Beginnings ==
    ASSUME IInv, Begin
    PROVE  IInv'
<1> DEFINE d == ctl.d
           e == Env(d)
<1>1. /\ Typed /\ InOrder /\ Controlled /\ StatusIsTrue /\ Ordered
      /\ d \in published /\ d \in Deployments /\ e \in Environments /\ Target(d) \in Releases
      /\ ctl.at = "begin" /\ UNCHANGED <<hub, poll, journal, host, status>>
      /\ host[e].file["authority"] \in Releases
  <2>1. d \in published /\ d \in Deployments /\ ctl.at = "begin"
    BY DEF IInv, Typed, Begin
  <2>2. e \in Environments /\ Target(d) \in Releases
    BY <2>1, Requests DEF IInv, Typed
  <2>3. host[e].file["authority"] \in Releases
    BY <2>2, Lists DEF IInv, Typed, HostRows
  <2> QED
    BY <2>1, <2>2, <2>3 DEF Begin, IInv, InOrder
<1>2. request' = request /\ journal' = journal /\ host' = host /\ status' = status
  BY <1>1 DEF hub
<1>3. PICK here \in Environments : here = e
  BY <1>1
<1> DEFINE before == host[e].file["authority"]
           new == [NoRecord EXCEPT !.phase = "accepted", !.outcome = "in-progress",
                                   !.before = before]
           phase == IF \E r \in Recorded(e) : DatabaseReview(ledger[r])
                    THEN "manual-review-blocked" ELSE "manual-reconciliation-blocked"
           result == IF \E r \in Recorded(e) : DatabaseReview(ledger[r])
                     THEN "database-review" ELSE "reconciliation"
           refused == [new EXCEPT !.outcome = "failure", !.phase = phase, !.result = result]
           old == Answers(d)
           Entered(record, then) ==
             \/ ledger' = [ledger EXCEPT ![d] = record] /\ ctl' = then /\ UNCHANGED faults
             \/ Fault /\ ctl' = Exit("retry")
                /\ ledger' \in {ledger, [ledger EXCEPT ![d] = record]}
<1>4. \/ ctl' = Exit("rejected") /\ UNCHANGED <<ledger, faults>>
      \/ Fault /\ ctl' = Exit("retry") /\ UNCHANGED ledger
      \/ /\ old # {}
         /\ ctl' = IF ledger[Min(old)].outcome = "in-progress" THEN Exit("retry")
                   ELSE [Goto(ctl, "post") EXCEPT !.rec = Min(old), !.record = ledger[Min(old)],
                                                  !.state = ledger[Min(old)].outcome]
         /\ UNCHANGED <<ledger, faults>>
      \/ /\ old = {} /\ Blocked(e)
         /\ Entered(refused, [Goto(ctl, "post") EXCEPT !.rec = d, !.record = refused, !.state = "error"])
      \/ /\ old = {} /\ ~ Blocked(e)
         /\ Entered(new, [Goto(ctl, "announce") EXCEPT !.rec = d, !.record = new,
                            !.changed = Fingerprint[new.before] # Fingerprint[Target(d)]])
  BY DEF Begin
<1>5. /\ new \in Records /\ new.outcome = "in-progress" /\ new.before = before
      /\ new.migration = "never-started"
      /\ refused \in Records /\ refused.outcome = "failure"
      /\ refused.result \in {"database-review", "reconciliation"}
  <2>1. PICK b \in Releases : b = before
    BY <1>1
  <2>2. PICK p \in RecordPhases : p = phase
    BY DEF RecordPhases
  <2>3. PICK q \in {"database-review", "reconciliation"} : q = result
    OBVIOUS
  <2> HIDE DEF phase, result, before
  <2>4. q \in Results
    BY <2>3 DEF Results
  <2>5. /\ Accepted(b) \in Records /\ Accepted(b).outcome = "in-progress"
        /\ Accepted(b).before = b /\ Accepted(b).migration = "never-started"
        /\ Refusal(Accepted(b), p, q) \in Records
        /\ Refusal(Accepted(b), p, q).outcome = "failure"
        /\ Refusal(Accepted(b), p, q).result = q
    BY <2>4, NewRecords
  <2>6. new = Accepted(b) /\ refused = Refusal(Accepted(b), p, q)
    BY <2>1, <2>2, <2>3 DEF Accepted, Refusal
  <2> HIDE DEF new, refused
  <2> QED
    BY <2>1, <2>3, <2>5, <2>6
<1> HIDE DEF new, refused, old
<1>6. CASE ctl' = Exit("rejected") /\ UNCHANGED <<ledger, faults>>
  BY <1>1, <1>2, <1>6, Leaving DEF disk, Typed
<1>7. CASE Fault /\ ctl' = Exit("retry") /\ UNCHANGED ledger
  <2>1. faults' \in Nat
    BY <1>1, <1>7 DEF Fault, Typed
  <2> QED
    BY <1>1, <1>2, <1>7, <2>1, Leaving DEF disk
<1>8. CASE /\ old # {}
           /\ ctl' = IF ledger[Min(old)].outcome = "in-progress" THEN Exit("retry")
                     ELSE [Goto(ctl, "post") EXCEPT !.rec = Min(old), !.record = ledger[Min(old)],
                                                    !.state = ledger[Min(old)].outcome]
           /\ UNCHANGED <<ledger, faults>>
  <2>1. old \subseteq Deployments
    BY <1>1, Answered DEF old
  <2>2. Min(old) \in old
    BY <1>8, <2>1, Least, ReleaseAssumption
  <2>3. PICK r \in old : r = Min(old)
    BY <2>2
  <2>4. /\ r \in Deployments /\ Env(r) = Env(d) /\ ledger[r].outcome # "none"
        /\ ledger[r].outcome = "success" => Target(r) = Target(d)
        /\ ledger[r].outcome # "success" => r = d
    BY <1>1, Answered DEF old
  <2>5. CASE ledger[r].outcome = "in-progress"
    BY <1>1, <1>2, <1>8, <2>3, <2>5, Leaving DEF disk, Typed
  <2>6. CASE ledger[r].outcome # "in-progress"
    <3>1. PICK state \in {"success", "failure"} : state = ledger[r].outcome
      BY <1>1, <2>4, <2>6 DEF Typed, Records
    <3>2. PICK record \in Records : record = ledger[r]
      BY <1>1, <2>4 DEF Typed
    <3>3. PICK n \in Deployments : n = d
      BY <1>1
    <3>4. PICK c : c = Answer("post", r, record, state)
      OBVIOUS
    <3>5. /\ c \in Controllers /\ c.at = "post" /\ c.d = ctl.d /\ c.rec = r
          /\ c.record = record /\ c.state = state
      BY <1>1, <2>4, <3>4, Replies
    <3>6. ctl' = c
      BY <1>8, <2>3, <2>6, <3>1, <3>2, <3>4 DEF Answer
    <3>7. /\ ctl' \in Controllers /\ ctl'.at = "post" /\ ctl'.d = ctl.d /\ ctl'.rec = r
          /\ ctl'.record = record /\ ctl'.state = state
      BY <3>3, <3>5, <3>6
    <3>8. InOrder' /\ Final
      BY <1>1, <1>2, <1>8, NothingWritten
    <3>9. StatusIsTrue'
      BY <1>1, <1>2, <3>8, StatusStays
    <3>10. Telling'
      <4>1. /\ ledger'[r] = record /\ Env(r)' = Env(r) /\ Env(ctl.d)' = Env(d)
            /\ Target(r)' = Target(r) /\ Target(ctl.d)' = Target(d)
        BY <1>2, <1>8, <3>2, <3>7 DEF Env, Target
      <4>2. Env(ctl.rec)' = Env(r) /\ Target(ctl.rec)' = Target(r)
        BY <1>2, <3>7 DEF Env, Target
      <4> QED
        BY <2>4, <3>1, <3>2, <3>7, <4>1, <4>2 DEF Telling
    <3>11. Controlled'
      BY <3>7, <3>10 DEF Controlled, Attempting, Beginning, Running, Undoing, Ending, Attempt
    <3>12. Typed'
      BY <1>1, <1>2, <1>8, <2>4, <3>7, TypedStays DEF Typed, Attempt
    <3> QED
      BY <3>8, <3>9, <3>11, <3>12 DEF IInv
  <2> QED
    BY <2>5, <2>6
<1>9. ASSUME NEW record \in {new, refused}, NEW then, Entered(record, then), old = {},
             record = new => ~ Blocked(e)
      PROVE  /\ InOrder' /\ StatusIsTrue' /\ Final /\ faults' \in Nat
             /\ ledger' \in [Deployments -> Records]
             /\ \/ ctl' = then /\ ledger'[d] = record
                \/ ctl' = Exit("retry")
  <2>1. ledger[d] = NoRecord /\ ledger[d].outcome = "none"
    <3>1. ledger[d] = NoRecord
      BY <1>9 DEF old, Answers
    <3> QED
      BY <3>1 DEF NoRecord
  <2>2. faults' \in Nat
    BY <1>1, <1>9 DEF Fault, Typed
  <2>3. ~ Blocked(e) => Succeeded(e, Target(d)) = {}
    BY <1>9, <2>1 DEF old, Answers
  <2>4. CASE ledger' = ledger
    <3>1. InOrder' /\ Final
      BY <1>1, <1>2, <2>4, NothingWritten
    <3>2. StatusIsTrue'
      BY <1>1, <1>2, <3>1, StatusStays
    <3> QED
      BY <1>1, <1>9, <2>2, <2>4, <3>1, <3>2 DEF Typed
  <2>5. CASE ledger' = [ledger EXCEPT ![d] = record]
    <3>1. Writes(d, record) /\ record \in Records /\ record.outcome # "none"
      BY <1>2, <1>5, <2>5 DEF Writes
    <3>2. ~ InDoubt(record) => Accounted(here)
      BY <1>5 DEF InDoubt, Reconciliation, DatabaseReview
    <3>3. record.outcome = "in-progress" => ~ Blocked(here) /\ Succeeded(here, Target(d)) = {}
      BY <1>3, <1>5, <1>9, <2>3
    <3>4. InOrder' /\ Final /\ ledger' \in [Deployments -> Records]
      <4> HIDE DEF d
      <4>1. /\ d \in Deployments /\ here \in Environments /\ Env(d) = here
            /\ record.outcome # "success"
            /\ ledger[d].outcome \notin {"success", "failure"}
        BY <1>1, <1>3, <1>5, <2>1
      <4>2. PICK n \in Deployments : n = d
        BY <4>1
      <4> QED
        BY <1>1, <3>1, <3>2, <3>3, <4>1, <4>2, RecordWritten
    <3>5. StatusIsTrue'
      BY <1>1, <1>2, <3>4, StatusStays
    <3>6. ledger'[d] = record
      BY <1>1, <2>5 DEF Typed
    <3> QED
      BY <1>9, <2>2, <3>4, <3>5, <3>6
  <2> QED
    BY <1>9, <2>4, <2>5
<1>10. ASSUME ctl' = Exit("retry"), InOrder', StatusIsTrue', faults' \in Nat,
              ledger' \in [Deployments -> Records]
       PROVE  IInv'
  <2>1. ctl' \in Controllers /\ ctl'.at = "exited" /\ ctl'.d = ctl.d
    BY <1>1, <1>10, Exits
  <2>2. Controlled'
    BY <2>1, NoAttempt
  <2>3. Typed'
    BY <1>1, <1>2, <1>10, <2>1, TypedStays DEF Typed, Attempt, Answering
  <2> QED
    BY <1>10, <2>2, <2>3 DEF IInv
<1>11. CASE /\ old = {} /\ Blocked(e)
            /\ Entered(refused, [Goto(ctl, "post") EXCEPT !.rec = d, !.record = refused, !.state = "error"])
  <2> DEFINE then == [Goto(ctl, "post") EXCEPT !.rec = d, !.record = refused, !.state = "error"]
  <2>1. /\ then \in Controllers /\ then.at = "post" /\ then.d = d /\ then.rec = d
        /\ then.record = refused /\ then.state = "error"
    <3>1. PICK n \in Deployments : n = d
      BY <1>1
    <3>2. PICK r \in Records : r = refused
      BY <1>5
    <3>3. PICK c : c = Answer("post", n, r, "error")
      OBVIOUS
    <3>4. /\ c \in Controllers /\ c.at = "post" /\ c.d = ctl.d /\ c.rec = n
          /\ c.record = r /\ c.state = "error"
      BY <1>1, <3>3, Replies
    <3>5. then = c
      BY <3>1, <3>2, <3>3 DEF Answer
    <3> HIDE DEF then
    <3> QED
      BY <3>1, <3>2, <3>4, <3>5
  <2> HIDE DEF then
  <2>2. Entered(refused, then) /\ refused # new
    BY <1>5, <1>11 DEF then
  <2>3. /\ InOrder' /\ StatusIsTrue' /\ Final /\ faults' \in Nat
        /\ ledger' \in [Deployments -> Records]
        /\ \/ ctl' = then /\ ledger'[d] = refused
           \/ ctl' = Exit("retry")
    BY <1>9, <1>11, <2>2
  <2>4. CASE ctl' = then /\ ledger'[d] = refused
    <3>1. Telling'
      BY <1>5, <2>1, <2>4 DEF Telling, Env
    <3>2. Controlled'
      BY <2>1, <2>4, <3>1 DEF Controlled, Attempting, Beginning, Running, Undoing, Ending, Attempt
    <3>3. Typed'
      BY <1>1, <1>2, <2>1, <2>3, <2>4, TypedStays DEF Typed, Attempt
    <3> QED
      BY <2>3, <3>2, <3>3 DEF IInv
  <2> QED
    BY <1>10, <2>3, <2>4
<1>12. CASE /\ old = {} /\ ~ Blocked(e)
            /\ Entered(new, [Goto(ctl, "announce") EXCEPT !.rec = d, !.record = new,
                              !.changed = Fingerprint[new.before] # Fingerprint[Target(d)]])
  <2>0. PICK changed \in BOOLEAN : changed = (Fingerprint[new.before] # Fingerprint[Target(d)])
    OBVIOUS
  <2> DEFINE then == [Goto(ctl, "announce") EXCEPT !.rec = d, !.record = new, !.changed = changed]
  <2>1. /\ then \in Controllers /\ then.at = "announce" /\ then.d = d /\ then.rec = d
        /\ then.record = new /\ then.changed = changed
    <3>1. PICK n \in Deployments : n = d
      BY <1>1
    <3>2. PICK r \in Records : r = new
      BY <1>5
    <3>3. PICK c : c = Enter("announce", n, r, changed)
      OBVIOUS
    <3>4. /\ c \in Controllers /\ c.at = "announce" /\ c.d = ctl.d /\ c.rec = n
          /\ c.record = r /\ c.changed = changed
      BY <1>1, <3>3, Enters
    <3>5. then = c
      BY <3>1, <3>2, <3>3 DEF Enter
    <3> HIDE DEF then
    <3> QED
      BY <3>1, <3>2, <3>4, <3>5
  <2> HIDE DEF then
  <2>2. Entered(new, then)
    BY <1>12, <2>0 DEF then
  <2>3. /\ InOrder' /\ StatusIsTrue' /\ Final /\ faults' \in Nat
        /\ ledger' \in [Deployments -> Records]
        /\ \/ ctl' = then /\ ledger'[d] = new
           \/ ctl' = Exit("retry")
    BY <1>9, <1>12, <2>2
  <2>4. CASE ctl' = then /\ ledger'[d] = new
    <3>1. Env(ctl.d)' = here /\ Target(ctl.d)' = Target(d) /\ ctl'.d = d
      BY <1>2, <1>3, <2>1, <2>4 DEF Env, Target
    <3>2. Accounted(Env(ctl.d))'
      <4>1. Accounted(here)
        BY <1>1, <1>3, <1>12 DEF InOrder, HostIsAccountedFor, Accounted
      <4>2. Accounted(here)'
        BY <1>2, <2>3, <4>1, AccountedStays
      <4> QED
        BY <3>1, <4>2
    <3>3. Attempting'
      BY <1>5, <2>0, <2>1, <2>4, <3>1 DEF Attempting
    <3>4. journal[d] = {}
      <4>1. ledger[d] = NoRecord
        BY <1>12 DEF old, Answers
      <4>2. ledger[d].outcome = "none"
        BY <4>1 DEF NoRecord
      <4> QED
        BY <1>1, <4>2 DEF Ordered
    <3>5. Beginning'
      BY <1>2, <1>3, <1>5, <2>1, <2>4, <3>1, <3>2, <3>4 DEF Beginning
    <3>6. Controlled'
      BY <2>1, <2>4, <3>3, <3>5 DEF Controlled, Running, Undoing, Ending, Telling, Answering
    <3>7. Typed'
      BY <1>1, <1>2, <2>1, <2>3, <2>4, TypedStays DEF Typed
    <3> QED
      BY <2>3, <3>6, <3>7 DEF IInv
  <2> QED
    BY <1>10, <2>3, <2>4
<1> QED
  BY <1>4, <1>6, <1>7, <1>8, <1>11, <1>12

\* The state that a step of an attempt starts from.
LEMMA AtWork ==
    ASSUME IInv, ctl.at \in Attempt
    PROVE  /\ Typed /\ InOrder /\ StatusIsTrue /\ Ordered
           /\ Attempting /\ Beginning /\ Running /\ Undoing /\ Ending
           /\ ctl.d \in published /\ ctl.d \in Deployments /\ ctl.rec = ctl.d
           /\ Env(ctl.d) \in Environments /\ Target(ctl.d) \in Releases
           /\ ctl \in Controllers /\ ctl.record \in Records /\ ctl.changed \in BOOLEAN
           /\ ctl.record.before \in Releases /\ ctl.at # "off"
           /\ ledger \in [Deployments -> Records] /\ faults \in Nat
           /\ journal \in [Deployments -> SUBSET Releases]
           /\ host = [e \in Environments |-> host[e]]
           /\ \A e \in Environments : host[e] \in HostRows(e)
           /\ status \in [Deployments -> {"none", "in_progress", "success", "failure", "error"}]
<1>1. /\ Typed /\ InOrder /\ StatusIsTrue /\ Ordered
      /\ Attempting /\ Beginning /\ Running /\ Undoing /\ Ending
  BY DEF IInv, InOrder, Controlled
<1>2. ctl.at # "off"
  BY DEF Attempt
<1>3. /\ ctl.d \in published /\ ctl.d \in Deployments /\ ctl \in Controllers
      /\ ctl.record \in Records /\ ctl.changed \in BOOLEAN
  BY <1>1, <1>2 DEF Typed, Controllers
<1>4. ctl.rec = ctl.d /\ ctl.record.before \in Releases
  BY <1>1, <1>3 DEF Attempting, Records
<1>5. Env(ctl.d) \in Environments /\ Target(ctl.d) \in Releases
  BY <1>1, <1>3, Requests DEF Typed
<1>6. /\ ledger \in [Deployments -> Records] /\ faults \in Nat
      /\ journal \in [Deployments -> SUBSET Releases]
      /\ host = [e \in Environments |-> host[e]]
      /\ \A e \in Environments : host[e] \in HostRows(e)
      /\ status \in [Deployments -> {"none", "in_progress", "success", "failure", "error"}]
  BY <1>1 DEF Typed
<1> QED
  BY <1>1, <1>2, <1>3, <1>4, <1>5, <1>6

\* A controller that exits keeps the invariant when the disk does.
LEMMA Exiting ==
    ASSUME Typed, ctl.at # "off", NEW result \in {"retry", "rejected", "handled"},
           ctl' = Exit(result), UNCHANGED <<hub, poll, journal, host, status>>,
           InOrder', StatusIsTrue', ledger' \in [Deployments -> Records], faults' \in Nat
    PROVE  IInv'
<1>1. ctl' \in Controllers /\ ctl'.at = "exited" /\ ctl'.d = ctl.d
  BY Exits
<1>2. Controlled'
  BY <1>1, NoAttempt
<1>3. /\ journal' \in [Deployments -> SUBSET Releases]
      /\ host' = [e \in Environments |-> host'[e]]
      /\ \A e \in Environments : host'[e] \in HostRows(e)
      /\ status' \in [Deployments -> {"none", "in_progress", "success", "failure", "error"}]
  BY DEF Typed
<1>4. Typed'
  BY <1>1, <1>3, TypedStays DEF Attempt, Answering
<1> QED
  BY <1>2, <1>4 DEF IInv

\* A status is posted, or not.
LEMMA Posting ==
    ASSUME Typed, InOrder, StatusIsTrue, NEW state, NEW then \in Controllers, Posts(state, then),
           ctl.d \in Deployments,
           state \in {"in_progress", "success", "failure", "error"},
           state = "success" => Succeeded(Env(ctl.d), Target(ctl.d)) # {},
           state \in {"failure", "error"} => ledger[ctl.d].outcome = "failure"
    PROVE  /\ InOrder' /\ Final /\ StatusIsTrue' /\ UNCHANGED <<hub, poll, disk>> /\ faults' \in Nat
           /\ request' = request /\ ledger' = ledger /\ journal' = journal /\ host' = host
           /\ status' \in [Deployments -> {"none", "in_progress", "success", "failure", "error"}]
           /\ ctl' \in Controllers /\ ctl'.at = then.at /\ ctl'.d = then.d /\ ctl'.rec = then.rec
           /\ ctl'.step = then.step /\ ctl'.changed = then.changed /\ ctl'.record = then.record
           /\ ctl'.state = then.state
<1>1. /\ UNCHANGED <<hub, poll, disk>> /\ faults' \in Nat
      /\ status' = status \/ status' = [status EXCEPT ![ctl.d] = state]
  BY DEF Posts, Fault, Typed
<1>2. /\ ctl' \in Controllers /\ ctl'.at = then.at /\ ctl'.d = then.d /\ ctl'.rec = then.rec
      /\ ctl'.step = then.step /\ ctl'.changed = then.changed /\ ctl'.record = then.record
      /\ ctl'.state = then.state
  <2>1. PICK b \in BOOLEAN : ctl' = [then EXCEPT !.posted = b]
    BY DEF Posts
  <2> QED
    BY <2>1 DEF Controllers
<1>3. request' = request /\ ledger' = ledger /\ journal' = journal /\ host' = host
  BY <1>1 DEF hub, disk
<1>4. InOrder' /\ Final
  BY <1>3, NothingWritten
<1>5. StatusIsTrue'
  <2>1. \A c \in Deployments : Env(c)' = Env(c) /\ Target(c)' = Target(c)
    BY <1>3 DEF Env, Target
  <2>2. \A e, m : Succeeded(e, m)' = Succeeded(e, m)
    BY <1>3 DEF Succeeded, Recorded, Env, Target
  <2>3. ASSUME NEW c \in Deployments
        PROVE  /\ status'[c] = "success" => Succeeded(Env(c), Target(c)) # {}
               /\ status'[c] \in {"failure", "error"} => ledger[c].outcome = "failure"
    <3>1. CASE c = ctl.d /\ status' = [status EXCEPT ![ctl.d] = state]
      BY <3>1 DEF Typed
    <3>2. CASE ~ (c = ctl.d /\ status' = [status EXCEPT ![ctl.d] = state])
      <4>1. status'[c] = status[c]
        BY <1>1, <3>2 DEF Typed
      <4> QED
        BY <4>1 DEF StatusIsTrue
    <3> QED
      BY <3>1, <3>2
  <2>4. ASSUME NEW c \in Deployments
        PROVE  (Succeeded(Env(c), Target(c)))' = Succeeded(Env(c), Target(c))
    <3>1. PICK e : e = Env(c)
      OBVIOUS
    <3>2. PICK m : m = Target(c)
      OBVIOUS
    <3>3. Succeeded(e, m)' = Succeeded(e, m)
      BY <2>2
    <3> QED
      BY <2>1, <3>1, <3>2, <3>3
  <2> QED
    BY <1>3, <2>3, <2>4 DEF StatusIsTrue
<1>6. status' \in [Deployments -> {"none", "in_progress", "success", "failure", "error"}]
  BY <1>1 DEF Typed
<1> QED
  BY <1>1, <1>2, <1>3, <1>4, <1>5, <1>6

LEMMA Announcing ==
    ASSUME IInv, Announce
    PROVE  IInv'
<1>0. ctl.at = "announce" /\ ctl.at \in Attempt /\ Posts("in_progress", Goto(ctl, "announced"))
  BY DEF Announce, Attempt
<1>1. PICK then : then = Goto(ctl, "announced")
  OBVIOUS
<1>2. /\ then \in Controllers /\ then.at = "announced" /\ then.d = ctl.d /\ then.rec = ctl.rec
      /\ then.changed = ctl.changed /\ then.record = ctl.record
  BY <1>0, <1>1, AtWork, Going DEF Attempt
<1>3. /\ InOrder' /\ Final /\ StatusIsTrue' /\ UNCHANGED <<hub, poll, disk>> /\ faults' \in Nat
      /\ request' = request /\ ledger' = ledger /\ journal' = journal /\ host' = host
      /\ status' \in [Deployments -> {"none", "in_progress", "success", "failure", "error"}]
      /\ ctl' \in Controllers /\ ctl'.at = "announced" /\ ctl'.d = ctl.d /\ ctl'.rec = ctl.rec
      /\ ctl'.changed = ctl.changed /\ ctl'.record = ctl.record
  BY <1>0, <1>1, <1>2, AtWork, Posting
<1>4. PICK e \in Environments : e = Env(ctl.d)
  BY <1>0, AtWork
<1>5. Open(e, ctl.record) /\ Accounted(e)
  BY <1>0, <1>3, <1>4, AtWork DEF Open, Attempting, Beginning
<1>6. Attempting' /\ Env(ctl.d)' = e
  BY <1>0, <1>5, AtWork, StaysOpen
<1>7. Accounted(e)'
  BY <1>3, <1>5, AccountedStays
<1>8. Accounted(Env(ctl.d))'
  BY <1>6, <1>7
<1>9. Beginning'
  BY <1>0, <1>3, <1>4, <1>6, <1>8, AtWork DEF Beginning
<1>10. Controlled'
  BY <1>3, <1>6, <1>9 DEF Controlled, Running, Undoing, Ending, Telling, Answering
<1>11. Typed'
  BY <1>0, <1>3, AtWork, TypedStays
<1> QED
  BY <1>3, <1>10, <1>11 DEF IInv

LEMMA Starting ==
    ASSUME IInv, Announced
    PROVE  IInv'
<1> DEFINE d == ctl.d
<1>0. /\ ctl.at = "announced" /\ ctl.at \in Attempt
      /\ Save(ctl.record, Goto(ctl, "run"), Exit("retry"))
  BY DEF Announced, Attempt
<1>1. PICK e \in Environments : e = Env(d)
  BY <1>0, AtWork
<1>2. PICK then : then = Goto(ctl, "run")
  OBVIOUS
<1>3. /\ then \in Controllers /\ then.at = "run" /\ then.d = d /\ then.rec = ctl.rec
      /\ then.changed = ctl.changed /\ then.record = ctl.record /\ then.step = 1
  BY <1>0, <1>2, AtWork, Going DEF Attempt
<1>4. /\ ctl.record.outcome = "in-progress" /\ ledger[d].outcome = "in-progress"
      /\ ctl.record.migration = "never-started" /\ ledger[d].migration = "never-started"
      /\ Accounted(e) /\ journal[d] = {} /\ host[e].file["authority"] = ctl.record.before
  BY <1>0, <1>1, AtWork DEF Attempting, Beginning
<1>5. /\ InOrder' /\ StatusIsTrue' /\ Final
      /\ ledger' \in [Deployments -> Records] /\ faults' \in Nat
      /\ UNCHANGED <<hub, poll, journal, host, status>> /\ request' = request
      /\ ledger'[d] \in {ctl.record, ledger[d]}
      /\ ctl' = then \/ ctl' = Exit("retry")
  <2>1. PICK n \in Deployments : n = d /\ ctl.rec = n
    BY <1>0, AtWork
  <2> HIDE DEF d
  <2> QED
    BY <1>0, <1>1, <1>2, <1>4, <2>1, AtWork, Saved
<1>6. CASE ctl' = Exit("retry")
  BY <1>0, <1>5, <1>6, AtWork, Exiting
<1>7. CASE ctl' = then
  <2>1. Open(e, ctl.record)
    BY <1>0, <1>1, <1>3, <1>4, <1>5, <1>7, AtWork DEF Open
  <2>2. Attempting' /\ Env(ctl.d)' = e /\ Target(ctl.d)' = Target(ctl.d)
    BY <1>0, <2>1, AtWork, StaysOpen
  <2>3. Accounted(e)'
    BY <1>4, <1>5, AccountedStays
  <2>4. Accounted(Env(ctl.d))'
    BY <2>2, <2>3
  <2>5. \A x : ~ Done(x)'
    BY <1>3, <1>7 DEF Done
  <2>6. /\ \A f \in Range(Files(e)) : host[e].file[f] = ctl.record.before
        /\ Fingerprint[ctl.record.before] <= host[e].schema
    BY <1>4 DEF Accounted, Agree
  <2>7. Running'
    BY <1>3, <1>4, <1>5, <1>7, <2>2, <2>4, <2>5, <2>6 DEF Running
  <2>8. Controlled'
    BY <1>3, <1>7, <2>2, <2>7 DEF Controlled, Beginning, Undoing, Ending, Telling, Answering
  <2>9. Len(Steps)' >= 1
    <3>1. PICK b \in BOOLEAN : b = ctl.changed
      BY <1>0, AtWork
    <3>2. Steps' = Plan(e, b)
      BY <1>3, <1>7, <2>2, <3>1 DEF Steps
    <3>3. Len(Plan(e, b)) >= 1
      BY PlanSteps
    <3> QED
      BY <3>2, <3>3
  <2>10. Typed'
    BY <1>0, <1>3, <1>5, <1>7, <2>9, AtWork, TypedStays
  <2> QED
    BY <1>5, <2>8, <2>10 DEF IInv
<1> QED
  BY <1>5, <1>6, <1>7

\* The state that the answer to GitHub starts from.
LEMMA AtAnswer ==
    ASSUME IInv, ctl.at \in Answering
    PROVE  /\ Typed /\ InOrder /\ StatusIsTrue /\ Telling
           /\ ctl.d \in published /\ ctl.d \in Deployments /\ ctl.rec \in Deployments
           /\ Env(ctl.d) \in Environments /\ Env(ctl.rec) = Env(ctl.d)
           /\ ctl \in Controllers /\ ctl.record \in Records /\ ctl.at # "off"
           /\ ledger[ctl.rec] = ctl.record
           /\ ledger \in [Deployments -> Records] /\ faults \in Nat
           /\ journal \in [Deployments -> SUBSET Releases]
           /\ host = [e \in Environments |-> host[e]]
           /\ \A e \in Environments : host[e] \in HostRows(e)
           /\ status \in [Deployments -> {"none", "in_progress", "success", "failure", "error"}]
<1>1. Typed /\ InOrder /\ StatusIsTrue /\ Telling /\ ctl.at # "off"
  BY DEF IInv, Controlled, Answering
<1>2. /\ ctl.d \in published /\ ctl.d \in Deployments /\ ctl.rec \in Deployments
      /\ ctl \in Controllers /\ ctl.record \in Records
  BY <1>1 DEF Typed, Controllers
<1>3. Env(ctl.d) \in Environments
  BY <1>1, <1>2, Requests DEF Typed
<1>4. Env(ctl.rec) = Env(ctl.d) /\ ledger[ctl.rec] = ctl.record
  BY <1>1 DEF Telling
<1>5. /\ ledger \in [Deployments -> Records] /\ faults \in Nat
      /\ journal \in [Deployments -> SUBSET Releases]
      /\ host = [e \in Environments |-> host[e]]
      /\ \A e \in Environments : host[e] \in HostRows(e)
      /\ status \in [Deployments -> {"none", "in_progress", "success", "failure", "error"}]
  BY <1>1 DEF Typed
<1> QED
  BY <1>1, <1>2, <1>3, <1>4, <1>5

LEMMA StatusPosted ==
    ASSUME IInv, Post
    PROVE  IInv'
<1>0. ctl.at = "post" /\ ctl.at \in Answering /\ Posts(ctl.state, Goto(ctl, "posted"))
  BY DEF Post, Answering
<1>1. PICK then : then = Goto(ctl, "posted")
  OBVIOUS
<1>2. /\ then \in Controllers /\ then.at = "posted" /\ then.d = ctl.d /\ then.rec = ctl.rec
      /\ then.record = ctl.record /\ then.state = ctl.state
  <2>1. /\ then \in Controllers /\ then.at = "posted" /\ then.d = ctl.d /\ then.rec = ctl.rec
        /\ then.record = ctl.record
    BY <1>0, <1>1, AtAnswer, Going DEF Answering
  <2>2. then.state = ctl.state
    BY <1>0, <1>1, AtAnswer DEF Goto, Controllers
  <2> QED
    BY <2>1, <2>2
<1>3. /\ ctl.state \in {"success", "failure", "error"}
      /\ ctl.state = "success" => Succeeded(Env(ctl.d), Target(ctl.d)) # {}
      /\ ctl.state \in {"failure", "error"} => ledger[ctl.d].outcome = "failure"
  <2>1. CASE ctl.state = "success"
    <3>1. /\ ledger[ctl.rec].outcome = "success" /\ Env(ctl.rec) = Env(ctl.d)
          /\ Target(ctl.rec) = Target(ctl.d) /\ ctl.rec \in Deployments
      BY <1>0, <2>1, AtAnswer DEF Telling
    <3>2. ctl.rec \in Succeeded(Env(ctl.d), Target(ctl.d))
      BY <3>1 DEF Succeeded, Recorded, NoRecord
    <3> QED
      BY <2>1, <3>2
  <2>2. CASE ctl.state # "success"
    BY <1>0, <2>2, AtAnswer DEF Telling
  <2> QED
    BY <2>1, <2>2
<1>4. /\ InOrder' /\ Final /\ StatusIsTrue' /\ UNCHANGED <<hub, poll, disk>> /\ faults' \in Nat
      /\ request' = request /\ ledger' = ledger /\ journal' = journal /\ host' = host
      /\ status' \in [Deployments -> {"none", "in_progress", "success", "failure", "error"}]
      /\ ctl' \in Controllers /\ ctl'.at = "posted" /\ ctl'.d = ctl.d /\ ctl'.rec = ctl.rec
      /\ ctl'.record = ctl.record /\ ctl'.state = ctl.state
  BY <1>0, <1>1, <1>2, <1>3, AtAnswer, Posting
<1>5. /\ Env(ctl.d)' = Env(ctl.d) /\ Env(ctl.rec)' = Env(ctl.rec)
      /\ Target(ctl.d)' = Target(ctl.d) /\ Target(ctl.rec)' = Target(ctl.rec)
  BY <1>4 DEF Env, Target
<1>6. Telling'
  BY <1>0, <1>4, <1>5, AtAnswer DEF Telling
<1>7. Controlled'
  BY <1>4, <1>6 DEF Controlled, Attempting, Beginning, Running, Undoing, Ending, Attempt
<1>8. Typed'
  BY <1>0, <1>4, AtAnswer, TypedStays
<1> QED
  BY <1>4, <1>7, <1>8 DEF IInv

LEMMA AnswerRecorded ==
    ASSUME IInv, Posted
    PROVE  IInv'
<1>0. /\ ctl.at = "posted" /\ ctl.at \in Answering
      /\ Save(ctl.record, Exit(IF ctl.posted THEN "handled" ELSE "retry"), Exit("retry"))
  BY DEF Posted, Answering
<1>1. /\ UNCHANGED <<hub, poll, journal, host, status>> /\ ledger' = ledger /\ faults' \in Nat
      /\ \E result \in {"handled", "retry"} : ctl' = Exit(result)
  <2>1. [ledger EXCEPT ![ctl.rec] = ctl.record] = ledger
    BY <1>0, AtAnswer
  <2> QED
    BY <1>0, <2>1, AtAnswer DEF Save, Fault
<1>2. PICK result \in {"handled", "retry"} : ctl' = Exit(result)
  BY <1>1
<1> QED
  BY <1>0, <1>1, <1>2, AtAnswer, Leaving DEF disk

\* Reconcile closes an open attempt that has no journal, so it has touched nothing.
LEMMA Reconciling ==
    ASSUME IInv, NEW d \in Deployments, Reconcile(d)
    PROVE  IInv'
<1>0. /\ ctl.at = "off" /\ Env(d) = "staging" /\ ledger[d].outcome = "in-progress"
      /\ ledger[d].migration = "never-started" /\ journal[d] = {}
      /\ UNCHANGED <<hub, poll, ctl, journal, host, status, faults>>
      /\ ledger' = [ledger EXCEPT ![d].phase = "reconciled-pre-mutation", ![d].outcome = "failure",
                                  ![d].result = "pre-mutation"]
  BY DEF Reconcile
<1>1. Typed /\ InOrder /\ StatusIsTrue /\ ledger \in [Deployments -> Records]
  BY DEF IInv, Typed
<1>2. PICK r : r = [ledger[d] EXCEPT !.phase = "reconciled-pre-mutation", !.outcome = "failure",
                                     !.result = "pre-mutation"]
  OBVIOUS
<1>3. r \in Records /\ r.outcome = "failure"
  <2>1. PICK o \in Records : o = ledger[d]
    BY <1>1
  <2>2. PICK a : a = [o EXCEPT !.phase = "reconciled-pre-mutation"]
    OBVIOUS
  <2>3. a \in Records
    BY <2>2 DEF Records, RecordPhases
  <2>4. PICK b : b = [a EXCEPT !.outcome = "failure"]
    OBVIOUS
  <2>5. b \in Records /\ b.outcome = "failure"
    BY <2>3, <2>4 DEF Records
  <2>6. [b EXCEPT !.result = "pre-mutation"] \in Records
        /\ [b EXCEPT !.result = "pre-mutation"].outcome = "failure"
    BY <2>5 DEF Records, Results
  <2>7. r = [b EXCEPT !.result = "pre-mutation"]
    BY <1>2, <2>1, <2>2, <2>4 DEF Records
  <2> QED
    BY <2>6, <2>7
<1>4. ledger' = [ledger EXCEPT ![d] = r]
  BY <1>0, <1>1, <1>2 DEF Records
<1>5. Writes(d, r) /\ request' = request
  BY <1>0, <1>4 DEF Writes, hub
<1>6. Accounted(Env(d))
  BY <1>0, <1>1 DEF InOrder, Untouched
<1>7. PICK e \in Environments : e = Env(d)
  BY <1>0 DEF Environments
<1>8. InOrder' /\ Final /\ ledger' \in [Deployments -> Records]
  BY <1>0, <1>1, <1>3, <1>5, <1>6, <1>7, RecordWritten
<1>9. StatusIsTrue'
  BY <1>0, <1>1, <1>8, StatusStays
<1>10. Controlled'
  BY <1>0, NoAttempt
<1>11. (ctl.at \in {"run", "undo"} => ctl.step <= Len(Steps))'
  BY <1>0
<1>12. (\A x \in Environments : host[x] \in HostRows(x))'
  BY <1>0, <1>1 DEF Typed, HostRows
<1>13. Typed'
  BY <1>0, <1>1, <1>5, <1>8, <1>11, <1>12 DEF Typed, hub, poll
<1> QED
  BY <1>8, <1>9, <1>10, <1>13 DEF IInv

\* The ways a record is rewritten.
Closed(r, phase, outcome, result) ==
    [r EXCEPT !.phase = phase, !.outcome = outcome, !.result = result]
Judged(r, phase, migration) == [r EXCEPT !.phase = phase, !.migration = migration]
Flagged(r, phase, result)   == [r EXCEPT !.phase = phase, !.result = result]
Ended(r, outcome, result)   == [r EXCEPT !.outcome = outcome, !.result = result]

Phased(r, phase) == [r EXCEPT !.phase = phase]

LEMMA PhaseRewritten ==
    ASSUME NEW r \in Records, NEW phase \in RecordPhases
    PROVE  /\ Phased(r, phase) \in Records /\ Phased(r, phase).phase = phase
           /\ Phased(r, phase).migration = r.migration /\ Phased(r, phase).outcome = r.outcome
           /\ Phased(r, phase).before = r.before /\ Phased(r, phase).result = r.result
  BY DEF Records, Phased

LEMMA ClosedRecord ==
    ASSUME NEW r \in Records, NEW phase \in RecordPhases, NEW outcome \in {"success", "failure"},
           NEW result \in Results
    PROVE  /\ Closed(r, phase, outcome, result) \in Records
           /\ Closed(r, phase, outcome, result).outcome = outcome
           /\ Closed(r, phase, outcome, result).phase = phase
           /\ Closed(r, phase, outcome, result).result = result
           /\ Closed(r, phase, outcome, result).migration = r.migration
           /\ Closed(r, phase, outcome, result).before = r.before
<1>1. PICK a : a = Phased(r, phase)
  OBVIOUS
<1>2. a \in Records /\ a.phase = phase /\ a.migration = r.migration /\ a.before = r.before
  BY <1>1, PhaseRewritten
<1>3. PICK b : b = [a EXCEPT !.outcome = outcome]
  OBVIOUS
<1>4. /\ b \in Records /\ b.phase = phase /\ b.migration = r.migration /\ b.before = r.before
      /\ b.outcome = outcome
  BY <1>2, <1>3 DEF Records
<1>5. Closed(r, phase, outcome, result) = [b EXCEPT !.result = result]
  BY <1>1, <1>2, <1>3 DEF Closed, Phased, Records
<1> QED
  BY <1>4, <1>5 DEF Records

LEMMA JudgedRecord ==
    ASSUME NEW r \in Records, NEW phase \in RecordPhases, NEW migration,
           migration \in {"never-started", "started", "completed", "failed"}
    PROVE  /\ Judged(r, phase, migration) \in Records
           /\ Judged(r, phase, migration).phase = phase
           /\ Judged(r, phase, migration).migration = migration
           /\ Judged(r, phase, migration).outcome = r.outcome
           /\ Judged(r, phase, migration).before = r.before
<1>1. PICK a : a = Phased(r, phase)
  OBVIOUS
<1>2. a \in Records /\ a.phase = phase /\ a.outcome = r.outcome /\ a.before = r.before
  BY <1>1, PhaseRewritten
<1>3. Judged(r, phase, migration) = [a EXCEPT !.migration = migration]
  BY <1>1 DEF Judged, Phased, Records
<1> QED
  BY <1>2, <1>3 DEF Records

LEMMA FlaggedRecord ==
    ASSUME NEW r \in Records, NEW phase \in RecordPhases, NEW result \in Results
    PROVE  /\ Flagged(r, phase, result) \in Records
           /\ Flagged(r, phase, result).phase = phase
           /\ Flagged(r, phase, result).migration = r.migration
           /\ Flagged(r, phase, result).outcome = r.outcome
           /\ Flagged(r, phase, result).before = r.before
<1>1. PICK a : a = Phased(r, phase)
  OBVIOUS
<1>2. /\ a \in Records /\ a.phase = phase /\ a.outcome = r.outcome /\ a.before = r.before
      /\ a.migration = r.migration
  BY <1>1, PhaseRewritten
<1>3. Flagged(r, phase, result) = [a EXCEPT !.result = result]
  BY <1>1 DEF Flagged, Phased, Records
<1> QED
  BY <1>2, <1>3 DEF Records

LEMMA EndedRecord ==
    ASSUME NEW r \in Records, NEW outcome \in {"success", "failure"}, NEW result \in Results
    PROVE  /\ Ended(r, outcome, result) \in Records
           /\ Ended(r, outcome, result).phase = r.phase
           /\ Ended(r, outcome, result).migration = r.migration
           /\ Ended(r, outcome, result).outcome = outcome
           /\ Ended(r, outcome, result).result = result
           /\ Ended(r, outcome, result).before = r.before
<1>1. PICK a : a = [r EXCEPT !.outcome = outcome]
  OBVIOUS
<1>2. /\ a \in Records /\ a.phase = r.phase /\ a.outcome = outcome /\ a.before = r.before
      /\ a.migration = r.migration
  BY <1>1 DEF Records
<1>3. Ended(r, outcome, result) = [a EXCEPT !.result = result]
  BY <1>1 DEF Ended, Records
<1> QED
  BY <1>2, <1>3 DEF Records

\* The controller of an attempt, with another record and on its way elsewhere.
LEMMA HeldElsewhere ==
    ASSUME Typed, NEW r \in Records, NEW at \in Attempt \cup Answering
    PROVE  /\ Goto([ctl EXCEPT !.record = r], at) \in Controllers
           /\ Goto([ctl EXCEPT !.record = r], at).at = at
           /\ Goto([ctl EXCEPT !.record = r], at).d = ctl.d
           /\ Goto([ctl EXCEPT !.record = r], at).rec = ctl.rec
           /\ Goto([ctl EXCEPT !.record = r], at).changed = ctl.changed
           /\ Goto([ctl EXCEPT !.record = r], at).record = r
<1>1. PICK c : c = [ctl EXCEPT !.record = r]
  OBVIOUS
<1>2. /\ c \in Controllers /\ c.d = ctl.d /\ c.rec = ctl.rec /\ c.changed = ctl.changed
      /\ c.record = r
  BY <1>1 DEF Typed, Controllers
<1>3. /\ Goto(c, at) \in Controllers /\ Goto(c, at).at = at /\ Goto(c, at).d = c.d
      /\ Goto(c, at).rec = c.rec /\ Goto(c, at).changed = c.changed /\ Goto(c, at).record = c.record
  BY <1>2, Going
<1> QED
  BY <1>1, <1>2, <1>3

LEMMA DurabilityMissing ==
    ASSUME IInv, NotDurable
    PROVE  IInv'
<1> DEFINE d == ctl.d
<1>0. ctl.at = "not-durable" /\ ctl.at \in Attempt
  BY DEF NotDurable, Attempt
<1>1. PICK e \in Environments : e = Env(d)
  BY <1>0, AtWork
<1>2. PICK r : r = Closed(ctl.record, "phase-c2-required", "failure", "phase-c2")
  OBVIOUS
<1>3. /\ r \in Records /\ r.outcome = "failure" /\ r.migration = ctl.record.migration
      /\ r.before = ctl.record.before
  BY <1>0, <1>2, AtWork, ClosedRecord DEF RecordPhases, Results
<1>4. PICK c : c = Goto([ctl EXCEPT !.record = r], "failed")
  OBVIOUS
<1>5. /\ c \in Controllers /\ c.at = "failed" /\ c.d = d /\ c.rec = ctl.rec
      /\ c.changed = ctl.changed /\ c.record = r
  BY <1>0, <1>3, <1>4, AtWork, HeldElsewhere DEF Attempt
<1>6. Save(r, c, c)
  BY <1>0, <1>2, <1>4 DEF NotDurable, Closed
<1>7. /\ ctl.record.outcome = "in-progress" /\ ledger[d].outcome = "in-progress"
      /\ r.migration = "never-started" /\ ledger[d].migration = "never-started" /\ Accounted(e)
  BY <1>0, <1>1, <1>3, AtWork DEF Attempting, Beginning
<1>8. /\ InOrder' /\ StatusIsTrue' /\ Final
      /\ ledger' \in [Deployments -> Records] /\ faults' \in Nat
      /\ UNCHANGED <<hub, poll, journal, host, status>> /\ request' = request
      /\ ledger'[d] \in {r, ledger[d]} /\ ctl' = c
  <2>1. PICK n \in Deployments : n = d /\ ctl.rec = n
    BY <1>0, AtWork
  <2> HIDE DEF d
  <2> QED
    BY <1>0, <1>1, <1>3, <1>6, <1>7, <2>1, AtWork, Saved
<1>9. Env(ctl.d)' = e /\ Target(ctl.d)' = Target(ctl.d)
  BY <1>1, <1>5, <1>8 DEF Env, Target
<1>10. Accounted(e)'
  BY <1>7, <1>8, AccountedStays
<1>11. Accounted(Env(ctl.d))'
  BY <1>9, <1>10
<1>12. ctl.changed <=> Fingerprint[ctl.record.before] # Fingerprint[Target(ctl.d)]
  BY <1>0, AtWork DEF Attempting
<1>13. ctl.rec = ctl.d
  BY <1>0, AtWork
<1>14. Attempting'
  BY <1>3, <1>5, <1>7, <1>8, <1>9, <1>11, <1>12, <1>13 DEF Attempting
<1>15. Ending'
  BY <1>5, <1>8, <1>11 DEF Ending
<1>16. Controlled'
  BY <1>5, <1>8, <1>14, <1>15 DEF Controlled, Beginning, Running, Undoing, Telling, Answering
<1>17. Typed'
  BY <1>0, <1>5, <1>8, <1>13, AtWork, TypedStays
<1> QED
  BY <1>8, <1>16, <1>17 DEF IInv

\* A record that puts a block on its environment, and the attempt ends with it.
LEMMA Blocking ==
    ASSUME IInv, ctl.at \in {"review", "undo-failed"}, NEW r \in Records,
           Save(r, Goto([ctl EXCEPT !.record = r], "failed"), Exit("retry")),
           r.outcome = "in-progress", r.before = ctl.record.before,
           r.phase \in {"manual-review", "rollback-failed"}
    PROVE  IInv'
<1> DEFINE d == ctl.d
<1>0. ctl.at \in Attempt
  BY DEF Attempt
<1>1. PICK e \in Environments : e = Env(d)
  BY <1>0, AtWork
<1>2. PICK c : c = Goto([ctl EXCEPT !.record = r], "failed")
  OBVIOUS
<1>3. /\ c \in Controllers /\ c.at = "failed" /\ c.d = d /\ c.rec = ctl.rec
      /\ c.changed = ctl.changed /\ c.record = r
  BY <1>0, <1>2, AtWork, HeldElsewhere DEF Attempt
<1>4. ledger[d].outcome = "in-progress" /\ ctl.rec = d
  BY <1>0, AtWork DEF Attempting
<1>5. InDoubt(r)
  BY DEF InDoubt, Reconciliation, DatabaseReview
<1>6. /\ InOrder' /\ StatusIsTrue' /\ Final
      /\ ledger' \in [Deployments -> Records] /\ faults' \in Nat
      /\ UNCHANGED <<hub, poll, journal, host, status>> /\ request' = request
      /\ (ctl' = c /\ ledger'[d] = r) \/ ctl' = Exit("retry")
  <2>1. PICK n \in Deployments : n = d /\ ctl.rec = n
    BY <1>0, AtWork
  <2> HIDE DEF d
  <2> QED
    BY <1>0, <1>1, <1>2, <1>4, <1>5, <2>1, AtWork, Saved
<1>7. CASE ctl' = Exit("retry")
  BY <1>0, <1>6, <1>7, AtWork, Exiting
<1>8. CASE ctl' = c /\ ledger'[d] = r
  <2>1. Open(e, r)
    BY <1>1, <1>3, <1>4, <1>6, <1>8 DEF Open
  <2>2. Attempting'
    BY <1>0, <2>1, AtWork, StaysOpen
  <2>3. Ending'
    BY <1>3, <1>8 DEF Ending
  <2>4. Controlled'
    BY <1>3, <1>8, <2>2, <2>3 DEF Controlled, Beginning, Running, Undoing, Telling, Answering
  <2>5. Typed'
    BY <1>0, <1>3, <1>4, <1>6, <1>8, AtWork, TypedStays
  <2> QED
    BY <1>6, <2>4, <2>5 DEF IInv
<1> QED
  BY <1>6, <1>7, <1>8

LEMMA Reviewing ==
    ASSUME IInv, Review \/ UndoFailed
    PROVE  IInv'
<1>1. CASE Review
  <2>0. ctl.at = "review" /\ ctl.at \in Attempt
    BY <1>1 DEF Review, Attempt
  <2>1. ctl.record.outcome = "in-progress" /\ ctl.record \in Records
    BY <2>0, AtWork DEF Attempting
  <2>2. PICK m \in {"never-started", "started", "completed", "failed"} :
           m = IF ctl.record.migration = "started" THEN "failed" ELSE ctl.record.migration
    BY <2>1 DEF Records
  <2>3. PICK r : r = Judged(ctl.record, "manual-review", m)
    OBVIOUS
  <2>4. /\ r \in Records /\ r.phase = "manual-review" /\ r.outcome = ctl.record.outcome
        /\ r.before = ctl.record.before
    BY <2>1, <2>3, JudgedRecord DEF RecordPhases
  <2>5. r = [ctl.record EXCEPT !.phase = "manual-review",
                               !.migration = IF @ = "started" THEN "failed" ELSE @]
    BY <2>1, <2>2, <2>3 DEF Judged, Records
  <2>6. Save(r, Goto([ctl EXCEPT !.record = r], "failed"), Exit("retry"))
    BY <1>1, <2>5 DEF Review
  <2> QED
    BY <2>0, <2>1, <2>4, <2>6, Blocking
<1>2. CASE UndoFailed
  <2>0. ctl.at = "undo-failed" /\ ctl.at \in Attempt
    BY <1>2 DEF UndoFailed, Attempt
  <2>1. ctl.record.outcome = "in-progress" /\ ctl.record \in Records
    BY <2>0, AtWork DEF Attempting
  <2>2. PICK r : r = Flagged(ctl.record, "rollback-failed", "manual-review-required")
    OBVIOUS
  <2>3. /\ r \in Records /\ r.phase = "rollback-failed" /\ r.outcome = ctl.record.outcome
        /\ r.before = ctl.record.before
    BY <2>1, <2>2, FlaggedRecord DEF RecordPhases, Results
  <2>4. Save(r, Goto([ctl EXCEPT !.record = r], "failed"), Exit("retry"))
    BY <1>2, <2>2 DEF UndoFailed, Flagged
  <2> QED
    BY <2>0, <2>1, <2>3, <2>4, Blocking
<1> QED
  BY <1>1, <1>2

\* The outcome is written; then it may be told.
LEMMA Finishing ==
    ASSUME IInv, Finish
    PROVE  IInv'
<1> DEFINE d == ctl.d
<1>0. ctl.at \in {"failed", "completed"} /\ ctl.at \in Attempt
  BY DEF Finish, Attempt
<1>1. PICK e \in Environments : e = Env(d)
  BY <1>0, AtWork
<1>2. PICK r : r = IF ctl.at = "completed" THEN Closed(ctl.record, "completed", "success", "deployed")
                   ELSE IF ctl.record.outcome = "in-progress" THEN Ended(ctl.record, "failure", "failed")
                   ELSE ctl.record
  OBVIOUS
<1>3. /\ ctl.at = "completed" =>
            r \in Records /\ r.outcome = "success" /\ r.migration = ctl.record.migration
      /\ ctl.at = "failed" =>
            /\ r \in Records /\ r.outcome = "failure" /\ r.migration = ctl.record.migration
            /\ r.phase = ctl.record.phase
  <2>1. CASE ctl.at = "completed"
    BY <1>0, <1>2, <2>1, AtWork, ClosedRecord DEF RecordPhases, Results
  <2>2. CASE ctl.at = "failed" /\ ctl.record.outcome = "in-progress"
    BY <1>0, <1>2, <2>2, AtWork, EndedRecord DEF Results
  <2>3. CASE ctl.at = "failed" /\ ctl.record.outcome # "in-progress"
    BY <1>0, <1>2, <2>3, AtWork DEF Attempting
  <2> QED
    BY <1>0, <2>1, <2>2, <2>3
<1>4. r \in Records /\ r.outcome \in {"success", "failure"}
  BY <1>0, <1>3
<1>5. PICK c : c = [Goto(ctl, "post") EXCEPT !.record = r, !.state = r.outcome]
  OBVIOUS
<1>6. Save(r, c, Exit("retry"))
  BY <1>0, <1>2, <1>5 DEF Finish, Closed, Ended
<1>7. /\ c \in Controllers /\ c.at = "post" /\ c.d = d /\ c.rec = ctl.rec
      /\ c.record = r /\ c.state = r.outcome
  <2>1. PICK g : g = Goto(ctl, "post")
    OBVIOUS
  <2>2. g \in Controllers /\ g.at = "post" /\ g.d = d /\ g.rec = ctl.rec
    BY <1>0, <2>1, AtWork, Going DEF Answering
  <2>3. PICK h : h = [g EXCEPT !.record = r]
    OBVIOUS
  <2>4. h \in Controllers /\ h.at = "post" /\ h.d = d /\ h.rec = ctl.rec /\ h.record = r
    BY <1>4, <2>2, <2>3 DEF Controllers
  <2>5. PICK o \in {"success", "failure"} : o = r.outcome
    BY <1>4
  <2>6. c = [h EXCEPT !.state = o]
    BY <1>5, <2>1, <2>2, <2>3, <2>5 DEF Controllers
  <2> QED
    BY <2>4, <2>5, <2>6 DEF Controllers
<1>8. /\ ledger[d].outcome \in {"in-progress", "failure"} /\ ctl.rec = d
      /\ r.outcome = "success" => ledger[d].outcome = "in-progress"
      /\ ledger[d].outcome = "failure" =>
            r.outcome = "failure" /\ r.migration = ledger[d].migration
  BY <1>0, <1>3, AtWork DEF Attempting
<1>9. UNCHANGED <<hub, poll, journal, host, status>> /\ request' = request
  BY <1>6 DEF Save, hub
<1>10. (ledger' = ledger \/ ledger' = [ledger EXCEPT ![d] = r]) /\ Final
  <2>1. ledger' = ledger \/ ledger' = [ledger EXCEPT ![d] = r]
    BY <1>6, <1>8 DEF Save
  <2> QED
    BY <1>0, <1>8, <1>9, <2>1, AtWork DEF Final
<1>11. ~ InDoubt(r) /\ ledger'[d] = r => Accounted(e) \/ Accounted(e)'
  <2> SUFFICES ASSUME ~ InDoubt(r), ledger'[d] = r
               PROVE  Accounted(e) \/ Accounted(e)'
    OBVIOUS
  <2>1. CASE ctl.at = "completed"
    <3>1. /\ \A f \in Range(Files(e)) : host[e].file[f] = Target(d)
          /\ \A s \in Range(Services(e)) : host[e].service[s] = Target(d)
          /\ Fingerprint[Target(d)] <= host[e].schema /\ "authority" \in Range(Files(e))
      BY <1>0, <1>1, <2>1, AtWork, Lists DEF Ending
    <3> QED
      BY <3>1 DEF Accounted, Agree
  <2>2. CASE ctl.at = "failed"
    <3>1. ctl.record.phase \notin {"manual-review", "rollback-failed"}
      BY <1>3, <2>2 DEF InDoubt, DatabaseReview, Reconciliation
    <3>2. CASE Accounted(e)
      BY <3>2
    <3>3. CASE ~ Accounted(e)
      <4>1. /\ e = "staging" /\ ctl.record.migration = "completed"
            /\ \A f \in Range(Files(e)) : host[e].file[f] = Target(d)
            /\ Fingerprint[Target(d)] <= host[e].schema /\ "authority" \in Range(Files(e))
        BY <1>0, <1>1, <2>2, <3>1, <3>3, AtWork, Lists DEF Ending
      <4>2. PICK m : m = Target(d)
        OBVIOUS
      <4>3. /\ ledger'[d].outcome = "failure" /\ ledger'[d].migration = "completed"
            /\ d \in Deployments
        BY <1>0, <1>3, <2>2, <4>1, AtWork
      <4>4. PICK n \in Deployments : n = d
        BY <4>3
      <4>5. Env(n)' = e /\ Target(n)' = m
        BY <1>1, <1>9, <4>2, <4>4 DEF Env, Target
      <4>6. n \in Recorded(e)'
        BY <4>3, <4>4, <4>5 DEF Recorded, NoRecord
      <4>7. (\E x \in Recorded(e) : /\ Target(x) = m /\ ledger[x].outcome = "failure"
                                    /\ ledger[x].migration = "completed")'
        BY <4>3, <4>4, <4>5, <4>6
      <4>8. /\ (Agree(e, Range(Files(e))))' /\ (host[e].file["authority"])' = m
            /\ (Fingerprint[m] <= host[e].schema)'
        BY <1>9, <4>1, <4>2 DEF Agree
      <4>9. Accounted(e)'
        BY <4>1, <4>7, <4>8 DEF Accounted
      <4> QED
        BY <4>9
    <3> QED
      BY <3>2, <3>3
  <2> QED
    BY <1>0, <2>1, <2>2
<1>12. /\ InOrder' /\ StatusIsTrue'
       /\ ledger' \in [Deployments -> Records] /\ faults' \in Nat
       /\ (ctl' = c /\ ledger'[d] = r) \/ ctl' = Exit("retry")
  <2>1. PICK n \in Deployments : n = d /\ ctl.rec = n
    BY <1>0, AtWork
  <2>2. r.outcome # "none" /\ r.outcome # "in-progress"
    BY <1>4
  <2> HIDE DEF d
  <2> QED
    BY <1>0, <1>1, <1>4, <1>6, <1>8, <1>11, <2>1, <2>2, AtWork, Saved
<1>13. CASE ctl' = Exit("retry")
  BY <1>0, <1>9, <1>12, <1>13, AtWork, Exiting
<1>14. CASE ctl' = c /\ ledger'[d] = r
  <2>1. Telling'
    BY <1>4, <1>7, <1>8, <1>9, <1>14 DEF Telling, Env, Target
  <2>2. Controlled'
    BY <1>7, <1>14, <2>1 DEF Controlled, Attempting, Beginning, Running, Undoing, Ending, Attempt
  <2>3. Typed'
    BY <1>0, <1>7, <1>8, <1>9, <1>12, <1>14, AtWork, TypedStays
  <2> QED
    BY <1>12, <2>2, <2>3 DEF IInv
<1> QED
  BY <1>12, <1>13, <1>14
-----------------------------------------------------------------------------
(* The steps of a transaction.                                             *)

\* What a transaction in progress knows, by the names of its environment and deployment.
LEMMA AtRun ==
    ASSUME IInv, ctl.at = "run", NEW e, e = Env(ctl.d)
    PROVE  /\ journal[ctl.d] = IF Done("journal") THEN {ctl.record.before} ELSE {}
           /\ ~ Done("authority-changing") =>
                 Accounted(e) /\ ctl.record.migration = "never-started"
           /\ Done("authority-changing") => journal[ctl.d] = {ctl.record.before}
           /\ \A f \in Range(Files(e)) :
                 host[e].file[f] = IF Done(f) THEN Target(ctl.d) ELSE ctl.record.before
           /\ \A s \in Range(Services(e)) : Done(s) => host[e].service[s] = Target(ctl.d)
           /\ Fingerprint[ctl.record.before] <= host[e].schema
           /\ Done("migrate") => Fingerprint[Target(ctl.d)] <= host[e].schema
           /\ ~ ctl.changed => ctl.record.migration = "never-started"
           /\ ctl.record.migration # "never-started" => \A f \in Range(Files(e)) : Done(f)
           /\ ctl.record.migration = "completed" => Fingerprint[Target(ctl.d)] <= host[e].schema
           /\ ctl.record.migration # "failed"
           /\ e = "production" /\ Done("staging-succeeded") => Proven(Target(ctl.d))
           /\ ctl.record.outcome = "in-progress" /\ ledger[ctl.d].outcome = "in-progress"
           /\ ctl.record.migration = "never-started" => ledger[ctl.d].migration = "never-started"
<1>1. ctl.at \in Attempt
  BY DEF Attempt
<1>2. Running /\ Attempting /\ Typed
  BY <1>1, AtWork
<1>3. Done("authority-changing") => journal[ctl.d] = {ctl.record.before}
  BY <1>2, InTheRun DEF Running
<1>4. /\ ctl.record.outcome = "in-progress" /\ ledger[ctl.d].outcome = "in-progress"
      /\ ctl.record.migration = "never-started" => ledger[ctl.d].migration = "never-started"
  BY <1>1, <1>2 DEF Attempting
<1> QED
  BY <1>2, <1>3, <1>4 DEF Running

LEMMA AtUndo ==
    ASSUME IInv, ctl.at = "undo", NEW e, e = Env(ctl.d)
    PROVE  /\ journal[ctl.d] = {ctl.record.before}
           /\ ctl.record.migration = "never-started" /\ ledger[ctl.d].migration = "never-started"
           /\ \A f \in Range(Files(e)) : Done(f) => host[e].file[f] = ctl.record.before
           /\ \A s \in Range(Services(e)) : Done(s) => host[e].service[s] = ctl.record.before
           /\ Fingerprint[ctl.record.before] <= host[e].schema
           /\ ctl.record.outcome = "in-progress" /\ ledger[ctl.d].outcome = "in-progress"
<1>1. ctl.at \in Attempt
  BY DEF Attempt
<1>2. Undoing /\ Attempting
  BY <1>1, AtWork
<1> QED
  BY <1>1, <1>2 DEF Undoing, Attempting

LEMMA Worked ==
    ASSUME IInv, ctl.at \in {"run", "undo"}, UNCHANGED <<hub, poll, status>>,
           InOrder', Final, Controlled' /\ ctl' \in Controllers /\ ctl'.at \in Attempt,
           ctl'.d = ctl.d, ctl'.rec = ctl.rec,
           (ctl.at \in {"run", "undo"} => ctl.step <= Len(Steps))',
           ledger' \in [Deployments -> Records],
           journal' \in [Deployments -> SUBSET Releases],
           host' = [e \in Environments |-> host'[e]],
           \A e \in Environments : host'[e] \in HostRows(e),
           faults' \in Nat
    PROVE  IInv'
<1>1. ctl.at \in Attempt /\ ctl'.at # "off"
  BY DEF Attempt
<1>2. StatusIsTrue'
  BY <1>1, AtWork, StatusStays
<1>3. Typed'
  BY <1>1, AtWork, TypedStays
<1> QED
  BY <1>2, <1>3 DEF IInv

\* Where the controller goes next does not change what it is about.
LEMMA SameAttempt ==
    ASSUME Typed, ctl.at \in {"run", "undo"}, request' = request,
           NEW r \in Records, NEW c, Holding(c, r), ctl' \in {Forth(c), Fails(c)}
    PROVE  ctl'.d = ctl.d /\ ctl'.rec = ctl.rec /\ ctl'.changed = ctl.changed /\ ctl'.record = r
  BY Forward, Failing

LEMMA Phases ==
    ASSUME IInv, Phase
    PROVE  IInv'
<1> DEFINE d == ctl.d
<1>0. ctl.at \in {"run", "undo"} /\ ctl.at \in Attempt /\ Step \notin Operations
  BY DEF Phase, Attempt
<1>1. PICK e \in Environments : e = Env(d)
  BY <1>0, AtWork
<1>2. /\ Typed /\ Attempting /\ InOrder /\ ctl.record \in Records /\ ctl.rec = d
      /\ d \in Deployments /\ Step \in Names
  BY <1>0, AtWork, Standing
<1>3. PICK m \in {"never-started", "started", "completed", "failed"} :
         m = CASE Step = "migration-starting" -> "started"
               [] Step = "migration-completed" -> "completed"
               [] OTHER -> ctl.record.migration
  BY <1>2 DEF Records
<1>4. /\ Step = "migration-starting" => m = "started"
      /\ Step = "migration-completed" => m = "completed"
      /\ Step \notin {"migration-starting", "migration-completed"} => m = ctl.record.migration
      /\ m = "never-started" => ctl.record.migration = "never-started"
  BY <1>3
<1>5. PICK r : r = Judged(ctl.record, Step, m)
  OBVIOUS
<1>6. /\ r \in Records /\ r.migration = m /\ r.outcome = ctl.record.outcome
      /\ r.before = ctl.record.before
  <2>1. PICK s \in RecordPhases : s = Step
    BY <1>2 DEF RecordPhases
  <2>2. PICK o \in Records : o = ctl.record
    BY <1>2
  <2>3. /\ Judged(o, s, m) \in Records /\ Judged(o, s, m).migration = m
        /\ Judged(o, s, m).outcome = o.outcome /\ Judged(o, s, m).before = o.before
    BY JudgedRecord
  <2>4. r = Judged(o, s, m)
    BY <1>5, <2>1, <2>2
  <2> QED
    BY <2>2, <2>3, <2>4
<1>7. r = [ctl.record EXCEPT !.phase = Step,
             !.migration = CASE Step = "migration-starting" -> "started"
                             [] Step = "migration-completed" -> "completed"
                             [] OTHER -> @]
  BY <1>2, <1>3, <1>5 DEF Judged, Records
<1>8. PICK c : c = [ctl EXCEPT !.record = r]
  OBVIOUS
<1>9. Save(r, Forth(c), Fails(c)) /\ Holding(c, r)
  BY <1>7, <1>8 DEF Phase, Holding
<1>10. ctl.record.outcome = "in-progress" /\ ledger[d].outcome = "in-progress"
  BY <1>0, <1>2 DEF Attempting
<1>11. InDoubt(r)
  BY <1>6, <1>10 DEF InDoubt, Reconciliation
<1>12. /\ InOrder' /\ StatusIsTrue' /\ Final
       /\ ledger' \in [Deployments -> Records] /\ faults' \in Nat
       /\ UNCHANGED <<hub, poll, journal, host, status>> /\ request' = request
       /\ ledger'[d] \in {r, ledger[d]}
       /\ ctl' = Forth(c) \/ ctl' = Fails(c)
  <2>1. PICK n \in Deployments : n = d /\ ctl.rec = n
    BY <1>0, AtWork
  <2> HIDE DEF d
  <2> QED
    BY <1>0, <1>1, <1>6, <1>9, <1>10, <1>11, <2>1, AtWork, Saved
<1>13. ctl'.d = ctl.d /\ ctl'.rec = ctl.rec /\ ctl'.changed = ctl.changed /\ ctl'.record = r
  BY <1>0, <1>2, <1>6, <1>9, <1>12, SameAttempt
<1>14. Open(e, r)
  BY <1>0, <1>1, <1>2, <1>4, <1>6, <1>10, <1>12, <1>13 DEF Open, Attempting
<1>15. Controlled' /\ ctl' \in Controllers /\ ctl'.at \in Attempt
       /\ (ctl.at \in {"run", "undo"} => ctl.step <= Len(Steps))'
  <2>1. CASE ctl.at = "run"
    <3>1. Accounted(e) => Accounted(e)'
      BY <1>12, AccountedStays
    <3>2. /\ Step \in {"migration-starting", "migration-completed"} =>
                ctl.changed /\ \A f \in Range(Files(e)) : Done(f)
          /\ Step = "migration-completed" => Done("migrate")
          /\ \A f \in Written : Done(f) => Done("authority-changing")
          /\ Range(Files(e)) \subseteq Written /\ Range(Services(e)) \subseteq Started
          /\ "authority" \in Range(Files(e))
      BY <1>1, <1>2, <2>1, InTheRun DEF Migrations
    <3>3. /\ ~ Done("authority-changing") => Accounted(e)'
          /\ ~ Done("authority-changing") => m = "never-started"
      BY <1>1, <1>4, <2>1, <3>1, <3>2, AtRun
    <3>4. /\ Fingerprint[r.before] <= host'[e].schema
          /\ ~ ctl.changed => m = "never-started"
          /\ m # "failed"
          /\ m # "never-started" => \A f \in Range(Files(e)) : Done(f)
          /\ m = "completed" => Fingerprint[Target(d)] <= host[e].schema
      BY <1>1, <1>4, <1>6, <1>12, <2>1, <3>2, AtRun
    <3>5. CASE ctl' = Fails(c)
      <4>1. m = "completed" => \A f \in Range(Files(e)) : host'[e].file[f] = Target(d)
        BY <1>1, <1>12, <2>1, <3>4, AtRun
      <4>2. Done("authority-changing") => journal'[d] = {r.before}
        BY <1>1, <1>6, <1>12, <2>1, AtRun
      <4> QED
        BY <1>2, <1>6, <1>9, <1>12, <1>14, <2>1, <3>3, <3>4, <3>5, <4>1, <4>2, RunFails
    <3>6. CASE ctl' = Forth(c)
      <4>1. /\ Step # "journal" /\ Step # "migrate" /\ Step # "staging-succeeded"
            /\ \A f \in Range(Files(e)) : Step # f
            /\ \A s \in Range(Services(e)) : Step # s
        BY <1>0, <3>2 DEF Operations, Checks
      <4>2. /\ journal'[d] = IF Done("journal") \/ Step = "journal" THEN {r.before} ELSE {}
            /\ \A f \in Range(Files(e)) :
                  host'[e].file[f] = IF Done(f) \/ Step = f THEN Target(d) ELSE r.before
            /\ \A s \in Range(Services(e)) : Done(s) \/ Step = s => host'[e].service[s] = Target(d)
            /\ Done("migrate") \/ Step = "migrate" => Fingerprint[Target(d)] <= host'[e].schema
            /\ e = "production" /\ (Done("staging-succeeded") \/ Step = "staging-succeeded") =>
                  Proven(Target(d))
        BY <1>1, <1>6, <1>12, <2>1, <4>1, AtRun
      <4> HIDE DEF d
      <4>3. d = ctl.d
        BY DEF d
      <4> QED
        BY <1>2, <1>6, <1>9, <1>12, <1>14, <2>1, <3>3, <3>4, <3>6, <4>2, <4>3, RunGoesOn
    <3> QED
      BY <1>12, <3>5, <3>6
  <2>2. CASE ctl.at = "undo"
    <3>1. CASE ctl' = Fails(c)
      BY <1>2, <1>6, <1>9, <1>14, <2>2, <3>1, UndoFails
    <3>2. CASE ctl' = Forth(c)
      <4>1. Step = "rolled-back"
        BY <1>0, <1>1, <1>2, <2>2, InTheUndo DEF Operations, Checks
      <4>2. /\ journal'[d] = {r.before} /\ r.migration = "never-started"
            /\ Fingerprint[r.before] <= host'[e].schema
        BY <1>1, <1>4, <1>6, <1>12, <2>2, <4>1, AtUndo
      <4>3. /\ \A f \in Range(Files(e)) : Done(f) \/ Step = f => host'[e].file[f] = r.before
            /\ \A s \in Range(Services(e)) : Done(s) \/ Step = s => host'[e].service[s] = r.before
        <5>1. /\ \A f \in Range(Files(e)) : Step # f
              /\ \A s \in Range(Services(e)) : Step # s
          BY <1>1, <1>2, <2>2, <4>1, InTheUndo DEF Written, Started
        <5> QED
          BY <1>1, <1>6, <1>12, <2>2, <5>1, AtUndo
      <4> QED
        BY <1>2, <1>6, <1>9, <1>14, <2>2, <3>2, <4>2, <4>3, UndoGoesOn
    <3> QED
      BY <1>12, <3>1, <3>2
  <2> QED
    BY <1>0, <2>1, <2>2
<1> QED
  BY <1>0, <1>12, <1>13, <1>15, AtWork, Worked

\* An operation leaves the record as it is.
LEMMA SameRecord ==
    ASSUME IInv, ctl.at \in {"run", "undo"}, request' = request, ledger' = ledger,
           ctl' \in {Forth(ctl), Fails(ctl)}
    PROVE  /\ Holding(ctl, ctl.record) /\ ctl.record \in Records /\ Open(Env(ctl.d), ctl.record)
           /\ ctl'.d = ctl.d /\ ctl'.rec = ctl.rec
<1>0. ctl.at \in Attempt
  BY DEF Attempt
<1>1. Typed /\ Attempting /\ ctl.record \in Records /\ ctl \in Controllers /\ ctl.rec = ctl.d
  BY <1>0, AtWork
<1>2. Holding(ctl, ctl.record)
  BY <1>1 DEF Holding, Controllers
<1>3. PICK r \in Records : r = ctl.record
  BY <1>1
<1>4. PICK c : c = ctl
  OBVIOUS
<1>5. Holding(c, r) /\ ctl' \in {Forth(c), Fails(c)}
  BY <1>2, <1>3, <1>4
<1>6. ctl'.d = ctl.d /\ ctl'.rec = ctl.rec /\ ctl'.changed = ctl.changed /\ ctl'.record = r
  BY <1>1, <1>5, SameAttempt
<1>7. Open(Env(ctl.d), ctl.record)
  BY <1>0, <1>1, <1>3, <1>6 DEF Open, Attempting
<1> QED
  BY <1>1, <1>2, <1>6, <1>7

LEMMA Checking ==
    ASSUME IInv, NEW op \in Checks, Check(op)
    PROVE  IInv'
<1> DEFINE d == ctl.d
<1>0. /\ ctl.at \in {"run", "undo"} /\ ctl.at \in Attempt /\ Step = op
      /\ UNCHANGED <<hub, poll, disk, status, faults>>
      /\ \/ ~ Refused(op) /\ ctl' = Forth(ctl)
         \/ op = "durability" /\ ctl' = Goto(ctl, "not-durable")
         \/ ctl' = Fails(ctl)
  BY DEF Check, Does, Succeeds, Attempt
<1>1. PICK e \in Environments : e = Env(d)
  BY <1>0, AtWork
<1>2. request' = request /\ ledger' = ledger /\ journal' = journal /\ host' = host
  BY <1>0 DEF hub, disk
<1>3. /\ Typed /\ Attempting /\ InOrder /\ ctl.record \in Records /\ ctl.rec = d
      /\ d \in Deployments /\ faults \in Nat /\ ctl.changed \in BOOLEAN
  BY <1>0, AtWork
<1>4. InOrder' /\ Final
  BY <1>2, <1>3, NothingWritten
<1>5. PICK r \in Records : r = ctl.record
  BY <1>3
<1>6. PICK c : c = ctl
  OBVIOUS
<1>7. Accounted(e) => Accounted(e)'
  BY <1>2, <1>4, AccountedStays
<1>8. CASE ctl' = Forth(ctl) \/ ctl' = Fails(ctl)
  <2>1. Holding(c, r) /\ Open(e, r) /\ ctl'.d = ctl.d /\ ctl'.rec = ctl.rec
    BY <1>0, <1>1, <1>2, <1>5, <1>6, <1>8, SameRecord
  <2>2. CASE ctl.at = "run" /\ ctl' = Fails(ctl)
    <3>1. /\ ~ Done("authority-changing") => Accounted(e)'
          /\ Done("authority-changing") => journal'[d] = {r.before}
          /\ Fingerprint[r.before] <= host'[e].schema
          /\ ~ ctl.changed => r.migration = "never-started"
          /\ r.migration # "failed"
          /\ r.migration = "completed" =>
                /\ \A f \in Range(Files(e)) : host'[e].file[f] = Target(d)
                /\ Fingerprint[Target(d)] <= host'[e].schema
      BY <1>1, <1>2, <1>5, <1>7, <2>2, AtRun
    <3>2. Controlled' /\ ctl' \in Controllers /\ ctl'.at \in Attempt
          /\ (ctl.at \in {"run", "undo"} => ctl.step <= Len(Steps))'
      BY <1>3, <1>6, <2>1, <2>2, <3>1, RunFails
    <3> QED
      BY <1>0, <1>2, <1>4, <2>1, <3>2, AtWork, Worked
  <2>3. CASE ctl.at = "run" /\ ctl' = Forth(ctl) /\ ~ Refused(op)
    <3>1. /\ Range(Files(e)) \subseteq Written /\ Range(Services(e)) \subseteq Started
      BY <1>1, Lists
    <3>2. /\ Step # "journal" /\ Step # "migrate" /\ Step # "authority-changing"
          /\ \A f \in Range(Files(e)) : Step # f
          /\ \A s \in Range(Services(e)) : Step # s
      BY <1>0, <3>1 DEF Checks, Written, Started
    <3>3. Step = "staging-succeeded" => Proven(Target(d))
      BY <1>0, <2>3 DEF Refused, Possible, ProvenOnStaging, Proven
    <3>4. /\ ~ Done("authority-changing") => Accounted(e)' /\ r.migration = "never-started"
          /\ journal'[d] = IF Done("journal") \/ Step = "journal" THEN {r.before} ELSE {}
          /\ \A f \in Range(Files(e)) :
                host'[e].file[f] = IF Done(f) \/ Step = f THEN Target(d) ELSE r.before
          /\ \A s \in Range(Services(e)) : Done(s) \/ Step = s => host'[e].service[s] = Target(d)
          /\ Fingerprint[r.before] <= host'[e].schema
          /\ Done("migrate") \/ Step = "migrate" => Fingerprint[Target(d)] <= host'[e].schema
          /\ ~ ctl.changed => r.migration = "never-started"
          /\ r.migration # "never-started" => \A f \in Range(Files(e)) : Done(f)
          /\ r.migration = "completed" => Fingerprint[Target(d)] <= host'[e].schema
          /\ r.migration # "failed"
          /\ e = "production" /\ (Done("staging-succeeded") \/ Step = "staging-succeeded") =>
                Proven(Target(d))
      BY <1>1, <1>2, <1>5, <1>7, <2>3, <3>2, <3>3, AtRun
    <3>5. Controlled' /\ ctl' \in Controllers /\ ctl'.at \in Attempt
          /\ (ctl.at \in {"run", "undo"} => ctl.step <= Len(Steps))'
      BY <1>3, <1>4, <1>6, <2>1, <2>3, <3>4, RunGoesOn
    <3> QED
      BY <1>0, <1>2, <1>4, <2>1, <3>5, AtWork, Worked
  <2>4. CASE ctl.at = "undo" /\ ctl' = Fails(ctl)
    <3>1. Controlled' /\ ctl' \in Controllers /\ ctl'.at \in Attempt
          /\ (ctl.at \in {"run", "undo"} => ctl.step <= Len(Steps))'
      BY <1>3, <1>6, <2>1, <2>4, UndoFails
    <3> QED
      BY <1>0, <1>2, <1>4, <2>1, <3>1, AtWork, Worked
  <2>5. CASE ctl.at = "undo" /\ ctl' = Forth(ctl)
    <3>1. /\ Range(Files(e)) \subseteq Written /\ Range(Services(e)) \subseteq Started
      BY <1>1, Lists
    <3>2. /\ \A f \in Range(Files(e)) : Step # f
          /\ \A s \in Range(Services(e)) : Step # s
      BY <1>0, <3>1 DEF Checks, Written, Started
    <3>3. /\ journal'[d] = {r.before} /\ r.migration = "never-started"
          /\ \A f \in Range(Files(e)) : Done(f) \/ Step = f => host'[e].file[f] = r.before
          /\ \A s \in Range(Services(e)) : Done(s) \/ Step = s => host'[e].service[s] = r.before
          /\ Fingerprint[r.before] <= host'[e].schema
      BY <1>1, <1>2, <1>5, <2>5, <3>2, AtUndo
    <3>4. Controlled' /\ ctl' \in Controllers /\ ctl'.at \in Attempt
          /\ (ctl.at \in {"run", "undo"} => ctl.step <= Len(Steps))'
      BY <1>3, <1>6, <2>1, <2>5, <3>3, UndoGoesOn
    <3> QED
      BY <1>0, <1>2, <1>4, <2>1, <3>4, AtWork, Worked
  <2>6. ~ Refused(op) \/ ctl' = Fails(ctl) \/ (op = "durability" /\ ctl' = Goto(ctl, "not-durable"))
    BY <1>0
  <2>7. CASE ctl' = Forth(ctl) /\ Refused(op)
    \* A refused operation has failed, whatever the next step looks like.
    <3>1. ctl' = Fails(ctl) \/ (op = "durability" /\ ctl' = Goto(ctl, "not-durable"))
      BY <1>0, <2>7
    <3>2. CASE ctl' = Fails(ctl)
      BY <1>0, <2>2, <2>4, <3>2
    <3>3. CASE op = "durability" /\ ctl' = Goto(ctl, "not-durable")
      <4>1. ctl'.at = "not-durable"
        BY <1>3, <3>3, AtWork, Going DEF Attempt, Typed
      <4>2. ctl'.at \in {"run", "undo", "completed", "failed"}
        <5>1. Holding(c, r) /\ ctl' = Forth(c)
          BY <1>6, <2>1, <2>7
        <5> QED
          BY <1>0, <1>2, <1>3, <5>1, Forward
      <4> QED
        BY <4>1, <4>2
    <3> QED
      BY <3>1, <3>2, <3>3
  <2> QED
    BY <1>0, <1>8, <2>2, <2>3, <2>4, <2>5, <2>7
<1>9. CASE op = "durability" /\ ctl' = Goto(ctl, "not-durable")
  <2>1. /\ ctl' \in Controllers /\ ctl'.at = "not-durable" /\ ctl'.d = d /\ ctl'.rec = ctl.rec
        /\ ctl'.changed = ctl.changed /\ ctl'.record = r
    BY <1>0, <1>5, <1>9, AtWork, Going DEF Attempt
  <2>2. ctl.at = "run" /\ ~ Done("authority-changing")
    BY <1>0, <1>3, <1>9, InTheRun, InTheUndo DEF Written, Started
  <2>3. Open(e, r) /\ Accounted(e) /\ r.migration = "never-started"
    BY <1>1, <1>2, <1>3, <1>5, <2>1, <2>2, AtRun DEF Open
  <2>4. Attempting' /\ Env(ctl.d)' = e
    BY <1>0, <1>3, <2>3, StaysOpen
  <2>5. Accounted(e)'
    BY <1>7, <2>3
  <2>6. Accounted(Env(ctl.d))'
    BY <2>4, <2>5
  <2>7. Beginning'
    BY <2>1, <2>3, <2>6 DEF Beginning
  <2>8. Controlled'
    BY <2>1, <2>4, <2>7 DEF Controlled, Running, Undoing, Ending, Telling, Answering
  <2>9. ctl'.at \in Attempt /\ (ctl.at \in {"run", "undo"} => ctl.step <= Len(Steps))'
    BY <2>1 DEF Attempt
  <2> QED
    BY <1>0, <1>2, <1>4, <2>1, <2>8, <2>9, AtWork, Worked
<1> QED
  BY <1>0, <1>8, <1>9

\* Only services and the schema of the environment of an attempt with a journal change.
LEMMA OutsideFiles ==
    ASSUME IInv, ctl.at \in {"run", "undo"}, NEW e \in Environments, e = Env(ctl.d),
           UNCHANGED <<request, ledger, journal>>, journal[ctl.d] # {},
           \A o \in Environments \ {e} : host'[o] = host[o],
           host'[e].file = host[e].file
    PROVE  InOrder' /\ Final
<1>0. ctl.at \in Attempt
  BY DEF Attempt
<1>1. PICK d \in Deployments : d = ctl.d
  BY <1>0, AtWork
<1>2. Typed /\ InOrder /\ ledger[d].outcome = "in-progress"
  BY <1>0, <1>1, AtWork, AtRun, AtUndo
<1>3. e = "production" => \A m \in journal'[d] : Proven(m)
  BY <1>1, <1>2 DEF InOrder, JournalsProven
<1>4. e = "production" => \A f \in Range(Files(e)) : \E m : host'[e].file[f] = m /\ Proven(m)
  BY <1>2 DEF InOrder, ProductionFollowsStaging, Proven
<1> QED
  BY <1>1, <1>2, <1>3, <1>4, HostTouched

\* An operation that fails may have replaced services or applied migrations.
LEMMA FailedOperation ==
    ASSUME IInv, ctl.at \in {"run", "undo"}, NEW e \in Environments, e = Env(ctl.d),
           UNCHANGED <<hub, poll, ledger, journal, status, faults>>, ctl' = Fails(ctl),
           host' = host \/ (journal[ctl.d] # {} /\ (Done("authority-changing") \/ ctl.at = "undo")),
           host' = [o \in Environments |-> host'[o]],
           \A o \in Environments \ {e} : host'[o] = host[o],
           host'[e] \in HostRows(e), host'[e].file = host[e].file,
           host[e].schema <= host'[e].schema
    PROVE  IInv'
<1>0. ctl.at \in Attempt /\ request' = request
  BY DEF Attempt, hub
<1>1. /\ Typed /\ Attempting /\ InOrder /\ ctl.record \in Records /\ ctl.rec = ctl.d
      /\ ctl.d \in Deployments /\ faults \in Nat /\ Target(ctl.d) \in Releases
  BY <1>0, AtWork, Standing
<1>2. InOrder' /\ Final
  BY <1>0, <1>1, NothingWritten, OutsideFiles
<1>3. /\ host' = [o \in Environments |-> host'[o]] /\ \A o \in Environments : host'[o] \in HostRows(o)
      /\ ledger' \in [Deployments -> Records] /\ journal' \in [Deployments -> SUBSET Releases]
  BY <1>1 DEF Typed
<1>4. PICK r \in Records : r = ctl.record
  BY <1>1
<1>5. PICK c : c = ctl
  OBVIOUS
<1>6. Holding(c, r) /\ Open(e, r) /\ ctl'.d = ctl.d /\ ctl'.rec = ctl.rec
  BY <1>0, <1>4, <1>5, SameRecord
<1>7. CASE ctl.at = "run"
  <2>1. ~ Done("authority-changing") => Accounted(e)'
    BY <1>2, <1>7, AtRun, AccountedStays
  <2>2. ASSUME NEW n \in Nat, n <= host[e].schema
        PROVE  n <= host'[e].schema
    BY <1>1, <1>3, <2>2 DEF Typed, HostRows
  <2>3. Fingerprint[r.before] \in Nat /\ Fingerprint[Target(ctl.d)] \in Nat
    BY <1>1, Fingerprints DEF Records
  <2>4. /\ Done("authority-changing") => journal'[ctl.d] = {r.before}
        /\ Fingerprint[r.before] <= host'[e].schema
        /\ ~ ctl.changed => r.migration = "never-started"
        /\ r.migration # "failed"
        /\ r.migration = "completed" =>
              /\ \A f \in Range(Files(e)) : host'[e].file[f] = Target(ctl.d)
              /\ Fingerprint[Target(ctl.d)] <= host'[e].schema
    BY <1>4, <1>7, <2>2, <2>3, AtRun
  <2>5. Controlled' /\ ctl' \in Controllers /\ ctl'.at \in Attempt
        /\ (ctl.at \in {"run", "undo"} => ctl.step <= Len(Steps))'
    BY <1>1, <1>5, <1>6, <1>7, <2>1, <2>4, RunFails
  <2> QED
    BY <1>1, <1>2, <1>3, <1>6, <1>7, <2>5, Worked
<1>8. CASE ctl.at = "undo"
  <2>1. Controlled' /\ ctl' \in Controllers /\ ctl'.at \in Attempt
        /\ (ctl.at \in {"run", "undo"} => ctl.step <= Len(Steps))'
    BY <1>1, <1>5, <1>6, <1>8, UndoFails
  <2> QED
    BY <1>1, <1>2, <1>3, <1>6, <1>8, <2>1, Worked
<1> QED
  BY <1>7, <1>8

LEMMA Journaling ==
    ASSUME IInv, KeepJournal
    PROVE  IInv'
<1> DEFINE d == ctl.d
<1>0. /\ ctl.at \in {"run", "undo"} /\ ctl.at \in Attempt /\ Step = "journal"
      /\ UNCHANGED <<hub, poll, ledger, host, status, faults>>
      /\ \/ /\ ~ Refused("journal") /\ ctl' = Forth(ctl)
            /\ journal' = [journal EXCEPT ![d] = {host[Env(d)].file["authority"]}]
         \/ ctl' = Fails(ctl) /\ UNCHANGED journal
  BY DEF KeepJournal, Does, Succeeds, Attempt
<1>1. PICK e \in Environments : e = Env(d)
  BY <1>0, AtWork
<1>2. request' = request /\ ledger' = ledger /\ host' = host
  BY <1>0 DEF hub
<1>3. /\ Typed /\ Attempting /\ InOrder /\ ctl.record \in Records /\ ctl.rec = d
      /\ d \in Deployments /\ faults \in Nat /\ host[e] \in HostRows(e)
      /\ ctl.record.before \in Releases /\ journal \in [Deployments -> SUBSET Releases]
  BY <1>0, AtWork
<1>4. ctl.at = "run"
  BY <1>0, <1>3, InTheUndo DEF Written, Started
<1>5. CASE ctl' = Fails(ctl) /\ UNCHANGED journal
  <2>1. host' = [o \in Environments |-> host'[o]] /\ host[e].schema <= host'[e].schema
    BY <1>2, <1>3 DEF Typed, HostRows
  <2> QED
    BY <1>0, <1>1, <1>2, <1>3, <1>5, <2>1, FailedOperation
<1>6. CASE /\ ~ Refused("journal") /\ ctl' = Forth(ctl)
           /\ journal' = [journal EXCEPT ![d] = {host[Env(d)].file["authority"]}]
  <2>1. PICK r \in Records : r = ctl.record
    BY <1>3
  <2>2. PICK c : c = ctl
    OBVIOUS
  <2>3. Holding(c, r) /\ Open(e, r) /\ ctl'.d = ctl.d /\ ctl'.rec = ctl.rec
    BY <1>0, <1>1, <1>2, <1>6, <2>1, <2>2, SameRecord
  <2>4. ~ Done("journal")
    BY <1>1, <1>4, <1>6, AtRun DEF Refused, Possible
  \* Nothing has been switched yet: what is kept is the release the attempt found.
  <2>5. /\ ~ Done("authority-changing") /\ Range(Files(e)) \subseteq Written
        /\ Range(Services(e)) \subseteq Started /\ "authority" \in Range(Files(e))
        /\ \A f \in Range(Files(e)) : ~ Done(f)
    BY <1>1, <1>3, <1>4, <2>4, InTheRun
  <2>6. host[e].file["authority"] = r.before
    BY <1>1, <1>4, <2>1, <2>5, AtRun
  <2>7. journal' = [journal EXCEPT ![d] = {r.before}]
    BY <1>1, <1>6, <2>6
  <2>8. /\ journal'[d] = {r.before} /\ journal' \in [Deployments -> SUBSET Releases]
        /\ \A o \in Deployments \ {d} : journal'[o] = journal[o]
    BY <1>3, <2>1, <2>7
  <2>9. InOrder' /\ Final
    <3>1. e = "production" => \A m \in journal'[d] : Proven(m)
      BY <1>3, <2>5, <2>6, <2>8 DEF InOrder, ProductionFollowsStaging, Proven
    <3>2. e = "production" => \A f \in Range(Files(e)) : \E m : host'[e].file[f] = m /\ Proven(m)
      BY <1>2, <1>3 DEF InOrder, ProductionFollowsStaging, Proven
    <3>3. ledger[d].outcome = "in-progress"
      BY <1>1, <1>4, AtRun
    <3>4. PICK n \in Deployments : n = d
      BY <1>3
    <3>5. /\ Env(n) = e /\ ledger[n].outcome = "in-progress" /\ journal'[n] # {}
          /\ \A o \in Deployments \ {n} : journal'[o] = journal[o]
          /\ e = "production" => \A m \in journal'[n] : Proven(m)
      BY <1>1, <2>8, <3>1, <3>3, <3>4
    <3> QED
      BY <1>2, <1>3, <3>2, <3>5, HostTouched
  <2>10. Accounted(e) => Accounted(e)'
    BY <1>2, <2>9, AccountedStays
  <2>11. /\ Step # "migrate" /\ Step # "authority-changing" /\ Step # "staging-succeeded"
         /\ \A f \in Range(Files(e)) : Step # f
         /\ \A s \in Range(Services(e)) : Step # s
    BY <1>0, <2>5 DEF Written, Started
  <2>12. /\ ~ Done("authority-changing") => Accounted(e)' /\ r.migration = "never-started"
         /\ journal'[d] = IF Done("journal") \/ Step = "journal" THEN {r.before} ELSE {}
         /\ \A f \in Range(Files(e)) :
               host'[e].file[f] = IF Done(f) \/ Step = f THEN Target(d) ELSE r.before
         /\ \A s \in Range(Services(e)) : Done(s) \/ Step = s => host'[e].service[s] = Target(d)
         /\ Fingerprint[r.before] <= host'[e].schema
         /\ Done("migrate") \/ Step = "migrate" => Fingerprint[Target(d)] <= host'[e].schema
         /\ ~ ctl.changed => r.migration = "never-started"
         /\ r.migration # "never-started" => \A f \in Range(Files(e)) : Done(f)
         /\ r.migration = "completed" => Fingerprint[Target(d)] <= host'[e].schema
         /\ r.migration # "failed"
         /\ e = "production" /\ (Done("staging-succeeded") \/ Step = "staging-succeeded") =>
               Proven(Target(d))
    BY <1>0, <1>1, <1>2, <1>4, <2>1, <2>8, <2>10, <2>11, AtRun
  <2>13. Controlled' /\ ctl' \in Controllers /\ ctl'.at \in Attempt
         /\ (ctl.at \in {"run", "undo"} => ctl.step <= Len(Steps))'
    BY <1>3, <1>4, <1>6, <2>2, <2>3, <2>9, <2>12, RunGoesOn
  <2> QED
    BY <1>0, <1>2, <1>3, <2>3, <2>8, <2>9, <2>13, AtWork, Worked
<1> QED
  BY <1>0, <1>5, <1>6

\* What a change of one field of an environment leaves alone.
LEMMA FileReplaced ==
    ASSUME Typed, NEW e \in Environments, NEW f \in Range(Files(e)), NEW m \in Releases,
           host' = [host EXCEPT ![e].file[f] = m]
    PROVE  /\ host' = [o \in Environments |-> host'[o]] /\ host'[e] \in HostRows(e)
           /\ \A o \in Environments \ {e} : host'[o] = host[o]
           /\ host'[e].service = host[e].service /\ host'[e].schema = host[e].schema
           /\ \A g \in Range(Files(e)) : host'[e].file[g] = IF g = f THEN m ELSE host[e].file[g]
<1>1. host[e] \in HostRows(e) /\ host = [o \in Environments |-> host[o]]
  BY DEF Typed
<1>2. PICK row : row = host[e]
  OBVIOUS
<1>3. PICK files : files = [row.file EXCEPT ![f] = m]
  OBVIOUS
<1>4. /\ files \in [Range(Files(e)) -> Releases]
      /\ \A g \in Range(Files(e)) : files[g] = IF g = f THEN m ELSE row.file[g]
  BY <1>1, <1>2, <1>3 DEF HostRows
<1>5. PICK new : new = [row EXCEPT !.file = files]
  OBVIOUS
<1>6. new \in HostRows(e) /\ new.file = files /\ new.service = row.service /\ new.schema = row.schema
  BY <1>1, <1>2, <1>4, <1>5 DEF HostRows
<1>7. host' = [host EXCEPT ![e] = new]
  BY <1>2, <1>3, <1>5
<1>8. host' = [o \in Environments |-> host'[o]] /\ host'[e] = new
      /\ \A o \in Environments \ {e} : host'[o] = host[o]
  BY <1>1, <1>7
<1> QED
  BY <1>2, <1>4, <1>6, <1>8

LEMMA ServiceReplaced ==
    ASSUME Typed, NEW e \in Environments, NEW s \in Range(Services(e)), NEW m \in Releases,
           host' = [host EXCEPT ![e].service[s] = m]
    PROVE  /\ host' = [o \in Environments |-> host'[o]] /\ host'[e] \in HostRows(e)
           /\ \A o \in Environments \ {e} : host'[o] = host[o]
           /\ host'[e].file = host[e].file /\ host'[e].schema = host[e].schema
           /\ \A t \in Range(Services(e)) :
                 host'[e].service[t] = IF t = s THEN m ELSE host[e].service[t]
<1>1. host[e] \in HostRows(e) /\ host = [o \in Environments |-> host[o]]
  BY DEF Typed
<1>2. PICK row : row = host[e]
  OBVIOUS
<1>3. PICK services : services = [row.service EXCEPT ![s] = m]
  OBVIOUS
<1>4. /\ services \in [Range(Services(e)) -> Releases]
      /\ \A t \in Range(Services(e)) : services[t] = IF t = s THEN m ELSE row.service[t]
  BY <1>1, <1>2, <1>3 DEF HostRows
<1>5. PICK new : new = [row EXCEPT !.service = services]
  OBVIOUS
<1>6. new \in HostRows(e) /\ new.service = services /\ new.file = row.file /\ new.schema = row.schema
  BY <1>1, <1>2, <1>4, <1>5 DEF HostRows
<1>7. host' = [host EXCEPT ![e] = new]
  BY <1>2, <1>3, <1>5
<1>8. host' = [o \in Environments |-> host'[o]] /\ host'[e] = new
      /\ \A o \in Environments \ {e} : host'[o] = host[o]
  BY <1>1, <1>7
<1> QED
  BY <1>2, <1>4, <1>6, <1>8

LEMMA SchemaChanged ==
    ASSUME Typed, NEW e \in Environments, NEW n \in Nat, host' = [host EXCEPT ![e].schema = n]
    PROVE  /\ host' = [o \in Environments |-> host'[o]] /\ host'[e] \in HostRows(e)
           /\ \A o \in Environments \ {e} : host'[o] = host[o]
           /\ host'[e].file = host[e].file /\ host'[e].service = host[e].service
           /\ host'[e].schema = n
<1>1. host[e] \in HostRows(e) /\ host = [o \in Environments |-> host[o]]
  BY DEF Typed
<1>2. PICK row : row = host[e]
  OBVIOUS
<1>3. PICK new : new = [row EXCEPT !.schema = n]
  OBVIOUS
<1>4. new \in HostRows(e) /\ new.service = row.service /\ new.file = row.file /\ new.schema = n
  BY <1>1, <1>2, <1>3 DEF HostRows
<1>5. host' = [host EXCEPT ![e] = new]
  BY <1>2, <1>3
<1>6. host' = [o \in Environments |-> host'[o]] /\ host'[e] = new
      /\ \A o \in Environments \ {e} : host'[o] = host[o]
  BY <1>1, <1>5
<1> QED
  BY <1>2, <1>4, <1>6

\* A file is replaced by the release of the transaction, or of its undo.
LEMMA Switching ==
    ASSUME IInv, NEW f \in Written, WriteFile(f)
    PROVE  IInv'
<1> DEFINE d == ctl.d
           release == IF ctl.at = "undo" THEN CHOOSE m \in journal[ctl.d] : TRUE ELSE Target(ctl.d)
<1>0. /\ ctl.at \in {"run", "undo"} /\ ctl.at \in Attempt /\ Step = f
      /\ UNCHANGED <<hub, poll, ledger, journal, status, faults>>
      /\ \/ ctl' = Forth(ctl) /\ host' = [host EXCEPT ![Env(d)].file[f] = release]
         \/ ctl' = Fails(ctl) /\ UNCHANGED host
         \/ ctl' = Exit("retry") /\ UNCHANGED host
  BY DEF WriteFile, Does, Succeeds, Attempt
<1>1. PICK e \in Environments : e = Env(d)
  BY <1>0, AtWork
<1>2. request' = request /\ ledger' = ledger /\ journal' = journal
  BY <1>0 DEF hub
<1>3. /\ Typed /\ Attempting /\ InOrder /\ ctl.record \in Records /\ ctl.rec = d
      /\ d \in Deployments /\ faults \in Nat /\ host[e] \in HostRows(e)
      /\ ctl.record.before \in Releases /\ journal \in [Deployments -> SUBSET Releases]
      /\ Target(d) \in Releases /\ ctl.at # "off"
      /\ ledger \in [Deployments -> Records]
  BY <1>0, AtWork
<1>4. CASE ctl' = Fails(ctl) /\ UNCHANGED host
  <2>1. host' = [o \in Environments |-> host'[o]] /\ host[e].schema <= host'[e].schema
    BY <1>3, <1>4 DEF Typed, HostRows
  <2> QED
    BY <1>0, <1>1, <1>3, <1>4, <2>1, FailedOperation
<1>5. CASE ctl' = Exit("retry") /\ UNCHANGED host
  BY <1>0, <1>3, <1>5, Leaving DEF disk
<1>6. CASE ctl' = Forth(ctl) /\ host' = [host EXCEPT ![Env(d)].file[f] = release]
  <2>1. PICK r \in Records : r = ctl.record
    BY <1>3
  <2>2. PICK c : c = ctl
    OBVIOUS
  <2>3. Holding(c, r) /\ Open(e, r) /\ ctl'.d = ctl.d /\ ctl'.rec = ctl.rec
    BY <1>0, <1>1, <1>2, <1>6, <2>1, <2>2, SameRecord
  <2>4. /\ f \in Range(Files(e)) /\ Range(Files(e)) \subseteq Written
        /\ Range(Services(e)) \subseteq Started
        /\ ctl.at = "run" => Done("authority-changing")
        /\ ctl.at = "run" /\ e = "production" => Done("staging-succeeded")
    <3>1. Range(Files(e)) \subseteq Written /\ Range(Services(e)) \subseteq Started
      BY <1>1, Lists
    <3>2. CASE ctl.at = "run"
      BY <1>0, <1>1, <1>3, <3>1, <3>2, InTheRun
    <3>3. CASE ctl.at = "undo"
      <4>1. f \notin {"restore", "rolled-back"} \cup Started
        BY DEF Written, Started
      <4>2. f \in Range(Files(e))
        BY <1>0, <1>1, <1>3, <3>1, <3>3, <4>1, InTheUndo
      <4> QED
        BY <3>1, <3>3, <4>2
    <3> QED
      BY <1>0, <3>2, <3>3
  <2>5. journal[d] = {r.before}
    BY <1>0, <1>1, <2>1, <2>4, AtRun, AtUndo
  <2>6. release = IF ctl.at = "undo" THEN r.before ELSE Target(d)
    BY <2>5
  <2>7. PICK m \in Releases : m = release
    BY <1>3, <2>1, <2>6
  <2>8. host' = [host EXCEPT ![e].file[f] = m]
    BY <1>1, <1>6, <2>7
  <2>9. /\ host' = [o \in Environments |-> host'[o]] /\ host'[e] \in HostRows(e)
        /\ \A o \in Environments \ {e} : host'[o] = host[o]
        /\ host'[e].service = host[e].service /\ host'[e].schema = host[e].schema
        /\ \A g \in Range(Files(e)) : host'[e].file[g] = IF g = f THEN m ELSE host[e].file[g]
    BY <1>3, <2>4, <2>8, FileReplaced
  <2>10. ledger[d].outcome = "in-progress"
    BY <1>0, <1>1, AtRun, AtUndo
  \* Only a release that succeeded on Staging gets into a file of Production.
  <2>11. e = "production" => Proven(m)
    <3>1. CASE ctl.at = "run"
      BY <1>1, <2>4, <2>6, <2>7, <3>1, AtRun
    <3>2. CASE ctl.at = "undo"
      BY <1>1, <1>3, <2>5, <2>6, <2>7, <3>2 DEF InOrder, JournalsProven
    <3> QED
      BY <1>0, <3>1, <3>2
  <2>12. InOrder' /\ Final
    <3>1. e = "production" => \A x \in journal'[d] : Proven(x)
      BY <1>1, <1>2, <1>3 DEF InOrder, JournalsProven
    <3>2. e = "production" => \A g \in Range(Files(e)) : \E x : host'[e].file[g] = x /\ Proven(x)
      BY <1>3, <2>9, <2>11 DEF InOrder, ProductionFollowsStaging, Proven
    <3>3. PICK n \in Deployments : n = d
      BY <1>3
    <3>4. /\ Env(n) = e /\ ledger[n].outcome = "in-progress" /\ journal'[n] # {}
          /\ e = "production" => \A x \in journal'[n] : Proven(x)
      BY <1>1, <1>2, <2>5, <2>10, <3>1, <3>3
    <3> QED
      BY <1>2, <1>3, <2>9, <3>2, <3>4, HostTouched
  <2>13. \A s \in Range(Services(e)) : Step # s
    BY <1>0, <2>4 DEF Written, Started
  <2>14. Step # "journal" /\ Step # "migrate" /\ Step # "staging-succeeded"
    BY <1>0 DEF Written
  <2>15. Controlled' /\ ctl' \in Controllers /\ ctl'.at \in Attempt
         /\ (ctl.at \in {"run", "undo"} => ctl.step <= Len(Steps))'
    <3>1. CASE ctl.at = "run"
      <4>1. \A g \in Range(Files(e)) :
               host'[e].file[g] = IF Done(g) \/ Step = g THEN Target(d) ELSE r.before
        BY <1>0, <1>1, <2>1, <2>6, <2>7, <2>9, <3>1, AtRun
      <4>2. Done("authority-changing")
        BY <2>4, <3>1
      <4>3. host'[e].schema = host[e].schema /\ host'[e].service = host[e].service
        BY <2>9
      <4>4. /\ journal'[d] = IF Done("journal") \/ Step = "journal" THEN {r.before} ELSE {}
            /\ \A s \in Range(Services(e)) :
                  Done(s) \/ Step = s => host'[e].service[s] = Target(d)
            /\ Fingerprint[r.before] <= host'[e].schema
            /\ Done("migrate") \/ Step = "migrate" => Fingerprint[Target(d)] <= host'[e].schema
        BY <1>1, <1>2, <2>1, <2>13, <2>14, <3>1, <4>3, AtRun
      <4>5. /\ ~ ctl.changed => r.migration = "never-started"
            /\ r.migration # "never-started" => \A g \in Range(Files(e)) : Done(g)
            /\ r.migration = "completed" => Fingerprint[Target(d)] <= host'[e].schema
            /\ r.migration # "failed"
            /\ e = "production" /\ (Done("staging-succeeded") \/ Step = "staging-succeeded") =>
                  Proven(Target(d))
        BY <1>1, <2>1, <2>14, <3>1, <4>3, AtRun
      <4> HIDE DEF release
      <4> QED
        BY <1>3, <1>6, <2>2, <2>3, <2>12, <3>1, <4>1, <4>2, <4>4, <4>5, RunGoesOn
    <3>2. CASE ctl.at = "undo"
      <4>1. /\ journal'[d] = {r.before} /\ r.migration = "never-started"
            /\ \A g \in Range(Files(e)) : Done(g) \/ Step = g => host'[e].file[g] = r.before
            /\ \A s \in Range(Services(e)) : Done(s) \/ Step = s => host'[e].service[s] = r.before
            /\ Fingerprint[r.before] <= host'[e].schema
        BY <1>0, <1>1, <1>2, <2>1, <2>5, <2>6, <2>7, <2>9, <2>13, <3>2, AtUndo
      <4> HIDE DEF release
      <4> QED
        BY <1>3, <1>6, <2>2, <2>3, <3>2, <4>1, UndoGoesOn
    <3> QED
      BY <1>0, <3>1, <3>2
  <2> QED
    <3>1. \A o \in Environments : host'[o] \in HostRows(o)
      BY <1>3, <2>9 DEF Typed
    <3> QED
      BY <1>0, <1>2, <1>3, <2>3, <2>9, <2>12, <2>15, <3>1, Worked
<1> QED
  BY <1>0, <1>4, <1>5, <1>6

\* A service is started only once every release file is that of the transaction or of
\* its undo, so the image it takes is.
LEMMA AtStart ==
    ASSUME IInv, NEW s \in Started, Does(s), NEW e \in Environments, e = Env(ctl.d)
    PROVE  /\ s \in Range(Services(e)) /\ journal[ctl.d] = {ctl.record.before}
           /\ ctl.at = "run" => Done("authority-changing")
           /\ (IF s = "exporter" THEN "monitoring" ELSE "runtime") \in Range(Files(e))
           /\ \A f \in Range(Files(e)) :
                 host[e].file[f] = IF ctl.at = "undo" THEN ctl.record.before ELSE Target(ctl.d)
<1>0. ctl.at \in {"run", "undo"} /\ ctl.at \in Attempt /\ Step = s
  BY DEF Does, Attempt
<1>1. Typed
  BY <1>0, AtWork
<1>2. /\ Range(Files(e)) \subseteq Written /\ {"authority", "runtime"} \subseteq Range(Files(e))
      /\ "monitoring" \in Range(Files(e)) <=> e = "staging"
      /\ "exporter" \in Range(Services(e)) <=> e = "staging"
  BY Lists
<1>3. s \notin {"restore", "rolled-back"} \cup Written
  BY DEF Started, Written
<1>4. /\ s \in Range(Services(e)) /\ \A f \in Range(Files(e)) : Done(f)
      /\ ctl.at = "run" => Done("authority-changing")
  <2>1. CASE ctl.at = "run"
    BY <1>0, <1>1, <1>2, <2>1, InTheRun
  <2>2. CASE ctl.at = "undo"
    BY <1>0, <1>1, <1>2, <1>3, <2>2, InTheUndo
  <2> QED
    BY <1>0, <2>1, <2>2
<1>5. /\ journal[ctl.d] = {ctl.record.before}
      /\ \A f \in Range(Files(e)) :
            host[e].file[f] = IF ctl.at = "undo" THEN ctl.record.before ELSE Target(ctl.d)
  BY <1>0, <1>4, AtRun, AtUndo
<1> QED
  BY <1>2, <1>4, <1>5

LEMMA StartingService ==
    ASSUME IInv, NEW s \in Started, Start(s)
    PROVE  IInv'
<1> DEFINE d == ctl.d
           file == IF s = "exporter" THEN "monitoring" ELSE "runtime"
<1>0. /\ ctl.at \in {"run", "undo"} /\ ctl.at \in Attempt /\ Step = s /\ Does(s)
      /\ UNCHANGED <<hub, poll, ledger, journal, status, faults>>
      /\ host' \in {host, [host EXCEPT ![Env(d)].service[s] = host[Env(d)].file[file]]}
      /\ \/ /\ ctl' = Forth(ctl)
            /\ host' = [host EXCEPT ![Env(d)].service[s] = host[Env(d)].file[file]]
         \/ ctl' = Fails(ctl)
  BY DEF Start, Does, Succeeds, Attempt
<1>1. PICK e \in Environments : e = Env(d)
  BY <1>0, AtWork
<1>2. request' = request /\ ledger' = ledger /\ journal' = journal
  BY <1>0 DEF hub
<1>3. /\ Typed /\ Attempting /\ InOrder /\ ctl.record \in Records /\ ctl.rec = d
      /\ d \in Deployments /\ faults \in Nat /\ host[e] \in HostRows(e)
      /\ ctl.record.before \in Releases /\ journal \in [Deployments -> SUBSET Releases]
      /\ Target(d) \in Releases /\ ledger \in [Deployments -> Records]
  BY <1>0, AtWork
<1>4. PICK r \in Records : r = ctl.record
  BY <1>3
<1>5. /\ s \in Range(Services(e)) /\ journal[d] = {r.before} /\ file \in Range(Files(e))
      /\ ctl.at = "run" => Done("authority-changing")
      /\ \A f \in Range(Files(e)) : host[e].file[f] = IF ctl.at = "undo" THEN r.before ELSE Target(d)
  BY <1>0, <1>1, <1>4, AtStart
<1>6. PICK m \in Releases : m = IF ctl.at = "undo" THEN r.before ELSE Target(d)
  BY <1>3, <1>4
<1>7. host[Env(d)].file[file] = m
  BY <1>1, <1>5, <1>6
<1> HIDE DEF file
<1>8. \/ host' = host
      \/ /\ host' = [o \in Environments |-> host'[o]] /\ host'[e] \in HostRows(e)
         /\ \A o \in Environments \ {e} : host'[o] = host[o]
         /\ host'[e].file = host[e].file /\ host'[e].schema = host[e].schema
         /\ \A t \in Range(Services(e)) :
               host'[e].service[t] = IF t = s THEN m ELSE host[e].service[t]
  <2>1. CASE host' = [host EXCEPT ![Env(d)].service[s] = host[Env(d)].file[file]]
    <3>1. host' = [host EXCEPT ![e].service[s] = m]
      BY <1>1, <1>7, <2>1
    <3> QED
      BY <1>3, <1>5, <3>1, ServiceReplaced
  <2> QED
    BY <1>0, <2>1
<1>9. host[e].schema <= host[e].schema
  BY <1>3 DEF HostRows
<1>10. CASE ctl' = Fails(ctl)
  <2>1. /\ host' = [o \in Environments |-> host'[o]] /\ host'[e] \in HostRows(e)
        /\ \A o \in Environments \ {e} : host'[o] = host[o]
        /\ host'[e].file = host[e].file /\ host'[e].schema = host[e].schema
    BY <1>3, <1>8 DEF Typed
  <2> QED
    BY <1>0, <1>1, <1>5, <1>9, <1>10, <2>1, FailedOperation
<1>11. CASE /\ ctl' = Forth(ctl)
            /\ host' = [host EXCEPT ![Env(d)].service[s] = host[Env(d)].file[file]]
  <2>1. /\ host' = [o \in Environments |-> host'[o]] /\ host'[e] \in HostRows(e)
        /\ \A o \in Environments \ {e} : host'[o] = host[o]
        /\ host'[e].file = host[e].file /\ host'[e].schema = host[e].schema
        /\ \A t \in Range(Services(e)) :
              host'[e].service[t] = IF t = s THEN m ELSE host[e].service[t]
    <3>1. host' = [host EXCEPT ![e].service[s] = m]
      BY <1>1, <1>7, <1>11
    <3> QED
      BY <1>3, <1>5, <3>1, ServiceReplaced
  <2>2. PICK c : c = ctl
    OBVIOUS
  <2>3. Holding(c, r) /\ Open(e, r) /\ ctl'.d = ctl.d /\ ctl'.rec = ctl.rec
    BY <1>0, <1>1, <1>2, <1>4, <1>11, <2>2, SameRecord
  <2>4. InOrder' /\ Final
    BY <1>0, <1>1, <1>2, <1>5, <2>1, OutsideFiles
  <2>5. /\ \A f \in Range(Files(e)) : Step # f
        /\ Step # "journal" /\ Step # "migrate" /\ Step # "staging-succeeded"
    <3>1. Range(Files(e)) \subseteq Written
      BY Lists
    <3> QED
      BY <1>0, <3>1 DEF Written, Started
  <2>6. Controlled' /\ ctl' \in Controllers /\ ctl'.at \in Attempt
        /\ (ctl.at \in {"run", "undo"} => ctl.step <= Len(Steps))'
    <3>1. CASE ctl.at = "run"
      <4>1. Done("authority-changing")
        BY <1>5, <3>1
      <4>2. \A t \in Range(Services(e)) : Done(t) \/ Step = t => host'[e].service[t] = Target(d)
        BY <1>0, <1>1, <1>6, <2>1, <3>1, AtRun
      <4>3. /\ journal'[d] = IF Done("journal") \/ Step = "journal" THEN {r.before} ELSE {}
            /\ \A f \in Range(Files(e)) :
                  host'[e].file[f] = IF Done(f) \/ Step = f THEN Target(d) ELSE r.before
            /\ Fingerprint[r.before] <= host'[e].schema
            /\ Done("migrate") \/ Step = "migrate" => Fingerprint[Target(d)] <= host'[e].schema
        BY <1>1, <1>2, <1>4, <2>1, <2>5, <3>1, AtRun
      <4>4. /\ ~ ctl.changed => r.migration = "never-started"
            /\ r.migration # "never-started" => \A f \in Range(Files(e)) : Done(f)
            /\ r.migration = "completed" => Fingerprint[Target(d)] <= host'[e].schema
            /\ r.migration # "failed"
            /\ e = "production" /\ (Done("staging-succeeded") \/ Step = "staging-succeeded") =>
                  Proven(Target(d))
        BY <1>1, <1>4, <2>1, <2>5, <3>1, AtRun
      <4> QED
        BY <1>3, <1>11, <2>2, <2>3, <2>4, <3>1, <4>1, <4>2, <4>3, <4>4, RunGoesOn
    <3>2. CASE ctl.at = "undo"
      <4>1. \A t \in Range(Services(e)) : Done(t) \/ Step = t => host'[e].service[t] = r.before
        BY <1>0, <1>1, <1>4, <1>6, <2>1, <3>2, AtUndo
      <4>2. /\ journal'[d] = {r.before} /\ r.migration = "never-started"
            /\ \A f \in Range(Files(e)) : Done(f) \/ Step = f => host'[e].file[f] = r.before
            /\ Fingerprint[r.before] <= host'[e].schema
        BY <1>1, <1>2, <1>4, <2>1, <2>5, <3>2, AtUndo
      <4> QED
        BY <1>3, <1>11, <2>2, <2>3, <3>2, <4>1, <4>2, UndoGoesOn
    <3> QED
      BY <1>0, <3>1, <3>2
  <2> QED
    <3>1. \A o \in Environments : host'[o] \in HostRows(o)
      BY <1>3, <2>1 DEF Typed
    <3> QED
      BY <1>0, <1>2, <1>3, <2>1, <2>3, <2>4, <2>6, <3>1, Worked
<1> QED
  BY <1>0, <1>10, <1>11

LEMMA Migrating ==
    ASSUME IInv, Migrate
    PROVE  IInv'
<1> DEFINE d == ctl.d
           schema == Max({host[Env(d)].schema, Fingerprint[Target(d)]})
<1>0. /\ ctl.at \in {"run", "undo"} /\ ctl.at \in Attempt /\ Step = "migrate"
      /\ UNCHANGED <<hub, poll, ledger, journal, status, faults>>
      /\ \/ ctl' = Forth(ctl) /\ host' = [host EXCEPT ![Env(d)].schema = schema]
         \/ /\ ctl' = Fails(ctl)
            /\ \E n \in host[Env(d)].schema .. schema : host' = [host EXCEPT ![Env(d)].schema = n]
         \/ ctl' = Fails(ctl) /\ UNCHANGED host
  BY DEF Migrate, Does, Succeeds, Attempt
<1>1. PICK e \in Environments : e = Env(d)
  BY <1>0, AtWork
<1>2. request' = request /\ ledger' = ledger /\ journal' = journal
  BY <1>0 DEF hub
<1>3. /\ Typed /\ Attempting /\ InOrder /\ ctl.record \in Records /\ ctl.rec = d
      /\ d \in Deployments /\ faults \in Nat /\ host[e] \in HostRows(e)
      /\ journal \in [Deployments -> SUBSET Releases]
      /\ Target(d) \in Releases /\ ledger \in [Deployments -> Records]
  BY <1>0, AtWork
<1>4. PICK r \in Records : r = ctl.record
  BY <1>3
<1>5. ctl.at = "run"
  <2>1. Range(Files(e)) \subseteq Written /\ Range(Services(e)) \subseteq Started
    BY Lists
  <2> QED
    BY <1>0, <1>1, <1>3, <2>1, InTheUndo DEF Written, Started
<1>6. /\ Done("authority-changing") /\ \A f \in Range(Files(e)) : Done(f)
      /\ Range(Files(e)) \subseteq Written /\ Range(Services(e)) \subseteq Started
  BY <1>0, <1>1, <1>3, <1>5, InTheRun DEF Migrations
<1>7. journal[d] = {r.before}
  BY <1>1, <1>4, <1>5, <1>6, AtRun
<1>8. /\ host[e].schema \in Nat /\ Fingerprint[Target(d)] \in Nat /\ Fingerprint[r.before] \in Nat
      /\ schema \in Nat /\ host[e].schema <= schema /\ Fingerprint[Target(d)] <= schema
  <2>1. /\ host[e].schema \in Nat /\ Fingerprint[Target(d)] \in Nat
        /\ Fingerprint[r.before] \in Nat
    BY <1>3, Fingerprints DEF HostRows, Records
  <2> QED
    BY <1>1, <2>1, Greater
<1> HIDE DEF schema
<1>9. CASE ctl' = Fails(ctl) /\ UNCHANGED host
  <2>1. host' = [o \in Environments |-> host'[o]] /\ host[e].schema <= host'[e].schema
    BY <1>3, <1>9 DEF Typed, HostRows
  <2> QED
    BY <1>0, <1>1, <1>3, <1>9, <2>1, FailedOperation
<1>10. CASE /\ ctl' = Fails(ctl)
            /\ \E n \in host[Env(d)].schema .. schema : host' = [host EXCEPT ![Env(d)].schema = n]
  <2>1. PICK n \in host[e].schema .. schema : host' = [host EXCEPT ![e].schema = n]
    BY <1>1, <1>10
  <2>2. n \in Nat /\ host[e].schema <= n
    BY <1>8
  <2>3. /\ host' = [o \in Environments |-> host'[o]] /\ host'[e] \in HostRows(e)
        /\ \A o \in Environments \ {e} : host'[o] = host[o]
        /\ host'[e].file = host[e].file /\ host'[e].schema = n
    BY <1>3, <2>1, <2>2, SchemaChanged
  <2> QED
    BY <1>0, <1>1, <1>6, <1>7, <1>10, <2>2, <2>3, FailedOperation
<1>11. CASE ctl' = Forth(ctl) /\ host' = [host EXCEPT ![Env(d)].schema = schema]
  <2>1. PICK n \in Nat : n = schema
    BY <1>8
  <2>2. /\ host' = [o \in Environments |-> host'[o]] /\ host'[e] \in HostRows(e)
        /\ \A o \in Environments \ {e} : host'[o] = host[o]
        /\ host'[e].file = host[e].file /\ host'[e].service = host[e].service
        /\ host'[e].schema = n
    <3>1. host' = [host EXCEPT ![e].schema = n]
      BY <1>1, <1>11, <2>1
    <3> QED
      BY <1>3, <3>1, SchemaChanged
  <2>3. PICK c : c = ctl
    OBVIOUS
  <2>4. Holding(c, r) /\ Open(e, r) /\ ctl'.d = ctl.d /\ ctl'.rec = ctl.rec
    BY <1>0, <1>1, <1>2, <1>4, <1>11, <2>3, SameRecord
  <2>5. InOrder' /\ Final
    BY <1>0, <1>1, <1>2, <1>7, <2>2, OutsideFiles
  <2>6. /\ \A f \in Range(Files(e)) : Step # f
        /\ \A s \in Range(Services(e)) : Step # s
        /\ Step # "journal" /\ Step # "staging-succeeded"
    BY <1>0, <1>6 DEF Written, Started
  <2>7. Fingerprint[r.before] <= n /\ Fingerprint[Target(d)] <= n
    BY <1>1, <1>4, <1>5, <1>8, <2>1, AtRun
  <2>8. /\ journal'[d] = IF Done("journal") \/ Step = "journal" THEN {r.before} ELSE {}
        /\ \A f \in Range(Files(e)) :
              host'[e].file[f] = IF Done(f) \/ Step = f THEN Target(d) ELSE r.before
        /\ \A s \in Range(Services(e)) : Done(s) \/ Step = s => host'[e].service[s] = Target(d)
    BY <1>1, <1>2, <1>4, <1>5, <2>2, <2>6, AtRun
  <2>9. /\ ~ ctl.changed => r.migration = "never-started"
        /\ r.migration # "never-started" => \A f \in Range(Files(e)) : Done(f)
        /\ r.migration # "failed"
        /\ e = "production" /\ (Done("staging-succeeded") \/ Step = "staging-succeeded") =>
              Proven(Target(d))
    BY <1>1, <1>4, <1>5, <2>6, AtRun
  <2>10. Controlled' /\ ctl' \in Controllers /\ ctl'.at \in Attempt
         /\ (ctl.at \in {"run", "undo"} => ctl.step <= Len(Steps))'
    BY <1>3, <1>5, <1>6, <1>11, <2>2, <2>3, <2>4, <2>5, <2>7, <2>8, <2>9, RunGoesOn
  <2> QED
    <3>1. \A o \in Environments : host'[o] \in HostRows(o)
      BY <1>3, <2>2 DEF Typed
    <3> QED
      BY <1>0, <1>2, <1>3, <2>2, <2>4, <2>5, <2>10, <3>1, Worked
<1> QED
  BY <1>0, <1>9, <1>10, <1>11
-----------------------------------------------------------------------------
(* The invariant, and the properties it implies.                           *)

LEMMA InOrderAtFirst ==
    ASSUME Init
    PROVE  IInv
<1>1. /\ Installed \in Releases /\ Fingerprint[Installed] \in Nat
      /\ NoRecord \in Records /\ Off \in Controllers /\ Off.at = "off"
      /\ NoRecord.outcome = "none"
  BY Fingerprints, NoRecordTyped, ReleaseAssumption DEF Off, NoRecord
<1>2. PICK row : row = [e \in Environments |->
                          [file    |-> [f \in Range(Files(e)) |-> Installed],
                           service |-> [s \in Range(Services(e)) |-> Installed],
                           schema  |-> Fingerprint[Installed]]]
  OBVIOUS
<1>3. /\ host = row /\ host = [e \in Environments |-> host[e]]
      /\ \A e \in Environments :
            /\ host[e].schema = Fingerprint[Installed]
            /\ \A f \in Range(Files(e)) : host[e].file[f] = Installed
            /\ \A s \in Range(Services(e)) : host[e].service[s] = Installed
            /\ host[e] \in HostRows(e)
  BY <1>1, <1>2 DEF Init, HostRows
<1>4. /\ ledger = [d \in Deployments |-> NoRecord] /\ journal = [d \in Deployments |-> {}]
      /\ status = [d \in Deployments |-> "none"] /\ ctl = Off
  BY DEF Init
<1>5. Typed
  <2>1. Idle \in Agents /\ Idle.todo = {} /\ Idle.page = {} /\ Idle.at = "idle"
    BY DEF Idle, Agents, Environments
  <2>2. /\ request \in Scripts /\ published = {} /\ fresh = Deployments /\ seen = {}
        /\ etag \in [Environments -> SUBSET Deployments] /\ agent = Idle /\ faults = 0
    BY DEF Init
  <2> QED
    BY <1>1, <1>3, <1>4, <2>1, <2>2 DEF Typed, Attempt, Answering
<1>6. Ordered /\ Untouched /\ JournalsProven
  BY <1>1, <1>4 DEF Ordered, Untouched, JournalsProven
<1>7. \A e \in Environments : Accounted(e)
  <2> TAKE e \in Environments
  <2>1. "authority" \in Range(Files(e))
    BY Lists
  <2> QED
    BY <1>1, <1>3, <2>1 DEF Accounted, Agree
<1>8. HostIsAccountedFor
  BY <1>7 DEF HostIsAccountedFor, Accounted
<1>9. ProductionFollowsStaging
  BY <1>3 DEF ProductionFollowsStaging, Environments
<1>10. Controlled
  BY <1>1, <1>4
     DEF Controlled, Attempting, Beginning, Running, Undoing, Ending, Telling, Attempt, Answering
<1>11. StatusIsTrue
  BY <1>4 DEF StatusIsTrue
<1> QED
  BY <1>5, <1>6, <1>8, <1>9, <1>10, <1>11 DEF IInv, InOrder

LEMMA Stuttering ==
    ASSUME IInv, UNCHANGED vars
    PROVE  IInv'
<1>1. /\ UNCHANGED <<request, ledger, journal, host, status>>
      /\ ctl'.at = ctl.at /\ ctl'.d = ctl.d /\ ctl'.rec = ctl.rec /\ ctl'.step = ctl.step
      /\ ctl'.changed = ctl.changed /\ ctl'.state = ctl.state /\ ctl'.record = ctl.record
  BY DEF vars
<1>2. InOrder' /\ Controlled' /\ StatusIsTrue'
  BY <1>1, Aside
<1>3. Typed'
  BY DEF IInv, Typed, vars, HostRows, Steps, Env, Recorded
<1> QED
  BY <1>2, <1>3 DEF IInv

LEMMA Acting ==
    ASSUME IInv, [Next]_vars
    PROVE  IInv'
<1>1. CASE \E d \in Deployments : Publish(d) \/ Expire(d) \/ Reconcile(d)
  BY <1>1, Publishing, Reconciling
<1>2. CASE Agent \/ Crash
  BY <1>2, Agency
<1>3. CASE Late
  BY <1>3, Delaying
<1>4. CASE Control
  <2>1. CASE Perform
    BY <2>1, Checking, Journaling, Switching, StartingService, Migrating DEF Perform
  <2>2. CASE Begin \/ Announce \/ Announced \/ Phase
    BY <2>2, Beginnings, Announcing, Starting, Phases
  <2>3. CASE NotDurable \/ Review \/ UndoFailed \/ Finish
    BY <2>3, DurabilityMissing, Reviewing, Finishing
  <2>4. CASE Post \/ Posted
    BY <2>4, StatusPosted, AnswerRecorded
  <2> QED
    BY <1>4, <2>1, <2>2, <2>3, <2>4 DEF Control
<1>5. CASE UNCHANGED vars
  BY <1>5, Stuttering
<1> QED
  BY <1>1, <1>2, <1>3, <1>4, <1>5 DEF Next

\* At every moment the ledger, the journals, the host and what the controller has in
\* memory fit together as IInv says, whatever fails and whenever the host goes down.
THEOREM Invariance == Spec => []IInv
<1>1. Init => IInv
  BY InOrderAtFirst
<1>2. IInv /\ [Next]_vars => IInv'
  BY Acting
<1> QED
  BY <1>1, <1>2, PTL DEF Spec

\* The variables stay within their types: the controller's step is one of its list, the
\* agent waits exactly while a controller runs, the hosts name known releases.
THEOREM TypeCorrect == Spec => []TypeOK
<1>1. IInv => TypeOK
  <2> SUFFICES ASSUME IInv
               PROVE  TypeOK
    OBVIOUS
  <2>1. Typed
    BY DEF IInv
  <2>2. /\ request \in Scripts
        /\ published \subseteq Deployments /\ fresh \subseteq Deployments /\ seen \subseteq published
        /\ etag \in [Environments -> SUBSET Deployments]
        /\ agent.at \in {"idle", "page", "waiting"} /\ agent.todo \subseteq agent.page
        /\ (agent.at = "waiting") = (ctl.at # "off")
        /\ ctl.at \in {"run", "undo"} => ctl.step <= Len(Steps)
    BY <2>1 DEF Typed, Agents
  <2>3. \A d \in Deployments :
          /\ ledger[d].migration \in {"never-started", "started", "completed", "failed"}
          /\ ledger[d].outcome \in {"none", "in-progress", "success", "failure"}
          /\ ledger[d].before \in Releases
          /\ status[d] \in {"none", "in_progress", "success", "failure", "error"}
    BY <2>1 DEF Typed, Records
  <2>4. \A e \in Environments :
          /\ host[e].file \in [Range(Files(e)) -> Releases]
          /\ host[e].service \in [Range(Services(e)) -> Releases]
          /\ host[e].schema \in Nat
    BY <2>1 DEF Typed, HostRows
  <2> QED
    BY <2>2, <2>3, <2>4 DEF TypeOK
<1> QED
  BY <1>1, Invariance, PTL

\* Whatever crashed or failed and wherever the transaction stopped, an environment that
\* the ledger lets through to a new attempt runs one release on a schema that knows it,
\* or is the Staging release that may be tried again.
THEOREM AlwaysAccountedFor == Spec => []HostIsAccountedFor
<1>1. IInv => HostIsAccountedFor
  BY DEF IInv, InOrder
<1> QED
  BY <1>1, Invariance, PTL

\* GitHub never shows an end of a deployment that is not in the ledger, not even when the
\* host goes down between the two.
THEOREM StatusIsNeverAhead == Spec => []StatusIsTrue
<1>1. IInv => StatusIsTrue
  BY DEF IInv
<1> QED
  BY <1>1, Invariance, PTL

\* However often a deployment is listed and however many of them ask for the same
\* release, the controller records its success in an environment once.
THEOREM SucceedsOnce == Spec => []OneSuccessPerTarget
<1>1. IInv => OneSuccessPerTarget
  <2> SUFFICES ASSUME IInv, NEW e \in Environments, NEW m \in Releases
               PROVE  Cardinality(Succeeded(e, m)) <= 1
    BY DEF OneSuccessPerTarget
  <2>1. Ordered
    BY DEF IInv, InOrder
  <2>2. \A c, d \in Succeeded(e, m) : c = d
    BY <2>1 DEF Ordered, Succeeded, Recorded
  <2>3. CASE Succeeded(e, m) = {}
    BY <2>3, FS_EmptySet
  <2>4. CASE Succeeded(e, m) # {}
    <3>1. PICK c : Succeeded(e, m) = {c}
      BY <2>2, <2>4
    <3> QED
      BY <3>1, FS_Singleton
  <2> QED
    BY <2>3, <2>4
<1> QED
  BY <1>1, Invariance, PTL

\* No release reaches a file of Production that has not succeeded on Staging before, on
\* the way forward or back.
THEOREM StagingComesFirst == Spec => []ProductionFollowsStaging
<1>1. IInv => ProductionFollowsStaging
  BY DEF IInv, InOrder
<1> QED
  BY <1>1, Invariance, PTL

\* Only the start of a service changes what an environment runs.
LEMMA OnlyStartsRun ==
    ASSUME IInv, Next, NEW e \in Environments
    PROVE  host'[e].service = host[e].service \/ \E s \in Started : Start(s)
<1>0. Typed /\ host = [o \in Environments |-> host[o]] /\ host[e] \in HostRows(e)
  BY DEF IInv, Typed
<1>1. CASE \E d \in Deployments : Publish(d) \/ Expire(d) \/ Reconcile(d)
  BY <1>1 DEF Publish, Expire, Reconcile, disk
<1>2. CASE Agent \/ Crash \/ Late
  BY <1>2 DEF Agent, Poll, Invoke, Mark, EndPage, Crash, Late, disk
<1>3. CASE Begin \/ Announce \/ Announced \/ Phase \/ Post \/ Posted
  BY <1>3 DEF Begin, Announce, Announced, Phase, Post, Posted, Posts, Save, disk
<1>4. CASE NotDurable \/ Review \/ UndoFailed \/ Finish
  BY <1>4 DEF NotDurable, Review, UndoFailed, Finish, Save
<1>5. CASE (\E op \in Checks : Check(op)) \/ KeepJournal
  BY <1>5 DEF Check, KeepJournal, disk
<1>6. ASSUME NEW f \in Written, WriteFile(f)
      PROVE  host'[e].service = host[e].service
  <2>1. UNCHANGED host \/ \E o, m : host' = [host EXCEPT ![o].file[f] = m]
    BY <1>6 DEF WriteFile
  <2>2. ASSUME NEW o, NEW m, host' = [host EXCEPT ![o].file[f] = m]
        PROVE  host'[e].service = host[e].service
    <3>1. PICK files : files = [host[o].file EXCEPT ![f] = m]
      OBVIOUS
    <3>2. PICK row : row = [host[o] EXCEPT !.file = files]
      OBVIOUS
    <3>3. host' = [host EXCEPT ![o] = row]
      BY <2>2, <3>1, <3>2
    <3>4. o = e => row.service = host[e].service
      BY <1>0, <3>2 DEF HostRows
    <3> QED
      BY <1>0, <3>3, <3>4
  <2> QED
    BY <2>1, <2>2
<1>7. CASE Migrate
  <2>1. UNCHANGED host \/ \E o, n : host' = [host EXCEPT ![o].schema = n]
    BY <1>7 DEF Migrate
  <2>2. ASSUME NEW o, NEW n, host' = [host EXCEPT ![o].schema = n]
        PROVE  host'[e].service = host[e].service
    <3>1. PICK row : row = [host[o] EXCEPT !.schema = n]
      OBVIOUS
    <3>2. host' = [host EXCEPT ![o] = row]
      BY <2>2, <3>1
    <3>3. o = e => row.service = host[e].service
      BY <1>0, <3>1 DEF HostRows
    <3> QED
      BY <1>0, <3>2, <3>3
  <2> QED
    BY <2>1, <2>2
<1> QED
  BY <1>1, <1>2, <1>3, <1>4, <1>5, <1>6, <1>7 DEF Next, Control, Perform

\* Once the ledger says that a migration was begun, the attempt starts no service on any
\* other release than its own: there is no undo to an application that would run on the
\* newer schema.
THEOREM NeverBackAfterMigration == Spec => NoWayBackAfterMigration
<1> DEFINE KeepsForward ==
      \A d \in Deployments, s \in Started :
         (ledger[d].migration # "never-started" /\ s \in DOMAIN host[Env(d)].service
            /\ host'[Env(d)].service[s] # host[Env(d)].service[s] /\ ctl.d = d)
         => host'[Env(d)].service[s] = Target(d)
<1>1. IInv /\ Next => KeepsForward
  <2> SUFFICES ASSUME IInv, Next, NEW d \in Deployments, NEW t \in Started,
                      ledger[d].migration # "never-started", ctl.d = d,
                      t \in DOMAIN host[Env(d)].service,
                      host'[Env(d)].service[t] # host[Env(d)].service[t]
               PROVE  host'[Env(d)].service[t] = Target(d)
    OBVIOUS
  <2>0. Typed
    BY DEF IInv
  <2>1. PICK e \in Environments : e = Env(d)
    BY <2>0, Requests DEF Typed
  <2>2. PICK s \in Started : Start(s)
    BY <2>1, OnlyStartsRun
  <2>3. Does(s) /\ ctl.at \in {"run", "undo"}
    BY <2>2 DEF Start, Does
  <2>4. ctl.at = "run"
    BY <2>1, <2>3, AtUndo
  <2>5. /\ s \in Range(Services(e)) /\ (IF s = "exporter" THEN "monitoring" ELSE "runtime") \in Range(Files(e))
        /\ \A f \in Range(Files(e)) : host[e].file[f] = Target(d)
    BY <2>1, <2>3, <2>4, AtStart
  <2>6. PICK m : m = Target(d)
    OBVIOUS
  <2>7. host' = [host EXCEPT ![e].service[s] = m]
    BY <2>1, <2>2, <2>5, <2>6 DEF Start
  <2>8. m \in Releases
    BY <2>0, <2>6, Requests DEF Typed
  <2>9. \A x \in Range(Services(e)) : host'[e].service[x] = IF x = s THEN m ELSE host[e].service[x]
    BY <2>0, <2>5, <2>7, <2>8, ServiceReplaced
  <2>10. t \in Range(Services(e))
    BY <2>0, <2>1 DEF Typed, HostRows
  <2> QED
    BY <2>1, <2>6, <2>9, <2>10
<1>2. IInv /\ [Next]_vars => [KeepsForward]_vars
  BY <1>1
<1>3. NoWayBackAfterMigration <=> [][KeepsForward]_vars
  BY DEF NoWayBackAfterMigration
<1> QED
  BY <1>2, <1>3, Invariance, PTL DEF Spec
=============================================================================
