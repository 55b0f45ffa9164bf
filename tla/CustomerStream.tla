--------------------------- MODULE CustomerStream ---------------------------
(***************************************************************************)
(* What a customer sees of a conversation that is being translated: the    *)
(* history a page loads, then a stream that polls the database and sends   *)
(* frames with the cursor from which to resume.  Messages that may still   *)
(* become readable hold the cursor back while later ones are already sent. *)
(***************************************************************************)
EXTENDS TranslatedLog, SequencesExt, FiniteSetsExt

CONSTANTS
    PageLimit,     \* rows of one poll
    History,       \* rows of the first page
    Remembered,    \* positions beyond the cursor a registration remembers
    MaxDrops,      \* bound on broken connections and reloads
    MaxWire        \* bound on the frames under way when a page is published

ASSUME StreamAssumption ==
    PageLimit \in Nat \ {0} /\ History \in Nat \ {0} /\ Remembered \in Nat
    /\ MaxDrops \in Nat /\ MaxWire \in Nat

\* A cursor is a position; 0 stands for -1, before the first one.
VARIABLES
    stream,    \* the poll of the server: its cursors, the page it has read
    wire,      \* frames on their way to the browser
    client,    \* the messages on the page, Last-Event-ID
    drops

streaming == <<stream, wire, client, drops>>

Cursors == 0..MaxMessages

StreamTypeOK ==
    /\ stream \in [at : {"closed", "read", "publish"}, scan : Cursors, resume : Cursors,
                   page : Seq([cursor : Cursors, resume : Cursors]),
                   cursor : Cursors, sent : Seq(Cursors)]
    /\ wire \in Seq([cursor : Cursors, id : Cursors])
    /\ client \in [shown : SUBSET Positions, last : Cursors]
    /\ drops \in 0..MaxDrops

Closed == [at |-> "closed", scan |-> 0, resume |-> 0, page |-> << >>, cursor |-> 0, sent |-> << >>]

StreamInit == /\ stream = Closed /\ wire = << >> /\ drops = 0
              /\ client = [shown |-> {}, last |-> 0]

\* The reader's query: readable rows, and the earliest one that may become readable.
Visible(p) == log[p].sender = "CUSTOMER" \/ (~log[p].skipped /\ Safe(log[p]))
Held(p)    == log[p].sender \notin {"CUSTOMER", "SYSTEM"} /\ ~log[p].skipped /\ ~Safe(log[p])
Barrier    == {p \in Positions : Held(p)}

\* A set of numbers in increasing order.
InOrder(S) == CHOOSE f \in [1..Cardinality(S) -> S] :
                 \A i, j \in DOMAIN f : i < j => f[i] < f[j]

Rows(after, limit) ==
    LET rows   == InOrder({p \in Positions : p > after /\ Visible(p)})
        resume(p) == IF Barrier # {} /\ p > Min(Barrier) THEN Min(Barrier) - 1 ELSE p
    IN  [i \in 1..Min({limit, Len(rows)}) |-> [cursor |-> rows[i], resume |-> resume(rows[i])]]

Open == /\ stream.at = "closed"
        /\ stream' = [Closed EXCEPT !.at = "read", !.scan = client.last,
                                    !.resume = client.last, !.cursor = client.last]
        /\ UNCHANGED <<log, wire, client, drops>>

Read == /\ stream.at = "read"
        /\ stream' = [stream EXCEPT !.page = Rows(stream.scan, PageLimit), !.at = "publish"]
        /\ UNCHANGED <<log, wire, client, drops>>

-----------------------------------------------------------------------------
\* The registration: frames not sent before, and what it remembers of them.
\* st has the registry's cursor, the positions sent beyond it and the frames.

Forget(sent, cursor) ==
    LET later == InOrder({i \in DOMAIN sent : sent[i] > cursor})
        kept  == [k \in DOMAIN later |-> sent[later[k]]]
    IN  IF Len(kept) > Remembered THEN Tail(kept) ELSE kept

Frame(st, u) ==
    LET cursor == Max({st.cursor, u.resume}) IN
    IF \/ u.cursor <= st.cursor
       \/ cursor = st.cursor /\ u.cursor \in Range(st.sent)
    THEN st
    ELSE [cursor |-> cursor,
          sent   |-> Forget(IF u.cursor > cursor /\ u.cursor \notin Range(st.sent)
                            THEN Append(st.sent, u.cursor) ELSE st.sent, cursor),
          frames |-> Append(st.frames, [cursor |-> u.cursor, id |-> cursor])]

Registered(page) ==
    LET run[i \in 0..Len(page)] ==
          IF i = 0 THEN [cursor |-> stream.cursor, sent |-> stream.sent, frames |-> << >>]
                   ELSE Frame(run[i - 1], page[i])
    IN  run

Frames(page) == Registered(page)[Len(page)]

\* Mutant: the page is published although a repair may be behind it.
NeverBehind(page) == FALSE

\* A page read ahead is dropped when the held positions behind it have moved.
Behind(page) == stream.scan > stream.resume /\ \E i \in DOMAIN page : page[i].resume > stream.resume

\* Mutant: the poll goes on where its last page ended, also when nothing follows.
PublishOnward ==
    LET page == stream.page
        out  == Frames(page)
        resume == Max({stream.resume} \cup {page[i].resume : i \in DOMAIN page}) IN
    /\ stream.at = "publish" /\ Len(wire) < MaxWire
    /\ IF Behind(page) \/ page = << >>
       THEN /\ stream' = [stream EXCEPT !.at = "read", !.page = << >>]
            /\ UNCHANGED wire
       ELSE /\ stream' = [at |-> "read", page |-> << >>, resume |-> resume,
                          scan |-> Last(page).cursor, cursor |-> out.cursor, sent |-> out.sent]
            /\ wire' = wire \o out.frames
    /\ UNCHANGED <<log, client, drops>>

Publish ==
    LET page == stream.page
        out  == Frames(page)
        resume == Max({stream.resume} \cup {page[i].resume : i \in DOMAIN page}) IN
    /\ stream.at = "publish" /\ Len(wire) < MaxWire
    /\ IF Behind(page) \/ page = << >>
       THEN /\ stream' = [stream EXCEPT !.at = "read", !.page = << >>, !.scan = stream.resume]
            /\ UNCHANGED wire
       ELSE /\ stream' = [at |-> "read", page |-> << >>, resume |-> resume,
                          scan |-> IF Len(page) < PageLimit THEN resume ELSE Last(page).cursor,
                          cursor |-> out.cursor, sent |-> out.sent]
            /\ wire' = wire \o out.frames
    /\ UNCHANGED <<log, client, drops>>

-----------------------------------------------------------------------------
\* The browser.

Receive ==
    /\ wire # << >>
    /\ client' = [shown |-> client.shown \cup {Head(wire).cursor},
                  last  |-> IF Head(wire).id = 0 THEN client.last ELSE Head(wire).id]
    /\ wire' = Tail(wire)
    /\ UNCHANGED <<log, stream, drops>>

\* The connection breaks; frames under way are lost and EventSource reconnects.
Disconnect ==
    /\ stream.at # "closed" /\ drops < MaxDrops
    /\ drops' = drops + 1 /\ stream' = Closed /\ wire' = << >>
    /\ UNCHANGED <<log, client>>

\* A new page has the history and no Last-Event-ID.
Reload ==
    /\ drops < MaxDrops
    /\ drops' = drops + 1 /\ stream' = Closed /\ wire' = << >>
    /\ client' = [shown |-> {row.cursor : row \in Range(Rows(0, History))}, last |-> 0]
    /\ UNCHANGED log

StreamNext == Open \/ Read \/ Publish \/ Receive \/ Disconnect \/ Reload

-----------------------------------------------------------------------------
\* The cursor a reconnect would resume from is behind no message the customer
\* lacks: everything up to it is on the page, was skipped or is never shown.
NothingIsPassedBy == \A p \in 1..client.last :
    p \in client.shown \/ log[p].skipped \/ log[p].sender = "SYSTEM"

\* What the customer has read stays readable: nobody skips it afterwards and no
\* untranslated or system message ever got there, in a frame or a history.
ShownIsSafe == \A p \in client.shown \cup {wire[i].cursor : i \in DOMAIN wire} : Visible(p)
=============================================================================
