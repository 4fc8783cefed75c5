----------------------------- MODULE LogFollow -----------------------------
(***************************************************************************)
(* internal/provider/log.go: GetContainerLogsHandler.  With follow=true    *)
(* the handler starts a goroutine that copies the journal to the client,   *)
(* and waits for it to end or for the client to go, whatever is first.     *)
(* Follow and the journal are the library's (go-systemd, sdjournal).       *)
(***************************************************************************)
EXTENDS Naturals

CONSTANTS
    Requests,   \* the requests for the logs of one container
    MaxEntries  \* bound: the entries of its journal

VARIABLES
    entries,  \* how many entries the journal has
    client,   \* whether the client of a request is there
    handler,  \* where its handler is
    follower, \* and its goroutine
    pos,      \* the entries of the journal that are behind the reader
    reader,   \* whether the journal reader is open
    until,    \* the requests whose untilTime is closed
    errChan   \* those whose errChan holds a value

requestVars == <<client, handler, follower, pos, reader, until, errChan>>
vars == <<entries, requestVars>>

HandlerPcs == {"none", "copy", "select", "close", "over"}
FollowerPcs == {"none", "read", "write", "wait", "send", "over"}

TypeOK ==
    /\ entries \in 0..MaxEntries
    /\ client \in [Requests -> {"away", "there", "gone"}]
    /\ handler \in [Requests -> HandlerPcs]
    /\ follower \in [Requests -> FollowerPcs]
    /\ pos \in [Requests -> 0..MaxEntries]
    /\ reader \in [Requests -> {"none", "open", "closed"}]
    /\ until \subseteq Requests /\ errChan \subseteq Requests
    /\ \A r \in Requests : reader[r] = "open" <=> handler[r] \notin {"none", "over"}

Init ==
    /\ entries = 0
    /\ client = [r \in Requests |-> "away"]
    /\ handler = [r \in Requests |-> "none"]
    /\ follower = [r \in Requests |-> "none"]
    /\ pos = [r \in Requests |-> 0]
    /\ reader = [r \in Requests |-> "none"]
    /\ until = {}
    /\ errChan = {}

Set(f, r, value) == [f EXCEPT ![r] = value]

Logged ==
    /\ entries < MaxEntries
    /\ entries' = entries + 1
    /\ UNCHANGED requestVars

\* The client hangs up, or the server is closed: the context of the request is done.
ClientLeaves(r) ==
    /\ client[r] = "there"
    /\ client' = Set(client, r, "gone")
    /\ UNCHANGED <<entries, handler, follower, pos, reader, until, errChan>>

\* The options are bad or the journal cannot be opened: an error is the answer.
RequestRefused(r) ==
    /\ client[r] = "away"
    /\ client' = Set(client, r, "gone")
    /\ handler' = Set(handler, r, "over")
    /\ UNCHANGED <<entries, follower, pos, reader, until, errChan>>

\* The reader is opened somewhere in the journal (tailLines, sinceSeconds, sinceTime).
Opened(r, follow) ==
    /\ client[r] = "away"
    /\ client' = Set(client, r, "there")
    /\ reader' = Set(reader, r, "open")
    /\ handler' = Set(handler, r, IF follow THEN "select" ELSE "copy")
    /\ follower' = Set(follower, r, IF follow THEN "read" ELSE "none")
    /\ \E start \in 0..entries : pos' = Set(pos, r, start)
    /\ UNCHANGED <<entries, until, errChan>>

Request(r) == RequestRefused(r) \/ \E follow \in BOOLEAN : Opened(r, follow)

-----------------------------------------------------------------------------
(* The handler.                                                            *)

\* io.Copy ends with the journal, or when it cannot write to the client.
Copy(r) ==
    /\ handler[r] = "copy"
    /\ \/ /\ pos[r] < entries
          /\ pos' = Set(pos, r, pos[r] + 1)
          /\ UNCHANGED handler
       \/ /\ pos[r] = entries \/ client[r] = "gone"
          /\ handler' = Set(handler, r, "close")
          /\ UNCHANGED pos
    /\ UNCHANGED <<entries, client, follower, reader, until, errChan>>

\* The follower has ended first.
TakesError(r) ==
    /\ handler[r] = "select"
    /\ r \in errChan
    /\ errChan' = errChan \ {r}
    /\ handler' = Set(handler, r, "close")
    /\ UNCHANGED <<entries, client, follower, pos, reader, until>>

\* A handler that does not wait for the follower.
WaitsForNobody(r) ==
    /\ handler[r] = "select"
    /\ handler' = Set(handler, r, "close")
    /\ UNCHANGED <<entries, client, follower, pos, reader, until, errChan>>

\* The client has gone first.
SeesClientGo(r) ==
    /\ handler[r] = "select"
    /\ client[r] = "gone"
    /\ until' = until \cup {r}
    /\ handler' = Set(handler, r, "close")
    /\ UNCHANGED <<entries, client, follower, pos, reader, errChan>>

\* The deferred Close, whatever the follower does.
Close(r) ==
    /\ handler[r] = "close"
    /\ reader' = Set(reader, r, "closed")
    /\ handler' = Set(handler, r, "over")
    /\ UNCHANGED <<entries, client, follower, pos, until, errChan>>

HandlerStep(r) == Copy(r) \/ TakesError(r) \/ SeesClientGo(r) \/ Close(r)

-----------------------------------------------------------------------------
(* The follower: Follow reads an entry, looks at untilTime, and writes or  *)
(* waits.  A journal that is closed in the meantime has no defined answer. *)

FollowTo(r, label) == follower' = Set(follower, r, label)

\* Reading may fail; an entry that is read when untilTime is closed is dropped.
FollowRead(r) ==
    /\ follower[r] = "read"
    /\ pos' = IF pos[r] < entries THEN Set(pos, r, pos[r] + 1) ELSE pos
    /\ \/ FollowTo(r, "send")
       \/ r \notin until /\ FollowTo(r, IF pos[r] < entries THEN "write" ELSE "wait")
    /\ UNCHANGED <<entries, client, handler, reader, until, errChan>>

\* Writing fails some time after the client has gone.
FollowWrite(r) ==
    /\ follower[r] = "write"
    /\ FollowTo(r, "read") \/ (client[r] = "gone" /\ FollowTo(r, "send"))
    /\ UNCHANGED <<entries, client, handler, pos, reader, until, errChan>>

FollowWait(r) ==
    /\ follower[r] = "wait"
    /\ \/ r \in until /\ FollowTo(r, "send")
       \/ pos[r] < entries /\ FollowTo(r, "read")
    /\ UNCHANGED <<entries, client, handler, pos, reader, until, errChan>>

\* An errChan without a buffer takes a value only from a handler that waits.
Unbuffered(r) == handler[r] = "select"

\* errChan has room for one value.
Room(r) == r \notin errChan

FollowSend(r) ==
    /\ follower[r] = "send"
    /\ Room(r)
    /\ errChan' = errChan \cup {r}
    /\ FollowTo(r, "over")
    /\ UNCHANGED <<entries, client, handler, pos, reader, until>>

FollowerStep(r) == FollowRead(r) \/ FollowWrite(r) \/ FollowWait(r) \/ FollowSend(r)

\* systemk is started again: its requests are gone, the journal is not.
Restart ==
    /\ client' = [r \in Requests |-> "away"]
    /\ handler' = [r \in Requests |-> "none"]
    /\ follower' = [r \in Requests |-> "none"]
    /\ pos' = [r \in Requests |-> 0]
    /\ reader' = [r \in Requests |-> "none"]
    /\ until' = {}
    /\ errChan' = {}
    /\ UNCHANGED entries

\* The use of a closed reader, or of a response that is over, kills the process.
UsedAfterClose(r) ==
    /\ reader[r] = "closed"
    /\ follower[r] \in {"read", "write", "wait"}

-----------------------------------------------------------------------------
(* Properties                                                              *)

\* No goroutine of a request stays behind once its client has gone.
FollowerOver(r) == client[r] = "gone" /\ follower[r] \in {"none", "over"}

\* While the client is there, what follows the journal for it reads an open reader.
ReadsOpenJournal ==
    \A r \in Requests :
        client[r] = "there" /\ follower[r] \in {"read", "write", "wait"}
            => reader[r] = "open"
=============================================================================
