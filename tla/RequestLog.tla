------------------------------ MODULE RequestLog ------------------------------
(* The log of recent tool calls (mcp/request-log.ts), which /mcp/recent-calls *)
(* answers from (mcp/server.ts): calls run at the same time and end in any    *)
(* order, while newer calls push older ones out of the ring.                  *)
EXTENDS Selection, FiniteSets

CONSTANTS
  MaxCalls,  \* MAX_CALLS, the size of the ring
  Used,      \* bound: the tools that are called
  Calls,     \* bound: calls made
  LastMs,    \* bound: the clock
  None       \* null

LogBounds ==
  MaxCalls \in Nat \ {0} /\ Calls \in Nat /\ LastMs \in Nat /\ None \notin Int

VARIABLES
  calls,      \* the ring, oldest first
  nextCallId,
  calling,    \* ids of the calls that have not returned
  fates,      \* of every call made: what was asked and how it went
  ms          \* Date.now()

logVars == <<calls, nextCallId, calling, fates, ms>>

Init ==
  /\ calls = <<>>
  /\ nextCallId = 1
  /\ calling = {}
  /\ fates = <<>>
  /\ ms = 0

--------------------------------------------------------------------------------
(* What an entry tells of a call.                                               *)

(* The arguments of the tools that are registered.                              *)
Arguments ==
  [search_memories    |-> {"query", "source_app", "source", "source_prefix", "since",
                           "until", "limit", "cursor", "repo_path", "metadata_match"},
   find_clusters      |-> {"since", "until", "window_hours", "format", "repo_path",
                           "group_by", "page_size", "representative_limit", "cursor"},
   get_atoms          |-> {"atom_ids", "fields", "format", "prefer", "cursor"},
   get_atom           |-> {"id"},
   echo_ping          |-> {"message"},
   wait_for_new_turns |-> {"sources", "source_prefix", "since", "timeout", "repo_path"},
   echo_resolve_mru   |-> {"sources", "repo_path"}]

Tools == DOMAIN Arguments

(* Those that name a format or a bound, and are logged as they are.             *)
Verbatim(tool) ==
  CASE tool = "search_memories"    -> {"source_app", "since", "until", "limit"}
    [] tool = "find_clusters"      -> {"since", "until", "window_hours", "format",
                                       "group_by", "page_size", "representative_limit"}
    [] tool = "get_atoms"          -> {"format", "prefer"}
    [] tool = "wait_for_new_turns" -> {"since", "timeout"}
    [] OTHER                       -> {}

(* arg_keys, and the values; of the others a length, a count or their presence. *)
projectArgs(tool, given) ==
  [keys |-> given, values |-> given \cap Verbatim(tool)]

(* The kinds of a result: counts and presences of what the tool returned, or    *)
(* the length of the error text.                                                *)
projectResult(tool) == [result_type |-> tool]
projectError == [result_type |-> "error"]

--------------------------------------------------------------------------------
(* instrumentMcpServer                                                          *)

Entry(id, tool, given) ==
  [id |-> id, ts |-> ms, tool |-> tool, args |-> projectArgs(tool, given),
   result |-> None, duration |-> None, status |-> "pending"]

(* while (calls.length > MAX_CALLS) calls.shift()                               *)
Newest(s) == SubSeq(s, 1 + (IF Len(s) > MaxCalls THEN Len(s) - MaxCalls ELSE 0), Len(s))

(* beginRecentMcpCall                                                           *)
Begin(tool, given) ==
  /\ nextCallId <= Calls
  /\ calls' = Newest(Append(calls, Entry(nextCallId, tool, given)))
  /\ calling' = calling \cup {nextCallId}
  /\ fates' = Append(fates, [tool |-> tool, given |-> given, began |-> ms,
                             ended |-> None, status |-> "pending"])
  /\ nextCallId' = nextCallId + 1
  /\ UNCHANGED ms

(* Mutant: the entry is looked for at the place its id had before eviction.     *)
EntriesAtPlace(id) == {id} \cap DOMAIN calls

EntriesOf(id) == {i \in DOMAIN calls : calls[i].id = id}

(* finishRecentMcpCall and failRecentMcpCall: nothing, if the entry was evicted *)
(* in the meantime; the clock may have been set back.                           *)
Settle(id, status, result) ==
  calls' = [i \in DOMAIN calls |->
              IF i \in EntriesOf(id)
              THEN [calls[i] EXCEPT
                      !.status = status, !.result = result,
                      !.duration = IF ms > calls[i].ts THEN ms - calls[i].ts ELSE 0]
              ELSE calls[i]]

End(id, status, result) ==
  /\ Settle(id, status, result)
  /\ calling' = calling \ {id}
  /\ fates' = [fates EXCEPT ![id].ended = ms, ![id].status = status]
  /\ UNCHANGED <<nextCallId, ms>>

(* The tool returned, possibly an envelope with isError ...                     *)
Finish(id) ==
  \/ End(id, "ok", projectResult(fates[id].tool))
  \/ End(id, "error", projectError)

(* ... or it threw, and the error goes on to the transport.                     *)
Fail(id) == End(id, "error", projectError)

Clock ==
  /\ ms' \in {ms - 1, ms + 1} \cap (0..LastMs)
  /\ UNCHANGED <<calls, nextCallId, calling, fates>>

Next ==
  \/ \E tool \in Used : Begin(tool, Arguments[tool])
  \/ \E id \in calling : Finish(id) \/ Fail(id)
  \/ Clock

Spec == Init /\ [][Next]_logVars

(* readRecentMcpCalls, with the filters of the query string.                    *)
Read(since, until, statuses) ==
  Among(calls, {e \in ToSet(calls) : since <= e.ts /\ e.ts <= until /\ e.status \in statuses})

--------------------------------------------------------------------------------
Told(e) == [tool |-> e.tool, began |-> e.ts, status |-> e.status,
            duration |-> e.duration]

Fate(f) ==
  [tool |-> f.tool, began |-> f.began, status |-> f.status,
   duration |-> IF f.ended = None THEN None
                ELSE IF f.ended > f.began THEN f.ended - f.began ELSE 0]

(* A read with filters is the newest calls that pass them, in the order they    *)
(* were made, each with its own fate, whichever calls ended since or before.    *)
ReadsTheNewest ==
  \A since \in 0..LastMs, status \in {"pending", "ok", "error"} :
    LET kept == Newest([id \in DOMAIN fates |-> Fate(fates[id])])
    IN  [i \in DOMAIN Read(since, LastMs, {status}) |->
           Told(Read(since, LastMs, {status})[i])]
          = Among(kept, {f \in ToSet(kept) : f.began >= since /\ f.status = status})

(* What was asked or said is not in the log.                                    *)
Private == {"query", "source", "source_prefix", "cursor", "repo_path", "metadata_match",
            "atom_ids", "id", "message", "sources"}

NothingPrivate ==
  /\ \A i \in DOMAIN calls : calls[i].args.values \cap Private = {}
  /\ \A tool \in Tools : projectArgs(tool, Arguments[tool]).values \cap Private = {}

(* request-log.ts: what /mcp/recent-calls answers is what happened.             *)
LogTellsTheTruth == ReadsTheNewest /\ NothingPrivate
================================================================================
