-------------------------- MODULE ProjectListCache --------------------------
(***************************************************************************)
(* The cache of one list of projects (project_list_cache) and the requests *)
(* that read through it.  Entries are kept under the generation that the   *)
(* reader saw first, and writers raise the generation after their write.   *)
(* Generations are only compared: a reader remembers whether the one that  *)
(* it saw is still the current one, and only that one's entry is kept.     *)
(***************************************************************************)
CONSTANTS Readers, Contents, None

VARIABLES
  content,  \* what the database would list now (the environment's)
  entry,    \* the entry of the current generation
  reading   \* of each reader: where it is, its generation and what it read

cacheVars == <<entry, reading>>

Idle == [at |-> "idle", current |-> FALSE, list |-> None]

Init == entry = None /\ reading = [r \in Readers |-> Idle]

\* A reader that finds an entry answers with it.
Lookup(r) ==
  /\ reading[r].at = "idle" /\ entry = None
  /\ reading' = [reading EXCEPT ![r] = [at |-> "query", current |-> TRUE, list |-> None]]
  /\ UNCHANGED entry

Query(r) ==
  /\ reading[r].at = "query"
  /\ reading' = [reading EXCEPT ![r].at = "store", ![r].list = content]
  /\ UNCHANGED entry

\* [Fault] The list is stored under the generation of this moment.
StoreNow(r) ==
  /\ reading[r].at = "store"
  /\ entry' = reading[r].list
  /\ reading' = [reading EXCEPT ![r] = Idle]

\* The list is stored under the generation of the lookup.
Store(r) ==
  /\ reading[r].at = "store"
  /\ entry' = IF reading[r].current THEN reading[r].list ELSE entry
  /\ reading' = [reading EXCEPT ![r] = Idle]

\* The call to Redis fails.
StoreFails(r) ==
  /\ reading[r].at = "store"
  /\ reading' = [reading EXCEPT ![r] = Idle] /\ UNCHANGED entry

Invalidate ==
  /\ entry' = None
  /\ reading' = [r \in Readers |-> [reading[r] EXCEPT !.current = FALSE]]

Expire == entry # None /\ entry' = None /\ UNCHANGED reading

ReaderStep(r) == Lookup(r) \/ Query(r) \/ Store(r) \/ StoreFails(r)

CacheTypeOK ==
  /\ entry \in Contents \cup {None}
  /\ reading \in [Readers -> [at : {"idle", "query", "store"}, current : BOOLEAN,
                              list : Contents \cup {None}]]
=============================================================================
