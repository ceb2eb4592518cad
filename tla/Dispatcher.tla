----------------------------- MODULE Dispatcher -----------------------------
(***************************************************************************)
(* Dispatcher.h: processes registered under their names, enabled and        *)
(* disabled while the program runs; data goes to one that is enabled and    *)
(* accepts it.  The map holds unique_ptrs, which free a process when they   *)
(* are overwritten or erased.  A process is what it accepts, a set of data  *)
(* (external: the application's criteria).                                  *)
(***************************************************************************)
EXTENDS Integers, FiniteSets

CONSTANTS
  Names,       \* of processes
  Objects,     \* addresses of processes
  Data,        \* what is dispatched
  None         \* noneProcess; no object, no name

VARIABLES
  processes,   \* name -> address, for the names that have an entry
  memory,      \* address -> process, for those that are alive
  answered,    \* the last datum, and who dealt with it
  up,          \* the program runs
  registered   \* reference: name -> what the application registered

vars == << processes, memory, answered, up, registered >>

Without(f, k)    == [x \in DOMAIN f \ {k} |-> f[x]]
With(f, k, v)    == [x \in DOMAIN f \cup {k} |-> IF x = k THEN v ELSE f[x]]
Has(n)           == n \in DOMAIN processes
Process(name, a) == [name |-> name, accepts |-> a, isEnable |-> TRUE]
NoAnswer         == [data |-> None, by |-> None]

Init ==
  /\ processes = << >> /\ memory = << >> /\ registered = << >>
  /\ answered = NoAnswer /\ up = TRUE

\* addProcess of an object: operator[] and an assignment, which deletes the
\* process that had the name.
AddObject(n, a) ==
  /\ \E o \in Objects \ DOMAIN memory :
       /\ processes' = With(processes, n, o)
       /\ memory' = With(IF Has(n) THEN Without(memory, processes[n]) ELSE memory, o, Process(n, a))
  /\ registered' = With(registered, n, Process(n, a))
  /\ answered' = NoAnswer /\ UNCHANGED up

\* Mutant: the process that had the name is overwritten.
AddLamdaOverwrites(n, a) ==
  /\ \E o \in Objects \ DOMAIN memory :
       processes' = With(processes, n, o) /\ memory' = With(memory, o, Process(n, a))
  /\ registered' = IF Has(n) THEN registered ELSE With(registered, n, Process(n, a))
  /\ answered' = NoAnswer /\ UNCHANGED up

\* addProcess of two lambdas: the new process is made first; emplace does not
\* take it when the name has an entry, and it is deleted again.
AddLamda(n, a) ==
  /\ \E o \in Objects \ DOMAIN memory :
       IF Has(n) THEN UNCHANGED << processes, memory >>
       ELSE processes' = With(processes, n, o) /\ memory' = With(memory, o, Process(n, a))
  /\ registered' = IF Has(n) THEN registered ELSE With(registered, n, Process(n, a))
  /\ answered' = NoAnswer /\ UNCHANGED up

RemoveProcess(n) ==
  /\ memory' = IF Has(n) THEN Without(memory, processes[n]) ELSE memory
  /\ processes' = Without(processes, n)
  /\ registered' = Without(registered, n)
  /\ answered' = NoAnswer /\ UNCHANGED up

\* enableProcess and disableProcess: operator[] gives a name without an entry
\* a null pointer, through which the flag is written.
SetEnable(n, flag) ==
  /\ IF Has(n)
       THEN /\ memory' = [memory EXCEPT ![processes[n]].isEnable = flag]
            /\ registered' = [registered EXCEPT ![n].isEnable = flag]
            /\ UNCHANGED << processes, up >>
       ELSE /\ processes' = With(processes, n, None)
            /\ up' = FALSE
            /\ UNCHANGED << memory, registered >>
  /\ answered' = NoAnswer

\* The first process of the unordered map, which may be any, that takes it.
Proceed(d) ==
  LET takers == {n \in DOMAIN processes : LET p == memory[processes[n]] IN p.isEnable /\ d \in p.accepts}
  IN /\ \E n \in IF takers = {} THEN {None} ELSE takers : answered' = [data |-> d, by |-> n]
     /\ UNCHANGED << processes, memory, up, registered >>

\* ~Dispatcher, or the operating system after a crash; a new one is made.
Renew == /\ processes' = << >> /\ memory' = << >> /\ registered' = << >>
         /\ answered' = NoAnswer /\ up' = TRUE

Next ==
  \/ up /\ \/ \E n \in Names, a \in SUBSET Data : AddObject(n, a) \/ AddLamda(n, a)
           \/ \E n \in Names : RemoveProcess(n) \/ \E flag \in BOOLEAN : SetEnable(n, flag)
           \/ \E d \in Data : Proceed(d)
  \/ Renew

Spec == Init /\ [][Next]_vars
-----------------------------------------------------------------------------
\* Whatever mixture of registrations under the same names: a process that is
\* alive belongs to one entry, so that none leaks or is used after its deletion;
\* the first of several lambdas and the last of several objects counts, with the
\* flag it was last given; and a datum falls through to noneProcess only when no
\* registered process is enabled and accepts it.
Sound ==
  LET takers == {n \in DOMAIN registered : registered[n].isEnable /\ answered.data \in registered[n].accepts}
  IN up =>
     /\ {processes[n] : n \in DOMAIN processes} = DOMAIN memory
     /\ Cardinality(DOMAIN processes) = Cardinality(DOMAIN memory)
     /\ registered = [n \in DOMAIN processes |-> memory[processes[n]]]
     /\ answered.data # None => IF takers = {} THEN answered.by = None ELSE answered.by \in takers

\* A program that only enables and disables what it knows by name keeps running.
\* Not so: a name that is not registered is a null pointer (README section 5).
KeepsRunning == up
=============================================================================
