-------------------------------- MODULE Config --------------------------------
(***************************************************************************)
(* The configuration of a job (srv/config.go): the master loads a file and *)
(* validates it, and again when it makes its service; every other process  *)
(* gets it encoded, and finds its place in it by its address.  An address  *)
(* that is not specified is None.                                          *)
(***************************************************************************)
EXTENDS Integers, Sequences, FiniteSets

CONSTANTS
  None,     \* no address
  Files     \* what a file may have

VARIABLES
  c,       \* the Config
  outcome, \* of the calls of Validate: "read", "valid", "invalid", "fatal"
  calls    \* how often Validate was called: by LoadConfig, then by NewMaster

vars == <<c, outcome, calls>>

Init == c \in Files /\ outcome = "read" /\ calls = 0

\* Squads are derived from machines, which is not implemented: log.Fatal.
AllocateSquadsAndAggregators == outcome' = "fatal" /\ UNCHANGED c

\* As Matches below, against the number that the file has.
MatchesFile(s) == Len(s.Loaders) = c.NumVShards /\ Len(s.Samplers) = c.NumVShards

Matches(s) == /\ Len(s.Loaders) = Len(c.Aggregators)
              /\ Len(s.Samplers) = Len(c.Aggregators)

\* Names and addresses of the job and of the master are taken to be there.
Validate ==
  /\ outcome \in {"read", "valid"} /\ calls < 2
  /\ calls' = calls + 1
  /\ IF c.Aggregators = <<>> /\ c.Squads = <<>>
     THEN IF c.Machines = {} \/ c.NumVShards <= 0
          THEN outcome' = "invalid" /\ UNCHANGED c
          ELSE AllocateSquadsAndAggregators
     ELSE IF c.Aggregators = <<>> \/ c.Squads = <<>>
     THEN outcome' = "invalid" /\ UNCHANGED c
     ELSE /\ c' = [c EXCEPT !.NumVShards = Len(c.Aggregators)]
          /\ outcome' = IF \A i \in DOMAIN c.Squads :
                             /\ c.Squads[i].Coordinator # None
                             /\ Matches(c.Squads[i])
                        THEN "valid" ELSE "invalid"

Stopped == (outcome \in {"invalid", "fatal"} \/ calls = 2) /\ UNCHANGED vars

Next == Validate \/ Stopped

Spec == Init /\ [][Next]_vars

-----------------------------------------------------------------------------
(* Ids: the first index of an address, or -1; from 1 here, from 0 there.      *)

FirstIndex(s, addr) ==
  IF \E i \in DOMAIN s : s[i] = addr
  THEN CHOOSE i \in DOMAIN s : s[i] = addr /\ \A j \in DOMAIN s : s[j] = addr => i <= j
  ELSE -1

AggregatorId(addr) == FirstIndex(c.Aggregators, addr)

SquadId(addr) == FirstIndex([i \in DOMAIN c.Squads |-> c.Squads[i].Coordinator], addr)

\* As WorkerId below, but the squad that has the worker is taken for its own.
WorkerIdAnywhere(coord, worker, kind) ==
  IF \E s \in DOMAIN c.Squads : FirstIndex(c.Squads[s][kind], worker) > 0
  THEN LET s == CHOOSE s \in DOMAIN c.Squads : FirstIndex(c.Squads[s][kind], worker) > 0
       IN  <<s, FirstIndex(c.Squads[s][kind], worker)>>
  ELSE <<-1, -1>>

\* LoaderId and SamplerId.
WorkerId(coord, worker, kind) ==
  LET s == SquadId(coord)
      i == IF s > 0 THEN FirstIndex(c.Squads[s][kind], worker) ELSE -1
  IN  IF i > 0 THEN <<s, i>> ELSE <<-1, -1>>

-----------------------------------------------------------------------------
(* Properties. *)

\* What the models of master and squads assume: a job that starts has aggregators
\* and squads, and each squad a loader and a sampler for every vshard, of which
\* there are as many as aggregators, whatever NumVShards the file has.
ValidJobsAreWhole ==
  outcome = "valid" =>
    /\ Len(c.Aggregators) > 0 /\ Len(c.Squads) > 0
    /\ c.NumVShards = Len(c.Aggregators)
    /\ \A i \in DOMAIN c.Squads :
         /\ Len(c.Squads[i].Loaders) = c.NumVShards
         /\ Len(c.Squads[i].Samplers) = c.NumVShards

\* In a valid job a worker finds the place that it was started for, also when
\* another squad has a worker at the same address, as long as no two coordinators
\* and no two workers of its squad have one: Validate does not reject those.
Distinct(s) == \A i, j \in DOMAIN s : s[i] = s[j] => i = j

WorkersFindTheirPlace ==
  outcome = "valid" /\ Distinct([i \in DOMAIN c.Squads |-> c.Squads[i].Coordinator]) =>
    \A s \in DOMAIN c.Squads, kind \in {"Loaders", "Samplers"} :
      Distinct(c.Squads[s][kind]) =>
        \A i \in DOMAIN c.Squads[s][kind] :
          WorkerId(c.Squads[s].Coordinator, c.Squads[s][kind][i], kind) = <<s, i>>
=============================================================================
