---------------------------- MODULE ConfigProofs ----------------------------
(***************************************************************************)
(* For any options, defaults, command lines and environments: a process     *)
(* that runs, runs on what it was given.  FlagGiven, FlagValue, Taken and   *)
(* InRange are never expanded: the argument is the order of the steps, not  *)
(* the values.                                                              *)
(***************************************************************************)
EXTENDS Config, TLAPS

\* What flags, environment and default make of option o.
Given(o) ==
    IF FlagGiven(args, o) THEN FlagValue(args, o)
    ELSE IF env[o] # Absent /\ Taken(Kind[o], env[o]) THEN env[o]
    ELSE Default[o]

\* The inductive invariant: setFlags is what package flag has seen, and stays
\* so; the fields are the flags and the defaults until the environment has
\* been applied, and what was given from then on; validate has seen them.
ConfigInv ==
    /\ step # "parse" => set = {o \in Options : FlagGiven(args, o)}
    /\ step = "env" =>
          cfg = [o \in Options |->
                   IF o \in set THEN FlagValue(args, o) ELSE Default[o]]
    /\ step \in {"validate", "valid", "run"} =>
          \A o \in Options : /\ cfg[o] = Given(o)
                             /\ ParseError(o) /\ env[o] # Absent => o \in set
    /\ step \in {"valid", "run"} => \A o \in Options : InRange(Kind[o], cfg[o])

\* main starts before parseFlags has read anything.
LEMMA ConfigInit == Init => ConfigInv
  BY DEF Init, ConfigInv

\* parseFlags, applyEnvOverrides, validate and main keep what the phase implies.
LEMMA ConfigStep == ConfigInv /\ [Next]_vars => ConfigInv'
<1> SUFFICES ASSUME ConfigInv, [Next]_vars PROVE ConfigInv'
  OBVIOUS
<1>1. CASE ParseFlags
  BY <1>1 DEF ParseFlags, ConfigInv
<1>2. CASE ApplyEnvOverrides
  <2>1. /\ step = "env" /\ step' \in {"nil", "validate"}
        /\ args' = args /\ env' = env /\ set' = set
    BY <1>2 DEF ApplyEnvOverrides
  <2>2. set = {o \in Options : FlagGiven(args, o)}
    BY <2>1 DEF ConfigInv
  <2>3. ASSUME NEW o \in Options PROVE cfg'[o] = Given(o)'
    <3>1. cfg'[o] = IF Override(o) /\ Taken(Kind[o], env[o]) THEN env[o] ELSE cfg[o]
      BY <1>2 DEF ApplyEnvOverrides
    <3>2. cfg[o] = IF o \in set THEN FlagValue(args, o) ELSE Default[o]
      BY <2>1 DEF ConfigInv
    <3> QED
      BY <2>1, <2>2, <3>1, <3>2 DEF Override, Given
  <2>4. ASSUME step' = "validate", NEW o \in Options, ParseError(o)', env'[o] # Absent
        PROVE  o \in set'
    BY <1>2, <2>1, <2>4 DEF ApplyEnvOverrides, FirstErr, Override, ParseError
  <2> QED
    BY <2>1, <2>2, <2>3, <2>4 DEF ConfigInv
<1>3. CASE Validate
  BY <1>3 DEF Validate, ConfigInv, Given, ParseError
<1>4. CASE Main
  BY <1>4 DEF Main, ConfigInv, Given, ParseError
<1>5. CASE Done \/ UNCHANGED vars
  BY <1>5 DEF Done, vars, ConfigInv, Given, ParseError
<1> QED
  BY <1>1, <1>2, <1>3, <1>4, <1>5 DEF Next

\* Flags before environment before defaults, through all the layers: what
\* parseFlags, applyEnvOverrides and validate leave in the configuration is
\* what was given, no layer below main replaces any of it, and firstErr lets no
\* number that cannot be parsed go by.
THEOREM PrecedenceHolds == Spec => []RunsAsConfigured
<1>1. ConfigInv => RunsAsConfigured
  BY AbsentAssumption DEF ConfigInv, RunsAsConfigured, Given, Used, ParseError
<1> QED
  BY <1>1, ConfigInit, ConfigStep, PTL DEF Spec
=============================================================================
