---------------------------- MODULE ConfigLoader ----------------------------
(***************************************************************************)
(* Loader.Load (src/config/loader.go): one load of the configuration from  *)
(* the embedded default, the file of the environment, the HWHKIT__         *)
(* variables and the remote patch.  The file may be replaced or vanish     *)
(* while it is being looked at, and the remote server may answer anything, *)
(* late or never.                                                          *)
(*                                                                         *)
(* Of the configuration three keys are kept: remote.url and                *)
(* remote.timeout_ms, which the loader itself uses, and one that stands    *)
(* for all the others.                                                     *)
(***************************************************************************)
EXTENDS Naturals, Sequences, FiniteSets, Functions

CONSTANTS MaxSet,         \* bound: keys that one source sets
          ClientTimeout,  \* HTTPClient.Timeout, in ticks
          ShortTimeout,   \* a remote.timeout_ms below it
          LongTimeout     \* and one above

ASSUME LoaderAssumption ==
  /\ MaxSet \in Nat /\ ShortTimeout \in Nat \ {0}
  /\ ClientTimeout > ShortTimeout /\ LongTimeout > ClientTimeout
  /\ ClientTimeout \in Nat /\ LongTimeout \in Nat

Keys == {"url", "wait", "app"}

\* The empty string, which is no URL.
NoURL == "no URL"

\* mistyped: cannot become the type of its field; invalid: against its
\* validate tag.
Values(key) ==
  CASE key = "url"  -> {NoURL, "A", "B"}
    [] key = "wait" -> {"zero", "short", "long", "mistyped"}
    [] key = "app"  -> {"a", "b", "mistyped", "invalid"}

Absent == "absent"

Default == [url |-> NoURL, wait |-> "default", app |-> "default"]

Patches == {p \in [Keys -> (UNION {Values(key) : key \in Keys}) \cup {Absent}] :
              /\ \A key \in Keys : p[key] \in Values(key) \cup {Absent}
              /\ Cardinality({key \in Keys : p[key] # Absent}) <= MaxSet}

NoPatch == [key \in Keys |-> Absent]

Files == {"absent", "denied", "malformed", "toml"}

VARIABLES
  bs,      \* the BootstrapConfig: "nil", "empty" (no dir or no env) or "given"
  file,    \* the file config/{env}.toml
  pc,      \* where Load is
  k,       \* the merged configuration
  applied, \* AppliedSources
  fetched, \* the URL the remote patch was asked of, or NoURL
  waited,  \* ticks since then
  seen,    \* history: what each source held when it was read
  there    \* history: what Stat said of the file

vars == <<bs, file, pc, k, applied, fetched, waited, seen, there>>

Init ==
  /\ bs \in {"nil", "empty", "given"} /\ file \in Files
  /\ pc = "start" /\ k = NoPatch /\ applied = <<>>
  /\ fetched = NoURL /\ waited = 0
  /\ seen = [s \in {"file", "env", "remote"} |-> NoPatch]
  /\ there = "unknown"
-----------------------------------------------------------------------------
(* Steps of Load *)

\* koanf: a source overrides the keys it sets.
Overlay(c, p) == [key \in Keys |-> IF p[key] = Absent THEN c[key] ELSE p[key]]

Merge(source, p) ==
  /\ k' = Overlay(k, p)
  /\ seen' = [seen EXCEPT ![source] = p]
  /\ applied' = Append(applied, source)

Fail ==
  /\ pc' = "failed"
  /\ UNCHANGED <<k, applied, seen>>

\* A nil BootstrapConfig becomes the default one, which names dev of config
\* unless HWHKIT_ENV and HWHKIT_CONFIG_DIR say otherwise.
DefaultBootstrap == IF bs = "nil" THEN "given" ELSE bs

LoadDefault ==
  /\ pc = "start"
  /\ bs' = DefaultBootstrap
  /\ k' = Default
  /\ applied' = <<"default">>
  /\ pc' = IF bs' = "given" THEN "stat" ELSE "env"
  /\ UNCHANGED <<file, fetched, waited, seen, there>>

\* Mutant: a file that Stat cannot look at is none.
StatAnyError ==
  /\ pc = "stat"
  /\ there' = file
  /\ pc' = IF file \in {"absent", "denied"} THEN "env" ELSE "read"
  /\ UNCHANGED <<bs, file, k, applied, fetched, waited, seen>>

\* os.Stat: only an absent file may be left out.
Stat ==
  /\ pc = "stat"
  /\ there' = file
  /\ pc' = CASE file = "absent" -> "env"
             [] file = "denied" -> "failed"
             [] OTHER           -> "read"
  /\ UNCHANGED <<bs, file, k, applied, fetched, waited, seen>>

ReadFile ==
  /\ pc = "read"
  /\ \/ file = "toml" /\ (\E p \in Patches : Merge("file", p)) /\ pc' = "env"
     \/ file # "toml" /\ Fail
  /\ UNCHANGED <<bs, file, fetched, waited, there>>

\* The variables are always loaded and are listed if there is any.
LoadEnv ==
  /\ pc = "env"
  /\ \/ \E p \in Patches \ {NoPatch} : Merge("env", p)
     \/ UNCHANGED <<k, applied, seen>>
  /\ pc' = "decide"
  /\ UNCHANGED <<bs, file, fetched, waited, there>>

\* Mutant: the URL of the file, before the variables are loaded.
FileURL == IF seen["file"]["url"] = Absent THEN NoURL ELSE seen["file"]["url"]

RemoteURL == k["url"]

Decide ==
  /\ pc = "decide"
  /\ fetched' = RemoteURL
  /\ pc' = IF RemoteURL = NoURL THEN "unmarshal" ELSE "fetching"
  /\ UNCHANGED <<bs, file, k, applied, waited, seen, there>>

\* fetchRemote's context: remote.timeout_ms, or 5 s for one that is not positive
\* or not a number.
Asked ==
  CASE k["wait"] = "short" -> ShortTimeout
    [] k["wait"] = "long"  -> LongTimeout
    [] OTHER               -> ClientTimeout

\* Mutant: a client without a timeout of its own.
LimitAsked == Asked

\* The client of DefaultLoader has a timeout of 5 s, too.
Limit == IF Asked < ClientTimeout THEN Asked ELSE ClientTimeout

\* Mutant: without a positive remote.timeout_ms there is no timeout.
GiveUpIfAsked ==
  /\ pc = "fetching" /\ waited = Limit /\ k["wait"] \in {"short", "long"}
  /\ Fail
  /\ UNCHANGED <<bs, file, fetched, waited, there>>

GiveUp ==
  /\ pc = "fetching" /\ waited = Limit
  /\ Fail
  /\ UNCHANGED <<bs, file, fetched, waited, there>>

\* The server answers in time: a TOML body, or no connection, a status of 400
\* or more, a body that breaks off or one that is not TOML.
Answer ==
  /\ pc = "fetching" /\ waited < Limit
  /\ \/ (\E p \in Patches : Merge("remote", p)) /\ pc' = "unmarshal"
     \/ Fail
  /\ UNCHANGED <<bs, file, fetched, waited, there>>

Unmarshal ==
  /\ pc = "unmarshal"
  /\ pc' = IF \E key \in Keys : k[key] = "mistyped" THEN "failed" ELSE "validate"
  /\ UNCHANGED <<bs, file, k, applied, fetched, waited, seen, there>>

Validate ==
  /\ pc = "validate"
  /\ pc' = IF k["app"] = "invalid" THEN "failed" ELSE "loaded"
  /\ UNCHANGED <<bs, file, k, applied, fetched, waited, seen, there>>
-----------------------------------------------------------------------------
(* Around it *)

\* A deployment replaces or removes the file.
Replace ==
  /\ pc \in {"start", "stat", "read"}
  /\ file' \in Files \ {file}
  /\ UNCHANGED <<bs, pc, k, applied, fetched, waited, seen, there>>

Tick ==
  /\ pc = "fetching"
  /\ waited' = IF waited < Limit THEN waited + 1 ELSE waited
  /\ UNCHANGED <<bs, file, pc, k, applied, fetched, seen, there>>

Ended == pc \in {"loaded", "failed"}

Over == Ended /\ UNCHANGED vars

Step == LoadDefault \/ Stat \/ ReadFile \/ LoadEnv \/ Decide \/ GiveUp \/ Unmarshal \/ Validate

Next == Step \/ Answer \/ Replace \/ Tick \/ Over

\* Load runs and time passes; the server need not answer.
Spec == Init /\ [][Next]_vars /\ WF_vars(Step) /\ WF_vars(Tick)
-----------------------------------------------------------------------------
(* Properties *)

\* The order in which the sources are read.
Place == [default |-> 1, file |-> 2, env |-> 3, remote |-> 4]

TypeOK ==
  /\ bs \in {"nil", "empty", "given"} /\ file \in Files
  /\ pc \in {"start", "stat", "read", "env", "decide", "fetching", "unmarshal", "validate",
             "loaded", "failed"}
  /\ DOMAIN k = Keys
  /\ \A i \in DOMAIN applied : applied[i] \in {"default", "file", "env", "remote"}
  /\ Len(applied) <= 4
  /\ fetched \in Values("url") /\ waited \in 0 .. ClientTimeout
  /\ \A s \in DOMAIN seen : seen[s] \in Patches
  /\ there \in Files \cup {"unknown"}

\* Reference: the value of key in the last of the sources that sets it.
Latest(key, sources) ==
  LET setting == {i \in DOMAIN sources : seen[sources[i]][key] # Absent}
  IN  IF setting = {} THEN Default[key]
      ELSE LET last == CHOOSE i \in setting : \A j \in setting : j <= i
           IN  seen[sources[last]][key]

\* "default -> env file -> ENV -> remote": a loaded configuration has, key by
\* key, the value of the last source that sets it, though the sources are read
\* at different times and set different keys.
ResultIsPrecedence ==
  pc = "loaded" => \A key \in Keys : k[key] = Latest(key, <<"file", "env", "remote">>)

\* AppliedSources, shown on /info, lists every source that contributed and in
\* that order; no source that was there is left out in silence: a file that
\* cannot be looked at, that is no TOML, or that vanishes after Stat fails the
\* load.
AppliedIsTrue ==
  pc = "loaded" =>
    /\ \A s \in DOMAIN seen : seen[s] # NoPatch => s \in Range(applied)
    /\ "default" \in Range(applied)
    /\ \A i, j \in DOMAIN applied : i < j => Place[applied[i]] < Place[applied[j]]
    /\ "file" \in Range(applied) <=> there \in {"toml", "malformed"}
    /\ there # "denied"
    /\ "remote" \in Range(applied) <=> fetched # NoURL

\* The remote patch is asked of the URL that the local sources agree on, an
\* empty variable turns it off, and a URL in the patch itself, though it ends
\* up in the configuration, is never followed.
FetchesWhatLocalsSay ==
  fetched # NoURL \/ pc = "loaded" =>
    fetched = Latest("url", <<"file", "env">>)

\* The precedence of the sources, for the result and for the loader itself.
PrecedenceHolds == ResultIsPrecedence /\ FetchesWhatLocalsSay

\* A server that never answers cannot keep the program from starting or
\* failing, whatever remote.timeout_ms is.
LoadEnds == <>Ended
=============================================================================
