------------------------- MODULE ConfigLoaderProofs -------------------------
(***************************************************************************)
(* What holds of a load of the configuration for any timeouts and any      *)
(* number of keys that a source sets, while the file is replaced and the   *)
(* remote server answers what it likes.                                    *)
(***************************************************************************)
EXTENDS ConfigLoader, FiniteSetTheorems, TLAPS

\* How far Load is: the place of the last source that it has been through.
Reached == [start |-> 0, stat |-> 1, read |-> 1, env |-> 2, decide |-> 3,
            fetching |-> 3, unmarshal |-> 4, validate |-> 4, loaded |-> 4,
            failed |-> 4]

\* What the local sources amount to, and all of them.
Local == Overlay(Overlay(Default, seen["file"]), seen["env"])

Overlaid == Overlay(Local, seen["remote"])

LoadTypes ==
  /\ bs \in {"nil", "empty", "given"} /\ file \in Files
  /\ pc \in DOMAIN Reached
  /\ seen \in [{"file", "env", "remote"} -> Patches]
  /\ applied \in Seq({"default", "file", "env", "remote"})
  /\ waited \in 0 .. ClientTimeout
  /\ there \in Files \cup {"unknown"}

\* The configuration is what the sources read so far amount to; a source that
\* was not read yet amounts to nothing.
MergedInv ==
  /\ k = IF pc = "start" THEN NoPatch ELSE Overlaid
  /\ Reached[pc] < 2 => seen["file"] = NoPatch
  /\ Reached[pc] < 3 => seen["env"] = NoPatch
  /\ Reached[pc] < 4 => seen["remote"] = NoPatch

\* The list grows in the order of the sources.
ListOrderInv ==
  /\ Len(applied) <= Reached[pc]
  /\ \A i \in DOMAIN applied : Place[applied[i]] <= Reached[pc]
  /\ \A i, j \in DOMAIN applied :
       i < j => Place[applied[i]] < Place[applied[j]]

\* Who is on the list.
ListedInv ==
  /\ \A s \in {"file", "env", "remote"} :
       seen[s] # NoPatch => s \in Range(applied)
  /\ pc # "start" => "default" \in Range(applied)
  /\ pc \in {"start", "stat"} => there = "unknown"
  /\ pc = "read" => there \in {"toml", "malformed"}
  /\ pc \notin {"start", "stat", "failed"} => there # "denied"
  /\ pc \notin {"start", "stat", "read", "failed"} =>
       ("file" \in Range(applied) <=> there \in {"toml", "malformed"})
  /\ pc \in {"unmarshal", "validate", "loaded"} =>
       ("remote" \in Range(applied) <=> fetched # NoURL)

\* The URL is decided once, by the local sources.
FetchedInv ==
  /\ Reached[pc] < 3 \/ pc = "decide" => fetched = NoURL
  /\ pc = "fetching" => fetched # NoURL
  /\ pc \in {"fetching", "unmarshal", "validate", "loaded"} \/ fetched # NoURL =>
       fetched = Local["url"]

LoadInv == LoadTypes /\ MergedInv /\ ListOrderInv /\ ListedInv /\ FetchedInv

\* A patch gives each key a value of that key or leaves it alone.
LEMMA PatchFacts ==
  ASSUME NEW p \in Patches
  PROVE  /\ p \in [Keys -> (UNION {Values(key) : key \in Keys})
                                  \cup {"absent"}]
         /\ \A key \in Keys : p[key] \in Values(key) \cup {"absent"}
BY DEF Patches, Absent

LEMMA NoPatchIsPatch ==
  ASSUME LoaderAssumption
  PROVE  NoPatch \in Patches
<1>1. {key \in Keys : NoPatch[key] # Absent} = {}
  BY DEF NoPatch, Absent
<1>2. Cardinality({key \in Keys : NoPatch[key] # Absent}) = 0
  BY <1>1, FS_EmptySet
<1>3. NoPatch \in [Keys -> (UNION {Values(key) : key \in Keys})
                                         \cup {Absent}]
  BY DEF NoPatch
<1>4. \A key \in Keys : NoPatch[key] \in Values(key) \cup {Absent}
  BY DEF NoPatch
<1> QED
  BY <1>2, <1>3, <1>4 DEF Patches, LoaderAssumption

\* The effective timeout is positive and at most that of the client.
LEMMA LimitFacts ==
  ASSUME LoaderAssumption
  PROVE  Limit \in 1 .. ClientTimeout
<1>1. CASE k["wait"] = "short"
  <2>1. Asked = ShortTimeout
    BY <1>1 DEF Asked
  <2> QED BY <2>1 DEF Limit, LoaderAssumption
<1>2. CASE k["wait"] = "long"
  <2>1. Asked = LongTimeout
    BY <1>2 DEF Asked
  <2> QED BY <2>1 DEF Limit, LoaderAssumption
<1>3. CASE k["wait"] \notin {"short", "long"}
  <2>1. Asked = ClientTimeout
    BY <1>3 DEF Asked
  <2> QED BY <2>1 DEF Limit, LoaderAssumption
<1> QED BY <1>1, <1>2, <1>3

\* A patch that sets nothing changes nothing.
LEMMA OverlayNothing ==
  ASSUME NEW c, c = [key \in Keys |-> c[key]]
  PROVE  Overlay(c, NoPatch) = c
BY DEF Overlay, NoPatch

\* What is overlaid is a function on the keys.
LEMMA OverlayIsFunction ==
  ASSUME NEW c, NEW p
  PROVE  /\ Overlay(c, p) = [key \in Keys |-> Overlay(c, p)[key]]
         /\ DOMAIN Overlay(c, p) = Keys
BY DEF Overlay

LEMMA DefaultIsFunction ==
  Default = [key \in Keys |-> Default[key]]
BY DEF Default, Keys

\* The URL of the local sources is a URL.
LEMMA LocalURLType ==
  ASSUME LoadTypes
  PROVE  Local["url"] \in Values("url")
<1>1. /\ seen["file"]["url"] \in Values("url") \cup {"absent"}
      /\ seen["env"]["url"] \in Values("url") \cup {"absent"}
  BY PatchFacts DEF LoadTypes, Keys
<1>2. Default["url"] \in Values("url")
  BY DEF Default, Values
<1> QED
  BY <1>1, <1>2 DEF Local, Overlay, Keys, Absent

\* An element appended to the list is on it, and nobody is taken off.
LEMMA AppendRange ==
  ASSUME applied \in Seq({"default", "file", "env", "remote"}),
         NEW s \in {"default", "file", "env", "remote"},
         applied' = Append(applied, s)
  PROVE  /\ applied' \in Seq({"default", "file", "env", "remote"})
         /\ Len(applied') = Len(applied) + 1
         /\ DOMAIN applied = 1 .. Len(applied)
         /\ DOMAIN applied' = 1 .. Len(applied) + 1
         /\ \A i \in DOMAIN applied : applied'[i] = applied[i]
         /\ applied'[Len(applied) + 1] = s
         /\ Range(applied)' = Range(applied) \cup {s}
<1>1. /\ applied' \in Seq({"default", "file", "env", "remote"})
      /\ Len(applied') = Len(applied) + 1
      /\ DOMAIN applied = 1 .. Len(applied)
      /\ DOMAIN applied' = 1 .. Len(applied) + 1
      /\ \A i \in DOMAIN applied : applied'[i] = applied[i]
      /\ applied'[Len(applied) + 1] = s
      /\ Len(applied) \in Nat
  OBVIOUS
<1>2. Range(applied)' = Range(applied) \cup {s}
  BY <1>1 DEF Range
<1> QED BY <1>1, <1>2

\* The stages, each with how far it is.
LEMMA ReachedIs ==
  /\ DOMAIN Reached = {"start", "stat", "read", "env", "decide", "fetching",
                       "unmarshal", "validate", "loaded", "failed"}
  /\ Reached["start"] = 0
  /\ Reached["stat"] = 1 /\ Reached["read"] = 1
  /\ Reached["env"] = 2
  /\ Reached["decide"] = 3 /\ Reached["fetching"] = 3
  /\ Reached["unmarshal"] = 4 /\ Reached["validate"] = 4
  /\ Reached["loaded"] = 4 /\ Reached["failed"] = 4
BY DEF Reached

LEMMA PlaceIs ==
  /\ Place["default"] = 1 /\ Place["file"] = 2
  /\ Place["env"] = 3 /\ Place["remote"] = 4
BY DEF Place

LEMMA LoadBegins ==
  ASSUME LoaderAssumption, Init
  PROVE  LoadInv
<1>1. /\ bs \in {"nil", "empty", "given"} /\ file \in Files
      /\ pc = "start" /\ k = NoPatch /\ applied = <<>>
      /\ fetched = NoURL /\ waited = 0 /\ there = "unknown"
  BY DEF Init
<1>2. /\ seen \in [{"file", "env", "remote"} -> Patches]
      /\ \A s \in {"file", "env", "remote"} : seen[s] = NoPatch
  BY NoPatchIsPatch DEF Init
<1>3. /\ applied \in Seq({"default", "file", "env", "remote"})
      /\ Len(applied) = 0
      /\ DOMAIN applied = {}
  <2>1. applied = <<>>
    BY <1>1
  <2>2. Len(applied) = 0
    BY <2>1
  <2>3. DOMAIN applied = {}
    BY <2>1
  <2>4. applied \in Seq({"default", "file", "env", "remote"})
    BY <2>1
  <2> QED BY <2>2, <2>3, <2>4
<1>4. LoadTypes
  <2>1. pc \in DOMAIN Reached
    BY <1>1, ReachedIs
  <2>2. waited \in 0 .. ClientTimeout
    BY <1>1 DEF LoaderAssumption
  <2>3. there \in Files \cup {"unknown"}
    BY <1>1
  <2>4. bs \in {"nil", "empty", "given"} /\ file \in Files
    BY <1>1
  <2> QED BY <1>2, <1>3, <2>1, <2>2, <2>3, <2>4 DEF LoadTypes
<1>5. MergedInv
  BY <1>1, <1>2 DEF MergedInv
<1>6. ListOrderInv
  <2>1. Reached[pc] = 0
    BY <1>1, ReachedIs
  <2>2. Len(applied) <= Reached[pc]
    BY <1>3, <2>1
  <2> QED BY <1>3, <2>2 DEF ListOrderInv
<1>7. ListedInv
  BY <1>1, <1>2 DEF ListedInv
<1>8. FetchedInv
  BY <1>1 DEF FetchedInv
<1> QED BY <1>4, <1>5, <1>6, <1>7, <1>8 DEF LoadInv

LEMMA LoadDefaultKeeps ==
  ASSUME LoaderAssumption, LoadInv, LoadDefault
  PROVE  LoadInv'
<1>1. /\ pc = "start"
      /\ pc' \in {"stat", "env"}
      /\ bs' \in {"nil", "empty", "given"}
      /\ k' = Default
      /\ applied' = <<"default">>
      /\ UNCHANGED <<file, fetched, waited, seen, there>>
  BY DEF LoadInv, LoadTypes, LoadDefault, DefaultBootstrap
<1>2. /\ fetched = NoURL /\ there = "unknown"
      /\ \A s \in {"file", "env", "remote"} : seen[s] = NoPatch
  <2>1. Reached[pc] = 0
    BY <1>1, ReachedIs
  <2>2. fetched = NoURL
    BY <2>1 DEF LoadInv, FetchedInv
  <2>3. there = "unknown"
    BY <1>1 DEF LoadInv, ListedInv
  <2>4. \A s \in {"file", "env", "remote"} : seen[s] = NoPatch
    BY <2>1 DEF LoadInv, MergedInv
  <2> QED BY <2>2, <2>3, <2>4
<1>3. /\ applied' \in Seq({"default", "file", "env", "remote"})
      /\ Len(applied') = 1
      /\ DOMAIN applied' = {1}
      /\ applied'[1] = "default"
  BY <1>1
<1>4. Range(applied)' = {"default"}
  BY <1>3 DEF Range
<1>5. LoadTypes'
  BY <1>1, <1>3, ReachedIs DEF LoadInv, LoadTypes
<1>6. Local' = Default /\ Overlaid' = Default
  BY <1>1, <1>2, DefaultIsFunction, OverlayNothing DEF Local, Overlaid
<1>7. MergedInv'
  BY <1>1, <1>2, <1>6 DEF MergedInv
<1>8. ListOrderInv'
  BY <1>1, <1>3, ReachedIs, PlaceIs DEF ListOrderInv
<1>9. ListedInv'
  BY <1>1, <1>2, <1>4 DEF ListedInv
<1>10. FetchedInv'
  BY <1>1, <1>2 DEF FetchedInv
<1> QED BY <1>5, <1>7, <1>8, <1>9, <1>10 DEF LoadInv

\* A stage that reads no source.
LEMMA NothingMerged ==
  ASSUME LoadInv, UNCHANGED <<k, applied, seen>>,
         pc # "start", pc' # "start", pc' \in DOMAIN Reached,
         Reached[pc'] >= Reached[pc]
  PROVE  /\ MergedInv' /\ ListOrderInv'
         /\ Local' = Local /\ Range(applied)' = Range(applied)
<1>1. /\ k' = k /\ applied' = applied /\ seen' = seen
  OBVIOUS
<1>2. Local' = Local /\ Overlaid' = Overlaid
  BY <1>1 DEF Local, Overlaid
<1>3. Range(applied)' = Range(applied)
  BY <1>1 DEF Range
<1>4. Reached[pc] \in Nat /\ Reached[pc'] \in Nat
  BY ReachedIs DEF LoadInv, LoadTypes
<1>5. MergedInv'
  BY <1>1, <1>2, <1>4 DEF LoadInv, MergedInv
<1>6. ListOrderInv'
  <2>1. Len(applied) \in Nat /\ DOMAIN applied = 1 .. Len(applied)
    BY DEF LoadInv, LoadTypes
  <2>2. \A i \in DOMAIN applied : Place[applied[i]] \in Nat
    BY PlaceIs, <2>1 DEF LoadInv, LoadTypes
  <2> QED BY <1>1, <1>4, <2>1, <2>2 DEF LoadInv, ListOrderInv
<1> QED BY <1>2, <1>3, <1>5, <1>6

\* A source is read when no later one was.
LEMMA SourceMerged ==
  ASSUME LoaderAssumption, LoadInv,
         NEW s \in {"file", "env", "remote"}, NEW p \in Patches,
         Merge(s, p),
         pc # "start", pc' # "start", pc' \in DOMAIN Reached,
         Reached[pc] < Place[s], Reached[pc'] = Place[s]
  PROVE  /\ seen' \in [{"file", "env", "remote"} -> Patches]
         /\ applied' \in Seq({"default", "file", "env", "remote"})
         /\ MergedInv' /\ ListOrderInv'
         /\ Range(applied)' = Range(applied) \cup {s}
         /\ \A t \in {"file", "env", "remote"} \ {s} : seen'[t] = seen[t]
         /\ s = "remote" => Local' = Local
<1>1. /\ k' = Overlay(k, p)
      /\ seen' = [seen EXCEPT ![s] = p]
      /\ applied' = Append(applied, s)
  BY DEF Merge
<1>2. /\ seen' \in [{"file", "env", "remote"} -> Patches]
      /\ \A t \in {"file", "env", "remote"} \ {s} : seen'[t] = seen[t]
      /\ seen'[s] = p
  BY <1>1 DEF LoadInv, LoadTypes
<1>3. /\ applied' \in Seq({"default", "file", "env", "remote"})
      /\ Len(applied') = Len(applied) + 1 /\ Len(applied) \in Nat
      /\ DOMAIN applied = 1 .. Len(applied)
      /\ DOMAIN applied' = 1 .. Len(applied) + 1
      /\ \A i \in DOMAIN applied : applied'[i] = applied[i]
      /\ applied'[Len(applied) + 1] = s
      /\ Range(applied)' = Range(applied) \cup {s}
  BY <1>1, AppendRange DEF LoadInv, LoadTypes
<1>4. Reached[pc] \in 0 .. 4 /\ Place[s] \in 2 .. 4
  BY ReachedIs, PlaceIs DEF LoadInv, LoadTypes
<1>5. ListOrderInv'
  <2>1. Len(applied') <= Reached[pc']
    BY <1>3, <1>4 DEF LoadInv, ListOrderInv
  <2>2. \A i \in DOMAIN applied : /\ Place[applied[i]] <= Reached[pc]
                                  /\ Place[applied[i]] \in Nat
    BY <1>3, PlaceIs DEF LoadInv, LoadTypes, ListOrderInv
  <2>3. \A i \in DOMAIN applied' : Place[applied'[i]] <= Reached[pc']
    BY <1>3, <1>4, <2>2
  <2>4. ASSUME NEW i \in DOMAIN applied', NEW j \in DOMAIN applied', i < j
        PROVE  Place[applied'[i]] < Place[applied'[j]]
    <3>1. i \in DOMAIN applied
      BY <1>3, <2>4
    <3>2. CASE j \in DOMAIN applied
      BY <1>3, <2>4, <3>1, <3>2 DEF LoadInv, ListOrderInv
    <3>3. CASE j = Len(applied) + 1
      BY <1>3, <1>4, <2>2, <3>1, <3>3
    <3> QED BY <1>3, <3>2, <3>3
  <2> QED BY <2>1, <2>3, <2>4 DEF ListOrderInv
<1>6. k = Overlaid
  BY DEF LoadInv, MergedInv
<1>7. CASE s = "file"
  <2>1. \A t \in {"file", "env", "remote"} : seen[t] = NoPatch
    BY <1>4, <1>7, PlaceIs DEF LoadInv, MergedInv
  <2>2. Overlaid = Default
    BY <2>1, DefaultIsFunction, OverlayNothing DEF Overlaid, Local
  <2>3. Overlaid' = Overlay(Default, p)
    BY <1>2, <1>7, <2>1, OverlayIsFunction, OverlayNothing DEF Overlaid, Local
  <2>4. MergedInv'
    BY <1>1, <1>2, <1>6, <1>7, <2>1, <2>2, <2>3, PlaceIs DEF MergedInv
  <2> QED BY <1>2, <1>3, <1>5, <1>7, <2>4
<1>8. CASE s = "env"
  <2>1. \A t \in {"env", "remote"} : seen[t] = NoPatch
    BY <1>4, <1>8, PlaceIs DEF LoadInv, MergedInv
  <2>2. Overlaid = Overlay(Default, seen["file"])
    BY <2>1, OverlayIsFunction, OverlayNothing DEF Overlaid, Local
  <2>3. Overlaid' = Overlay(Overlay(Default, seen["file"]), p)
    BY <1>2, <1>8, <2>1, OverlayIsFunction, OverlayNothing DEF Overlaid, Local
  <2>4. MergedInv'
    BY <1>1, <1>2, <1>6, <1>8, <2>1, <2>2, <2>3, PlaceIs DEF MergedInv
  <2> QED BY <1>2, <1>3, <1>5, <1>8, <2>4
<1>9. CASE s = "remote"
  <2>1. seen["remote"] = NoPatch
    BY <1>4, <1>9, PlaceIs DEF LoadInv, MergedInv
  <2>2. Overlaid = Local
    BY <2>1, OverlayIsFunction, OverlayNothing DEF Overlaid, Local
  <2>3. Local' = Local
    BY <1>2, <1>9 DEF Local
  <2>4. Overlaid' = Overlay(Local, p)
    BY <1>2, <1>9, <2>3 DEF Overlaid
  <2>5. MergedInv'
    BY <1>1, <1>6, <1>9, <2>2, <2>4, PlaceIs DEF MergedInv
  <2> QED BY <1>2, <1>3, <1>5, <1>9, <2>3, <2>5
<1> QED BY <1>7, <1>8, <1>9

LEMMA StatKeeps ==
  ASSUME LoaderAssumption, LoadInv, Stat
  PROVE  LoadInv'
<1>1. /\ pc = "stat" /\ there' = file
      /\ UNCHANGED <<bs, file, k, applied, fetched, waited, seen>>
      /\ \/ file = "absent" /\ pc' = "env"
         \/ file = "denied" /\ pc' = "failed"
         \/ file \notin {"absent", "denied"} /\ pc' = "read"
  BY DEF Stat
<1>2. pc' \in DOMAIN Reached /\ Reached[pc'] >= Reached[pc]
  BY <1>1, ReachedIs
<1>3. /\ MergedInv' /\ ListOrderInv' /\ Local' = Local
      /\ Range(applied)' = Range(applied)
  BY <1>1, <1>2, NothingMerged
<1>4. /\ file \in {"absent", "denied", "malformed", "toml"} /\ fetched = NoURL
      /\ "default" \in Range(applied)
      /\ \A s \in {"file", "env", "remote"} : seen[s] = NoPatch
  BY <1>1, ReachedIs DEF LoadInv, LoadTypes, Files, FetchedInv, ListedInv, MergedInv
<1>5. "file" \notin Range(applied)
  BY <1>1, ReachedIs, PlaceIs DEF LoadInv, ListOrderInv, Range
<1>6. LoadTypes'
  BY <1>1, <1>2 DEF LoadInv, LoadTypes
<1>7. ListedInv'
  BY <1>1, <1>3, <1>4, <1>5 DEF ListedInv
<1>8. FetchedInv'
  BY <1>1, <1>4 DEF FetchedInv
<1> QED BY <1>3, <1>6, <1>7, <1>8 DEF LoadInv

\* A load that fails keeps what it had.
LEMMA FailKeeps ==
  ASSUME LoaderAssumption, LoadInv, Fail,
         UNCHANGED <<bs, file, fetched, waited, there>>, pc # "start"
  PROVE  LoadInv'
<1>1. pc' = "failed" /\ UNCHANGED <<k, applied, seen>>
  BY DEF Fail
<1>2. pc' \in DOMAIN Reached /\ Reached[pc'] >= Reached[pc]
  BY <1>1, ReachedIs DEF LoadInv, LoadTypes
<1>3. /\ MergedInv' /\ ListOrderInv' /\ Local' = Local
      /\ Range(applied)' = Range(applied)
  BY <1>1, <1>2, NothingMerged
<1>4. LoadTypes'
  BY <1>1, <1>2 DEF LoadInv, LoadTypes
<1>5. ListedInv'
  BY <1>1, <1>3 DEF LoadInv, ListedInv
<1>6. FetchedInv'
  BY <1>1, <1>3, ReachedIs DEF LoadInv, FetchedInv
<1> QED BY <1>3, <1>4, <1>5, <1>6 DEF LoadInv

LEMMA ReadFileKeeps ==
  ASSUME LoaderAssumption, LoadInv, ReadFile
  PROVE  LoadInv'
<1>1. pc = "read" /\ UNCHANGED <<bs, file, fetched, waited, there>>
  BY DEF ReadFile
<1>2. CASE Fail
  BY <1>1, <1>2, FailKeeps
<1>3. CASE (\E p \in Patches : Merge("file", p)) /\ pc' = "env"
  <2>1. PICK p \in Patches : Merge("file", p)
    BY <1>3
  <2>2. /\ seen' \in [{"file", "env", "remote"} -> Patches]
        /\ applied' \in Seq({"default", "file", "env", "remote"})
        /\ MergedInv' /\ ListOrderInv'
        /\ Range(applied)' = Range(applied) \cup {"file"}
        /\ \A t \in {"file", "env", "remote"} \ {"file"} : seen'[t] = seen[t]
    BY <1>1, <1>3, <2>1, SourceMerged, ReachedIs, PlaceIs
  <2>3. /\ there \in {"toml", "malformed"} /\ fetched = NoURL
    BY <1>1, ReachedIs DEF LoadInv, ListedInv, FetchedInv
  <2>4. LoadTypes'
    BY <1>1, <1>3, <2>2, ReachedIs DEF LoadInv, LoadTypes
  <2>5. ListedInv'
    BY <1>1, <1>3, <2>2, <2>3 DEF LoadInv, ListedInv
  <2>6. FetchedInv'
    BY <1>1, <1>3, <2>3 DEF FetchedInv
  <2> QED BY <2>2, <2>4, <2>5, <2>6 DEF LoadInv
<1> QED BY <1>2, <1>3 DEF ReadFile

LEMMA LoadEnvKeeps ==
  ASSUME LoaderAssumption, LoadInv, LoadEnv
  PROVE  LoadInv'
<1>1. /\ pc = "env" /\ pc' = "decide"
      /\ UNCHANGED <<bs, file, fetched, waited, there>>
  BY DEF LoadEnv
<1>2. fetched = NoURL
  BY <1>1, ReachedIs DEF LoadInv, FetchedInv
<1>3. FetchedInv'
  BY <1>1, <1>2 DEF FetchedInv
<1>4. CASE \E p \in Patches \ {NoPatch} : Merge("env", p)
  <2>1. PICK p \in Patches : Merge("env", p)
    BY <1>4
  <2>2. /\ seen' \in [{"file", "env", "remote"} -> Patches]
        /\ applied' \in Seq({"default", "file", "env", "remote"})
        /\ MergedInv' /\ ListOrderInv'
        /\ Range(applied)' = Range(applied) \cup {"env"}
        /\ \A t \in {"file", "env", "remote"} \ {"env"} : seen'[t] = seen[t]
    BY <1>1, <2>1, SourceMerged, ReachedIs, PlaceIs
  <2>3. LoadTypes'
    BY <1>1, <2>2, ReachedIs DEF LoadInv, LoadTypes
  <2>4. ListedInv'
    BY <1>1, <2>2 DEF LoadInv, ListedInv
  <2> QED BY <1>3, <2>2, <2>3, <2>4 DEF LoadInv
<1>5. CASE UNCHANGED <<k, applied, seen>>
  <2>1. /\ MergedInv' /\ ListOrderInv' /\ Local' = Local
        /\ Range(applied)' = Range(applied)
    BY <1>1, <1>5, NothingMerged, ReachedIs
  <2>2. LoadTypes'
    BY <1>1, <1>5, ReachedIs DEF LoadInv, LoadTypes
  <2>3. ListedInv'
    BY <1>1, <1>5, <2>1 DEF LoadInv, ListedInv
  <2> QED BY <1>3, <2>1, <2>2, <2>3 DEF LoadInv
<1> QED BY <1>4, <1>5 DEF LoadEnv

LEMMA DecideKeeps ==
  ASSUME LoaderAssumption, LoadInv, Decide
  PROVE  LoadInv'
<1>1. /\ pc = "decide" /\ fetched' = k["url"]
      /\ \/ k["url"] = NoURL /\ pc' = "unmarshal"
         \/ k["url"] # NoURL /\ pc' = "fetching"
      /\ UNCHANGED <<bs, file, k, applied, waited, seen, there>>
  BY DEF Decide, RemoteURL
<1>2. k = Local
  <2>1. seen["remote"] = NoPatch
    BY <1>1, ReachedIs DEF LoadInv, MergedInv
  <2> QED
    BY <1>1, <2>1, OverlayIsFunction, OverlayNothing DEF LoadInv, MergedInv, Overlaid, Local
<1>3. pc' \in DOMAIN Reached /\ Reached[pc'] >= Reached[pc]
  BY <1>1, ReachedIs
<1>4. /\ MergedInv' /\ ListOrderInv' /\ Local' = Local
      /\ Range(applied)' = Range(applied)
  BY <1>1, <1>3, NothingMerged
<1>5. "remote" \notin Range(applied)
  BY <1>1, ReachedIs, PlaceIs DEF LoadInv, ListOrderInv, Range
<1>6. LoadTypes'
  BY <1>1, <1>3 DEF LoadInv, LoadTypes
<1>7. ListedInv'
  BY <1>1, <1>4, <1>5 DEF LoadInv, ListedInv
<1>8. FetchedInv'
  BY <1>1, <1>2, <1>4, ReachedIs DEF FetchedInv
<1> QED BY <1>4, <1>6, <1>7, <1>8 DEF LoadInv

LEMMA AnswerKeeps ==
  ASSUME LoaderAssumption, LoadInv, Answer
  PROVE  LoadInv'
<1>1. pc = "fetching" /\ UNCHANGED <<bs, file, fetched, waited, there>>
  BY DEF Answer
<1>2. CASE Fail
  BY <1>1, <1>2, FailKeeps
<1>3. CASE (\E p \in Patches : Merge("remote", p)) /\ pc' = "unmarshal"
  <2>1. PICK p \in Patches : Merge("remote", p)
    BY <1>3
  <2>2. /\ seen' \in [{"file", "env", "remote"} -> Patches]
        /\ applied' \in Seq({"default", "file", "env", "remote"})
        /\ MergedInv' /\ ListOrderInv' /\ Local' = Local
        /\ Range(applied)' = Range(applied) \cup {"remote"}
        /\ \A t \in {"file", "env", "remote"} \ {"remote"} : seen'[t] = seen[t]
    BY <1>1, <1>3, <2>1, SourceMerged, ReachedIs, PlaceIs
  <2>3. fetched # NoURL /\ fetched = Local["url"]
    BY <1>1 DEF LoadInv, FetchedInv
  <2>4. LoadTypes'
    BY <1>1, <1>3, <2>2, ReachedIs DEF LoadInv, LoadTypes
  <2>5. ListedInv'
    BY <1>1, <1>3, <2>2, <2>3 DEF LoadInv, ListedInv
  <2>6. FetchedInv'
    BY <1>1, <1>3, <2>2, <2>3, ReachedIs DEF FetchedInv
  <2> QED BY <2>2, <2>4, <2>5, <2>6 DEF LoadInv
<1> QED BY <1>2, <1>3 DEF Answer

\* The configuration is looked at, and nothing of it changes.
LEMMA CheckKeeps ==
  ASSUME LoaderAssumption, LoadInv, Unmarshal \/ Validate
  PROVE  LoadInv'
<1>1. /\ pc \in {"unmarshal", "validate"} /\ pc' \in {"validate", "loaded", "failed"}
      /\ UNCHANGED <<bs, file, k, applied, fetched, waited, seen, there>>
  BY DEF Unmarshal, Validate
<1>2. pc' \in DOMAIN Reached /\ Reached[pc'] >= Reached[pc]
  BY <1>1, ReachedIs
<1>3. /\ MergedInv' /\ ListOrderInv' /\ Local' = Local
      /\ Range(applied)' = Range(applied)
  BY <1>1, <1>2, NothingMerged
<1>4. LoadTypes'
  BY <1>1, <1>2 DEF LoadInv, LoadTypes
<1>5. ListedInv'
  BY <1>1, <1>3 DEF LoadInv, ListedInv
<1>6. FetchedInv'
  BY <1>1, <1>3, ReachedIs DEF LoadInv, FetchedInv
<1> QED BY <1>3, <1>4, <1>5, <1>6 DEF LoadInv

\* The world around Load touches nothing that it has read.
LEMMA AroundKeeps ==
  ASSUME LoaderAssumption, LoadInv,
         Replace \/ Tick \/ UNCHANGED vars
  PROVE  LoadInv'
<1>1. UNCHANGED <<bs, pc, k, applied, fetched, seen, there>>
  BY DEF Replace, Tick, vars
<1>2. file' \in Files
  BY DEF Replace, Tick, vars, LoadInv, LoadTypes
<1>3. waited' \in 0 .. ClientTimeout
  <2>1. ClientTimeout \in Nat /\ waited \in 0 .. ClientTimeout
    BY DEF LoaderAssumption, LoadInv, LoadTypes
  <2> QED
    BY <2>1, LimitFacts DEF Replace, Tick, vars
<1>4. Local' = Local /\ Overlaid' = Overlaid
      /\ Range(applied)' = Range(applied)
  BY <1>1 DEF Local, Overlaid, Range
<1>5. LoadTypes'
  BY <1>1, <1>2, <1>3 DEF LoadInv, LoadTypes
<1>6. MergedInv' /\ FetchedInv'
  BY <1>1, <1>4 DEF LoadInv, MergedInv, FetchedInv
<1>7. ListOrderInv' /\ ListedInv'
  BY <1>1, <1>4 DEF LoadInv, ListOrderInv, ListedInv
<1> QED BY <1>5, <1>6, <1>7 DEF LoadInv

LEMMA LoadInvInductive ==
  ASSUME LoaderAssumption, LoadInv, [Next]_vars
  PROVE  LoadInv'
<1>1. CASE LoadDefault
  BY <1>1, LoadDefaultKeeps
<1>2. CASE Stat
  BY <1>2, StatKeeps
<1>3. CASE ReadFile
  BY <1>3, ReadFileKeeps
<1>4. CASE LoadEnv
  BY <1>4, LoadEnvKeeps
<1>5. CASE Decide
  BY <1>5, DecideKeeps
<1>6. CASE GiveUp
  BY <1>6, FailKeeps DEF GiveUp
<1>7. CASE Unmarshal \/ Validate
  BY <1>7, CheckKeeps
<1>8. CASE Answer
  BY <1>8, AnswerKeeps
<1>9. CASE Replace \/ Tick \/ UNCHANGED vars
  BY <1>9, AroundKeeps
<1>10. CASE Over
  <2>1. UNCHANGED vars
    BY <1>10 DEF Over, vars, vars
  <2> QED BY <2>1, AroundKeeps
<1> QED
  BY <1>1, <1>2, <1>3, <1>4, <1>5, <1>6, <1>7, <1>8, <1>9, <1>10
     DEF Next, Step

LEMMA LoadInvHolds ==
  ASSUME LoaderAssumption
  PROVE  Spec => []LoadInv
<1>1. Init => LoadInv
  BY LoadBegins
<1>2. LoadInv /\ [Next]_(vars) => LoadInv'
  BY LoadInvInductive DEF vars, vars
<1> QED BY <1>1, <1>2, PTL DEF Spec

\* The loader's state is well typed throughout, for any timeouts and any
\* number of keys in a source.
THEOREM LoadTypeCorrect ==
  ASSUME LoaderAssumption
  PROVE  Spec => []TypeOK
<1>1. LoadInv => TypeOK
  <2> SUFFICES ASSUME LoadInv PROVE TypeOK
    OBVIOUS
  <2>1. DOMAIN k = Keys
    BY OverlayIsFunction DEF LoadInv, MergedInv, Overlaid, NoPatch
  <2>2. fetched \in Values("url")
    <3>1. NoURL \in Values("url")
      BY DEF Values
    <3> QED BY <3>1, LocalURLType DEF LoadInv, FetchedInv
  <2>3. \A i \in DOMAIN applied : applied[i] \in {"default", "file", "env", "remote"}
    BY DEF LoadInv, LoadTypes
  <2>4. Len(applied) <= 4
    BY ReachedIs DEF LoadInv, LoadTypes, ListOrderInv
  <2>5. \A s \in DOMAIN seen : seen[s] \in Patches
    BY DEF LoadInv, LoadTypes
  <2> QED
    BY <2>1, <2>2, <2>3, <2>4, <2>5, ReachedIs DEF LoadInv, LoadTypes, TypeOK
<1> QED BY <1>1, LoadInvHolds, PTL

\* The last of the sources that sets a key, spelled out.
LEMMA LatestOfAll ==
  ASSUME NEW key \in Keys
  PROVE  Latest(key, <<"file", "env", "remote">>) = Overlaid[key]
<1> DEFINE src == <<"file", "env", "remote">>
           setting == {i \in DOMAIN src : seen[src[i]][key] # Absent}
           last == CHOOSE i \in setting : \A j \in setting : j <= i
<1>1. DOMAIN src = {1, 2, 3} /\ src[1] = "file" /\ src[2] = "env" /\ src[3] = "remote"
  OBVIOUS
<1> HIDE DEF src
<1>2. setting = {i \in {1, 2, 3} : seen[src[i]][key] # Absent}
  BY <1>1
<1>3. setting # {} => last \in setting /\ \A j \in setting : j <= last
  <2>1. setting # {} => \E i \in setting : \A j \in setting : j <= i
    <3>1. CASE 3 \in setting
      BY <1>2, <3>1
    <3>2. CASE 3 \notin setting /\ 2 \in setting
      BY <1>2, <3>2
    <3>3. CASE 3 \notin setting /\ 2 \notin setting
      BY <1>2, <3>3
    <3> QED BY <3>1, <3>2, <3>3
  <2> QED BY <2>1
<1>4. Latest(key, src) = IF setting = {} THEN Default[key]
                                                ELSE seen[src[last]][key]
  BY DEF Latest
<1>5. Overlaid[key] =
        IF seen["remote"][key] # Absent THEN seen["remote"][key]
        ELSE IF seen["env"][key] # Absent THEN seen["env"][key]
        ELSE IF seen["file"][key] # Absent THEN seen["file"][key]
        ELSE Default[key]
  BY DEF Overlaid, Local, Overlay
<1> HIDE DEF setting, last
<1>6. CASE 3 \in setting
  <2>1. last = 3
    BY <1>2, <1>3, <1>6
  <2> QED BY <1>1, <1>2, <1>4, <1>5, <1>6, <2>1 DEF src
<1>7. CASE 3 \notin setting /\ 2 \in setting
  <2>1. last = 2
    BY <1>2, <1>3, <1>7
  <2> QED BY <1>1, <1>2, <1>4, <1>5, <1>7, <2>1 DEF src
<1>8. CASE 3 \notin setting /\ 2 \notin setting /\ 1 \in setting
  <2>1. last = 1
    BY <1>2, <1>3, <1>8
  <2> QED BY <1>1, <1>2, <1>4, <1>5, <1>8, <2>1 DEF src
<1>9. CASE 3 \notin setting /\ 2 \notin setting /\ 1 \notin setting
  <2>1. setting = {}
    BY <1>2, <1>9
  <2> QED BY <1>1, <1>2, <1>4, <1>5, <1>9, <2>1 DEF src
<1> QED BY <1>6, <1>7, <1>8, <1>9

\* The same of the local ones.
LEMMA LatestOfLocals ==
  ASSUME NEW key \in Keys
  PROVE  Latest(key, <<"file", "env">>) = Local[key]
<1> DEFINE src == <<"file", "env">>
           setting == {i \in DOMAIN src : seen[src[i]][key] # Absent}
           last == CHOOSE i \in setting : \A j \in setting : j <= i
<1>1. DOMAIN src = {1, 2} /\ src[1] = "file" /\ src[2] = "env"
  OBVIOUS
<1> HIDE DEF src
<1>2. setting = {i \in {1, 2} : seen[src[i]][key] # Absent}
  BY <1>1
<1>3. setting # {} => last \in setting /\ \A j \in setting : j <= last
  <2>1. setting # {} => \E i \in setting : \A j \in setting : j <= i
    <3>1. CASE 2 \in setting
      BY <1>2, <3>1
    <3>2. CASE 2 \notin setting
      BY <1>2, <3>2
    <3> QED BY <3>1, <3>2
  <2> QED BY <2>1
<1>4. Latest(key, src) = IF setting = {} THEN Default[key]
                                                ELSE seen[src[last]][key]
  BY DEF Latest
<1>5. Local[key] =
        IF seen["env"][key] # Absent THEN seen["env"][key]
        ELSE IF seen["file"][key] # Absent THEN seen["file"][key]
        ELSE Default[key]
  BY DEF Local, Overlay
<1> HIDE DEF setting, last
<1>6. CASE 2 \in setting
  <2>1. last = 2
    BY <1>2, <1>3, <1>6
  <2> QED BY <1>1, <1>2, <1>4, <1>5, <1>6, <2>1 DEF src
<1>7. CASE 2 \notin setting /\ 1 \in setting
  <2>1. last = 1
    BY <1>2, <1>3, <1>7
  <2> QED BY <1>1, <1>2, <1>4, <1>5, <1>7, <2>1 DEF src
<1>8. CASE 2 \notin setting /\ 1 \notin setting
  <2>1. setting = {}
    BY <1>2, <1>8
  <2> QED BY <1>1, <1>2, <1>4, <1>5, <1>8, <2>1 DEF src
<1> QED BY <1>6, <1>7, <1>8

\* A loaded configuration has, key by key, the value of the last source that
\* sets it, and the remote patch was waited of the URL the local sources agree on.
THEOREM PrecedenceAlwaysHolds ==
  ASSUME LoaderAssumption
  PROVE  Spec => []PrecedenceHolds
<1>1. LoadInv => PrecedenceHolds
  <2> SUFFICES ASSUME LoadInv PROVE PrecedenceHolds
    OBVIOUS
  <2>1. ResultIsPrecedence
    <3> SUFFICES ASSUME pc = "loaded", NEW key \in Keys
                 PROVE  k[key] = Latest(key, <<"file", "env", "remote">>)
      BY DEF ResultIsPrecedence
    <3>1. k = Overlaid
      BY DEF LoadInv, MergedInv
    <3> QED BY <3>1, LatestOfAll
  <2>2. FetchesWhatLocalsSay
    <3>1. "url" \in Keys
      BY DEF Keys
    <3>2. Latest("url", <<"file", "env">>) = Local["url"]
      BY <3>1, LatestOfLocals
    <3> QED BY <3>2 DEF LoadInv, FetchedInv, FetchesWhatLocalsSay
  <2> QED BY <2>1, <2>2 DEF PrecedenceHolds
<1> QED BY <1>1, LoadInvHolds, PTL

\* AppliedSources lists every source that contributed, in the order they were
\* read, and none was left out in silence.
THEOREM AppliedAlwaysTrue ==
  ASSUME LoaderAssumption
  PROVE  Spec => []AppliedIsTrue
<1>1. LoadInv => AppliedIsTrue
  <2> SUFFICES ASSUME LoadInv, pc = "loaded" PROVE AppliedIsTrue
    BY DEF AppliedIsTrue
  <2>1. DOMAIN seen = {"file", "env", "remote"}
    BY DEF LoadInv, LoadTypes
  <2>2. \A s \in DOMAIN seen : seen[s] # NoPatch => s \in Range(applied)
    BY <2>1 DEF LoadInv, ListedInv
  <2>3. \A i, j \in DOMAIN applied :
          i < j => Place[applied[i]] < Place[applied[j]]
    BY DEF LoadInv, ListOrderInv
  <2> QED BY <2>2, <2>3 DEF LoadInv, ListedInv, AppliedIsTrue
<1> QED BY <1>1, LoadInvHolds, PTL
=============================================================================
