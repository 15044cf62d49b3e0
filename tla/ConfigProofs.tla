---------------------------- MODULE ConfigProofs ----------------------------
(***************************************************************************)
(* Loading and validation for files of any length, any environment and any *)
(* widths of integers in the right order.                                  *)
(***************************************************************************)
EXTENDS Config, SequenceTheorems, TLAPS

Clean(n) == \A i \in 1..n : ~LineIsBad(file[i])

(* The loops run one after the other. *)
Progress ==
    /\ file \in Seq(AnyLine) /\ env \in [Keys -> AnyText]
    /\ cfg = [k \in Keys |-> cfg[k]]
    /\ line_no \in 0..Len(file) /\ env_no \in 0..Len(EnvKeys)
    /\ env_no > 0 => line_no = Len(file)
    /\ result.status \in {"opening", "loading", "failed", "valid", "invalid"}
    /\ result.status = "opening" => line_no = 0 /\ env_no = 0
    /\ result.status \in {"valid", "invalid"} =>
          line_no = Len(file) /\ env_no = Len(EnvKeys)

(* As long as no error is returned, nothing bad has been passed over. *)
CleanSoFar ==
    result.status # "failed" => Clean(line_no) /\ \A k \in EnvRead : ~EnvIsBad(k)

(* What a returned error says. *)
ErrorIsTrue ==
    result.status = "failed" =>
        \/ result.line = 0 /\ result.code = "FileOpenFailed"
        \/ /\ result.line \in 1..Len(file)
           /\ Clean(result.line - 1) /\ LineIsBad(file[result.line])
        \/ /\ result.line = 0 /\ Clean(Len(file))
           /\ \E k \in EnvRead : EnvIsBad(k)

ConfigInv ==
    /\ Progress /\ CleanSoFar /\ ErrorIsTrue /\ LatestSourceWins
    /\ result.status = "valid" => ValidateConfig = "none"

(***************************************************************************)
(* The keys.                                                               *)
(***************************************************************************)
LEMMA EnvKeyFacts ==
  /\ Len(EnvKeys) = 8
  /\ \A i \in 1..8 : EnvKeys[i] \in Keys
  /\ Keys = {EnvKeys[i] : i \in 1..8}
<1>1. Len(EnvKeys) = 8 /\ DOMAIN EnvKeys = 1..8 BY DEF EnvKeys
<1> QED BY <1>1 DEF Keys

LEMMA RequiredAreKeys == Required \subseteq Keys
<1>1. /\ EnvKeys[2] = "listen.port" /\ EnvKeys[3] = "limits.max_connections"
      /\ EnvKeys[4] = "limits.max_message_bytes" /\ EnvKeys[5] = "timeouts.idle_ms"
      /\ EnvKeys[6] = "runtime.worker_threads"
  BY DEF EnvKeys
<1>2. {EnvKeys[2], EnvKeys[3], EnvKeys[4], EnvKeys[5], EnvKeys[6]} \subseteq Keys
  BY EnvKeyFacts
<1> QED BY <1>1, <1>2 DEF Required

(* The parsers accept what a text of their key means and nothing else: the *)
(* two checks of a port amount to its 16 bits.                             *)
LEMMA ParsedNumber ==
  ASSUME NEW max \in Nat, NEW t
  PROVE  ParseUint(max, t) =
           {n \in 0..max : ~t.padded /\ t.word \in DOMAIN Numerals /\ n = Numerals[t.word]}
  BY InputAssumption DEF ParseUint

LEMMA ParseIsMeaning ==
  ASSUME NEW k, NEW t
  PROVE  Parse(k, t) = Meaning(k, t)
<1>1. CASE k \notin Required BY <1>1 DEF Meaning
<1>2. CASE k = "listen.port"
  <2>1. MaxU16 \in Nat /\ MaxU32 \in Nat /\ MaxU16 <= MaxU32 BY ConfigAssumption
  <2>2. Parse(k, t) = {n \in ParseUint(MaxU32, t) : n <= MaxU16} BY <1>2 DEF Parse
  <2>3. Largest(k) = MaxU16 /\ k \in Required BY <1>2 DEF Largest, Required
  <2> QED BY <2>1, <2>2, <2>3, ParsedNumber DEF Meaning
<1>3. CASE k = "limits.max_message_bytes"
  <2>1. Parse(k, t) = ParseUint(MaxU64, t) /\ Largest(k) = MaxU64 /\ k \in Required
    BY <1>3 DEF Parse, Largest, Required
  <2> QED BY <2>1, ParsedNumber, ConfigAssumption DEF Meaning
<1>4. CASE k \in {"limits.max_connections", "timeouts.idle_ms", "runtime.worker_threads"}
  <2>1. Parse(k, t) = ParseUint(MaxU32, t) /\ Largest(k) = MaxU32 /\ k \in Required
    BY <1>4 DEF Parse, Largest, Required
  <2> QED BY <2>1, ParsedNumber, ConfigAssumption DEF Meaning
<1> QED BY <1>1, <1>2, <1>3, <1>4 DEF Required

LEMMA RequiredMeaning ==
  ASSUME NEW k \in Required, NEW t, NEW n \in Meaning(k, t)
  PROVE  n \in Nat /\ (k = "listen.port" => n <= MaxU16)
<1>1. n \in 0..Largest(k) BY DEF Meaning
<1>2. Largest(k) \in Nat /\ (k = "listen.port" => Largest(k) = MaxU16)
  BY ConfigAssumption DEF Largest
<1> QED BY <1>1, <1>2, ConfigAssumption

LEMMA DefaultIsConfig == DefaultConfig = [k \in Keys |-> DefaultConfig[k]]
  BY DEF DefaultConfig

LEMMA InitConfig == Init => ConfigInv
<1> SUFFICES ASSUME Init PROVE ConfigInv OBVIOUS
<1> USE DEF Init, Opening, Status
<1>1. Progress
  <2>1. file \in Seq(AnyLine) /\ env \in [Keys -> AnyText] BY InputAssumption
  <2>2. Len(file) \in Nat BY <2>1, LenProperties
  <2> QED BY <2>1, <2>2, EnvKeyFacts, DefaultIsConfig DEF Progress
<1>2. EnvRead = {} /\ 1..line_no = {} BY DEF EnvRead
<1>3. CleanSoFar BY <1>2 DEF CleanSoFar, Clean
<1>4. ErrorIsTrue BY DEF ErrorIsTrue
<1>5. LatestSourceWins BY <1>2 DEF LatestSourceWins, Overridden
<1> QED BY <1>1, <1>3, <1>4, <1>5 DEF ConfigInv

LEMMA OpenFileStep == ASSUME ConfigInv, OpenFile PROVE ConfigInv'
<1> USE DEF ConfigInv, OpenFile, Opening, Loading, Status
<1>1. Progress' BY DEF Progress
<1>2. CleanSoFar' BY DEF CleanSoFar, Clean, EnvRead, LineIsBad, EnvIsBad
<1>3. ErrorIsTrue' BY DEF ErrorIsTrue
<1>4. LatestSourceWins' BY DEF LatestSourceWins, Overridden, EnvRead, Gives
<1> QED BY <1>1, <1>2, <1>3, <1>4

(***************************************************************************)
(* A line of the file.                                                     *)
(***************************************************************************)
(* An entry with a known key: its value, if it parses, is now the one of   *)
(* that key, and no other value changes.                                   *)
LEMMA EntryStep ==
  ASSUME ConfigInv, ReadLine, file[line_no + 1].kind = "entry",
         file[line_no + 1].key \in Keys
  PROVE  ConfigInv'
<1> DEFINE n == line_no + 1
           key == file[n].key
           text == Trim(file[n].text)
<1>1. /\ result = Loading /\ line_no < Len(file) /\ line_no' = n
      /\ file' = file /\ env' = env /\ env_no' = env_no
      /\ ApplyKeyValue(key, text, n)
  BY DEF ReadLine
<1>2. /\ env_no = 0 /\ EnvRead = {} /\ EnvRead' = {} /\ Len(file) \in Nat
      /\ n \in 1..Len(file) /\ line_no \in Nat
      /\ result.status = "loading"
  <2>1. Len(file) \in Nat BY LenProperties DEF ConfigInv, Progress
  <2>2. env_no = 0 BY <1>1, <2>1, EnvKeyFacts DEF ConfigInv, Progress
  <2>3. 1..env_no = {} /\ 1..env_no' = {} BY <1>1, <2>2
  <2> QED BY <1>1, <2>1, <2>2, <2>3 DEF EnvRead, ConfigInv, Progress, Loading, Status
<1>3. Clean(line_no) BY <1>2 DEF ConfigInv, CleanSoFar
<1> HIDE DEF n, key, text
<1>4. n = line_no + 1 /\ key = file[n].key /\ text = Trim(file[n].text)
      /\ file[n].kind = "entry" /\ key \in Keys
  BY DEF n, key, text
<1>5. CASE Parse(key, text) = {}
  <2>1. /\ cfg' = cfg /\ result'.status = "failed" /\ result'.line = n
        /\ result'.code = "InvalidValue"
    BY <1>1, <1>5 DEF ApplyKeyValue, Status
  <2>2. LineIsBad(file[n]) BY <1>4, <1>5, ParseIsMeaning DEF LineIsBad
  <2>3. Progress' BY <1>1, <1>2, <2>1 DEF ConfigInv, Progress
  <2>4. CleanSoFar' BY <2>1 DEF CleanSoFar
  <2>5. ErrorIsTrue' BY <1>1, <1>2, <1>3, <1>4, <2>1, <2>2 DEF ErrorIsTrue, Clean, LineIsBad
  <2>6. LatestSourceWins' BY <2>1 DEF LatestSourceWins
  <2> QED BY <2>1, <2>3, <2>4, <2>5, <2>6 DEF ConfigInv
<1>6. ASSUME NEW v \in Parse(key, text), cfg' = [cfg EXCEPT ![key] = v], result' = result
      PROVE  ConfigInv'
  <2>1. ~LineIsBad(file[n]) BY <1>4, <1>6, ParseIsMeaning DEF LineIsBad
  <2>2. Progress'
    <3>1. cfg' = [k \in Keys |-> cfg'[k]] BY <1>4, <1>6 DEF ConfigInv, Progress
    <3> QED BY <1>1, <1>2, <1>6, <3>1 DEF ConfigInv, Progress
  <2>3. CleanSoFar'
    BY <1>1, <1>2, <1>3, <1>4, <2>1 DEF CleanSoFar, Clean, LineIsBad
  <2>4. ErrorIsTrue' BY <1>2, <1>6 DEF ErrorIsTrue
  <2>5. LatestSourceWins'
    <3> SUFFICES ASSUME NEW k \in Keys
                 PROVE  \/ /\ \E i \in 1..n : /\ Gives(i, k)
                                              /\ cfg'[k] \in Meaning(k, Trim(file[i].text))
                                              /\ \A j \in (i + 1)..n : ~Gives(j, k)
                        \/ /\ \A i \in 1..n : ~Gives(i, k)
                           /\ cfg'[k] = DefaultConfig[k]
      BY <1>1, <1>2, <1>4 DEF LatestSourceWins, Overridden, Gives
    <3>1. CASE k = key
      <4>1. Gives(n, k) BY <1>4, <3>1 DEF Gives
      <4>2. cfg'[k] = v BY <1>4, <1>6, <3>1 DEF ConfigInv, Progress
      <4>3. (n + 1)..n = {} BY <1>2
      <4>4. v \in Meaning(k, Trim(file[n].text)) BY <1>4, <1>6, <3>1, ParseIsMeaning
      <4> QED BY <1>2, <1>4, <3>1, <4>1, <4>2, <4>3, <4>4
    <3>2. CASE k # key
      <4>1. ~Gives(n, k) BY <1>4, <3>2 DEF Gives
      <4>2. cfg'[k] = cfg[k] BY <1>6, <3>2 DEF ConfigInv, Progress
      <4>3. ~Overridden(k) BY <1>2 DEF Overridden
      <4>4. ASSUME NEW i \in 1..line_no, Gives(i, k),
                   cfg[k] \in Meaning(k, Trim(file[i].text)),
                   \A j \in (i + 1)..line_no : ~Gives(j, k)
            PROVE  /\ i \in 1..n /\ \A j \in (i + 1)..n : ~Gives(j, k)
        BY <1>2, <1>4, <4>1, <4>4
      <4>5. (\A i \in 1..line_no : ~Gives(i, k)) => \A i \in 1..n : ~Gives(i, k)
        BY <1>2, <1>4, <4>1
      <4>6. \/ \E i \in 1..line_no : /\ Gives(i, k)
                                     /\ cfg[k] \in Meaning(k, Trim(file[i].text))
                                     /\ \A j \in (i + 1)..line_no : ~Gives(j, k)
            \/ (\A i \in 1..line_no : ~Gives(i, k)) /\ cfg[k] = DefaultConfig[k]
        BY <1>2, <4>3 DEF ConfigInv, LatestSourceWins
      <4> QED BY <4>2, <4>4, <4>5, <4>6
    <3> QED BY <3>1, <3>2
  <2> QED BY <1>2, <1>6, <2>2, <2>3, <2>4, <2>5 DEF ConfigInv
<1> QED BY <1>1, <1>5, <1>6 DEF ApplyKeyValue

(* A line that is no entry of a known key: skipped, or the error. *)
LEMMA OtherLineStep ==
  ASSUME ConfigInv, ReadLine,
         ~(file[line_no + 1].kind = "entry" /\ file[line_no + 1].key \in Keys)
  PROVE  ConfigInv'
<1> DEFINE n == line_no + 1
<1>1. /\ result = Loading /\ line_no < Len(file) /\ line_no' = n
      /\ file' = file /\ env' = env /\ env_no' = env_no /\ cfg' = cfg
      /\ \/ file[n].kind = "blank" /\ result' = result
         \/ LineIsBad(file[n]) /\ result'.status = "failed" /\ result'.line = n
  BY DEF ReadLine, LineIsBad, Status
<1>2. /\ env_no = 0 /\ EnvRead = {} /\ EnvRead' = {} /\ Len(file) \in Nat
      /\ n \in 1..Len(file) /\ line_no \in Nat
      /\ result.status = "loading"
  <2>1. Len(file) \in Nat BY LenProperties DEF ConfigInv, Progress
  <2>2. env_no = 0 BY <1>1, <2>1, EnvKeyFacts DEF ConfigInv, Progress
  <2>3. 1..env_no = {} /\ 1..env_no' = {} BY <1>1, <2>2
  <2> QED BY <1>1, <2>1, <2>2, <2>3 DEF EnvRead, ConfigInv, Progress, Loading, Status
<1>3. Clean(line_no) BY <1>2 DEF ConfigInv, CleanSoFar
<1>4. n = line_no + 1 OBVIOUS
<1> HIDE DEF n
<1>5. CASE LineIsBad(file[n]) /\ result'.status = "failed" /\ result'.line = n
  <2>1. Progress' BY <1>1, <1>2, <1>5 DEF ConfigInv, Progress
  <2>2. CleanSoFar' BY <1>5 DEF CleanSoFar
  <2>3. ErrorIsTrue' BY <1>1, <1>2, <1>3, <1>4, <1>5 DEF ErrorIsTrue, Clean, LineIsBad
  <2>4. LatestSourceWins' BY <1>5 DEF LatestSourceWins
  <2> QED BY <1>5, <2>1, <2>2, <2>3, <2>4 DEF ConfigInv
<1>6. CASE file[n].kind = "blank" /\ result' = result
  <2>1. ~LineIsBad(file[n]) /\ \A k : ~Gives(n, k) BY <1>6 DEF LineIsBad, Gives
  <2>2. Progress' BY <1>1, <1>2, <1>6 DEF ConfigInv, Progress
  <2>3. CleanSoFar'
    BY <1>1, <1>2, <1>3, <1>4, <2>1 DEF CleanSoFar, Clean, LineIsBad
  <2>4. ErrorIsTrue' BY <1>2, <1>6 DEF ErrorIsTrue
  <2>5. LatestSourceWins'
    <3> SUFFICES ASSUME NEW k \in Keys
                 PROVE  \/ \E i \in 1..n : /\ Gives(i, k)
                                           /\ cfg[k] \in Meaning(k, Trim(file[i].text))
                                           /\ \A j \in (i + 1)..n : ~Gives(j, k)
                        \/ /\ \A i \in 1..n : ~Gives(i, k)
                           /\ cfg[k] = DefaultConfig[k]
      BY <1>1, <1>2, <1>4 DEF LatestSourceWins, Overridden, Gives
    <3>1. ~Overridden(k) BY <1>2 DEF Overridden
    <3>2. ASSUME NEW i \in 1..line_no, \A j \in (i + 1)..line_no : ~Gives(j, k)
          PROVE  i \in 1..n /\ \A j \in (i + 1)..n : ~Gives(j, k)
      BY <1>2, <1>4, <2>1, <3>2
    <3>3. (\A i \in 1..line_no : ~Gives(i, k)) => \A i \in 1..n : ~Gives(i, k)
      BY <1>2, <1>4, <2>1
    <3>4. \/ \E i \in 1..line_no : /\ Gives(i, k)
                                   /\ cfg[k] \in Meaning(k, Trim(file[i].text))
                                   /\ \A j \in (i + 1)..line_no : ~Gives(j, k)
          \/ (\A i \in 1..line_no : ~Gives(i, k)) /\ cfg[k] = DefaultConfig[k]
      BY <1>2, <3>1 DEF ConfigInv, LatestSourceWins
    <3> QED BY <3>2, <3>3, <3>4
  <2> QED BY <1>2, <1>6, <2>2, <2>3, <2>4, <2>5 DEF ConfigInv
<1> QED BY <1>1, <1>5, <1>6

(***************************************************************************)
(* A key of the environment.                                               *)
(***************************************************************************)
LEMMA ReadEnvStep == ASSUME ConfigInv, ReadEnv PROVE ConfigInv'
<1> DEFINE key == EnvKeys[env_no + 1]
<1>1. /\ result = Loading /\ line_no = Len(file) /\ env_no < Len(EnvKeys)
      /\ env_no' = env_no + 1 /\ file' = file /\ env' = env /\ line_no' = line_no
      /\ \/ env[key] = Unset /\ UNCHANGED <<cfg, result>>
         \/ env[key] # Unset /\ ApplyKeyValue(key, env[key], 0)
  BY DEF ReadEnv
<1>2. /\ result.status = "loading" /\ env_no \in 0..7 /\ key \in Keys
      /\ Len(file) \in Nat
  <2>1. Len(file) \in Nat BY LenProperties DEF ConfigInv, Progress
  <2> QED BY <1>1, <2>1, EnvKeyFacts DEF ConfigInv, Progress, Loading, Status
<1>3. EnvRead' = EnvRead \cup {key}
  <2>1. 1..(env_no + 1) = (1..env_no) \cup {env_no + 1} BY <1>2
  <2>2. EnvRead' = {EnvKeys[i] : i \in 1..(env_no + 1)} BY <1>1 DEF EnvRead
  <2> QED BY <2>1, <2>2 DEF EnvRead
<1>4. Clean(line_no) /\ \A k \in EnvRead : ~EnvIsBad(k) BY <1>2 DEF ConfigInv, CleanSoFar
<1> HIDE DEF key
<1>5. Clean(line_no)' /\ \A k : EnvIsBad(k)' <=> EnvIsBad(k)
  BY <1>1, <1>4 DEF Clean, LineIsBad, EnvIsBad
<1>6. CASE env[key] # Unset /\ Parse(key, env[key]) = {}
  <2>1. cfg' = cfg /\ result' = Status("failed", "InvalidValue", 0)
    BY <1>1, <1>6 DEF ApplyKeyValue
  <2>2. result'.status = "failed" /\ result'.line = 0 BY <2>1 DEF Status
  <2>3. EnvIsBad(key) BY <1>6, ParseIsMeaning DEF EnvIsBad
  <2>4. Progress' BY <1>1, <1>2, <2>1, <2>2, EnvKeyFacts DEF ConfigInv, Progress
  <2>5. CleanSoFar' BY <2>2 DEF CleanSoFar
  <2>6. ErrorIsTrue'
    <3>1. \E k \in EnvRead' : EnvIsBad(k)' BY <1>3, <1>5, <2>3
    <3>2. Clean(Len(file))' BY <1>1, <1>5 DEF Clean
    <3> QED BY <2>2, <3>1, <3>2 DEF ErrorIsTrue
  <2>7. LatestSourceWins' BY <2>2 DEF LatestSourceWins
  <2> QED BY <2>2, <2>4, <2>5, <2>6, <2>7 DEF ConfigInv
<1>7. ASSUME ~EnvIsBad(key), result' = result, cfg' = [k \in Keys |-> cfg'[k]],
             \A k \in Keys \ {key} : cfg'[k] = cfg[k],
             IF env[key] = Unset THEN cfg'[key] = cfg[key]
                                 ELSE cfg'[key] \in Meaning(key, env[key])
      PROVE  ConfigInv'
  <2>1. Progress' BY <1>1, <1>2, <1>7, EnvKeyFacts DEF ConfigInv, Progress
  <2>3. CleanSoFar'
    <3>1. \A k \in EnvRead' : ~EnvIsBad(k)' BY <1>3, <1>4, <1>5, <1>7
    <3> QED BY <1>5, <3>1 DEF CleanSoFar
  <2>4. ErrorIsTrue' BY <1>2, <1>7 DEF ErrorIsTrue
  <2>5. LatestSourceWins'
    <3> SUFFICES ASSUME NEW k \in Keys
                 PROVE  \/ Overridden(k)' /\ cfg'[k] \in Meaning(k, env[k])
                        \/ /\ ~Overridden(k)'
                           /\ \E i \in 1..line_no :
                                 /\ Gives(i, k) /\ cfg'[k] \in Meaning(k, Trim(file[i].text))
                                 /\ \A j \in (i + 1)..line_no : ~Gives(j, k)
                        \/ /\ ~Overridden(k)'
                           /\ \A i \in 1..line_no : ~Gives(i, k)
                           /\ cfg'[k] = DefaultConfig[k]
      BY <1>1 DEF LatestSourceWins, Gives
    <3>1. CASE k = key /\ env[key] # Unset
      BY <1>1, <1>3, <1>7, <3>1 DEF Overridden
    <3>2. CASE k # key \/ env[key] = Unset
      <4>1. cfg'[k] = cfg[k] BY <1>7, <3>2
      <4>2. Overridden(k)' = Overridden(k) BY <1>1, <1>3, <3>2 DEF Overridden
      <4> QED BY <1>2, <4>1, <4>2 DEF ConfigInv, LatestSourceWins
    <3> QED BY <3>1, <3>2
  <2> QED BY <1>2, <1>7, <2>1, <2>3, <2>4, <2>5 DEF ConfigInv
<1>8. CASE env[key] = Unset
  BY <1>1, <1>7, <1>8 DEF EnvIsBad, ConfigInv, Progress
<1>9. CASE env[key] # Unset /\ Parse(key, env[key]) # {}
  <2>1. PICK v \in Parse(key, env[key]) : cfg' = [cfg EXCEPT ![key] = v] /\ result' = result
    BY <1>1, <1>9 DEF ApplyKeyValue
  <2>2. cfg = [k \in Keys |-> cfg[k]] BY DEF ConfigInv, Progress
  <2>3. /\ cfg' = [k \in Keys |-> cfg'[k]] /\ cfg'[key] = v
        /\ \A k \in Keys \ {key} : cfg'[k] = cfg[k]
    BY <1>2, <2>1, <2>2
  <2> QED BY <1>7, <1>9, <2>1, <2>3, ParseIsMeaning DEF EnvIsBad
<1> QED BY <1>6, <1>8, <1>9

LEMMA ValidateStep == ASSUME ConfigInv, Validate PROVE ConfigInv'
<1>1. /\ result.status = "loading" /\ line_no = Len(file) /\ env_no = Len(EnvKeys)
      /\ file' = file /\ env' = env /\ cfg' = cfg /\ line_no' = line_no /\ env_no' = env_no
      /\ result'.status \in {"valid", "invalid"}
      /\ result'.status = "valid" => ValidateConfig = "none"
  BY DEF Validate, Loading, Status
<1>2. Progress' BY <1>1, EnvKeyFacts DEF ConfigInv, Progress
<1>3. CleanSoFar' BY <1>1 DEF ConfigInv, CleanSoFar, Clean, EnvRead, LineIsBad, EnvIsBad
<1>4. ErrorIsTrue' BY <1>1 DEF ErrorIsTrue
<1>5. LatestSourceWins' BY <1>1 DEF ConfigInv, LatestSourceWins, Overridden, EnvRead, Gives
<1>6. ValidateConfig' = ValidateConfig BY <1>1 DEF ValidateConfig
<1> QED BY <1>1, <1>2, <1>3, <1>4, <1>5, <1>6 DEF ConfigInv

LEMMA NextConfig == ConfigInv /\ [Next]_vars => ConfigInv'
<1> SUFFICES ASSUME ConfigInv, [Next]_vars PROVE ConfigInv' OBVIOUS
<1>1. CASE OpenFile BY <1>1, OpenFileStep
<1>2. CASE ReadLine BY <1>2, EntryStep, OtherLineStep
<1>3. CASE ReadEnv BY <1>3, ReadEnvStep
<1>4. CASE Validate BY <1>4, ValidateStep
<1>5. CASE UNCHANGED vars
  <2> USE <1>5 DEF vars
  <2>1. Progress' BY DEF ConfigInv, Progress
  <2>2. CleanSoFar' BY DEF ConfigInv, CleanSoFar, Clean, EnvRead, LineIsBad, EnvIsBad
  <2>3. ErrorIsTrue' BY DEF ConfigInv, ErrorIsTrue, Clean, EnvRead, LineIsBad, EnvIsBad
  <2>4. LatestSourceWins' BY DEF ConfigInv, LatestSourceWins, Overridden, EnvRead, Gives
  <2>5. ValidateConfig' = ValidateConfig BY DEF ValidateConfig
  <2> QED BY <2>1, <2>2, <2>3, <2>4, <2>5 DEF ConfigInv
<1> QED BY <1>1, <1>2, <1>3, <1>4, <1>5 DEF Next

THEOREM ConfigInvariant == Spec => []ConfigInv
  BY InitConfig, NextConfig, PTL DEF Spec

(***************************************************************************)
(* What the loader and the validator promise.                              *)
(***************************************************************************)
(* Whatever file and environment are given, every value load_config_from_file *)
(* has stored is that of its latest source.                                *)
THEOREM SourcesInOrder == Spec => []LatestSourceWins
  BY ConfigInvariant, PTL DEF ConfigInv

LEMMA ErrorIsFirst == ConfigInv => FirstErrorNamed
<1> SUFFICES ASSUME ConfigInv PROVE FirstErrorNamed OBVIOUS
<1> USE DEF ConfigInv, Progress
<1>1. CASE result.status \in {"valid", "invalid"}
  <2>1. EnvRead = Keys BY <1>1, EnvKeyFacts DEF EnvRead
  <2> QED BY <1>1, <2>1 DEF FirstErrorNamed, CleanSoFar, Clean
<1>2. CASE result.status = "failed"
  <2>1. Len(file) \in Nat BY LenProperties
  <2>2. CASE result.line \in 1..Len(file)
    BY <1>2, <2>1, <2>2 DEF FirstErrorNamed, ErrorIsTrue, Clean
  <2>3. CASE result.line = 0
    BY <1>2, <2>1, <2>3 DEF FirstErrorNamed, ErrorIsTrue, Clean
  <2> QED BY <1>2, <2>2, <2>3 DEF ErrorIsTrue
<1>3. CASE result.status \in {"opening", "loading"} BY <1>3 DEF FirstErrorNamed
<1> QED BY <1>1, <1>2, <1>3

(* The line load_config_from_file reports is the first bad one, whatever   *)
(* follows it, and a load without an error met no bad line or variable.    *)
THEOREM ErrorsAreFirst == Spec => []FirstErrorNamed
  BY ConfigInvariant, ErrorIsFirst, PTL

LEMMA DefaultIsZero == \A k \in Required : DefaultConfig[k] = 0
  BY RequiredAreKeys, Zenon DEF Required, DefaultConfig

LEMMA ValidSuits == ConfigInv => ValidIsUsable
<1> SUFFICES ASSUME ConfigInv, result.status = "valid" PROVE ValidIsUsable
  BY DEF ValidIsUsable
<1>1. /\ \A k \in Required : cfg[k] # 0
      /\ ~(cfg["limits.max_message_bytes"] > MaxMessage)
  BY DEF ConfigInv, ValidateConfig
<1>2. line_no = Len(file) BY DEF ConfigInv, Progress
<1>3. ASSUME NEW k \in Required
      PROVE  /\ (\E i \in 1..Len(file) : Gives(i, k)) \/ env[k] # Unset
             /\ \E t : cfg[k] \in Meaning(k, t)
  BY <1>1, <1>2, RequiredAreKeys, DefaultIsZero DEF ConfigInv, LatestSourceWins, Overridden
<1>4. \A k \in Required : cfg[k] \in Nat /\ (k = "listen.port" => cfg[k] <= MaxU16)
  BY <1>3, RequiredMeaning
<1>5. /\ cfg["listen.port"] \in Nat \ {0} /\ cfg["listen.port"] <= MaxU16
      /\ cfg["limits.max_message_bytes"] \in Nat \ {0}
      /\ cfg["runtime.worker_threads"] \in Nat \ {0}
      /\ cfg["timeouts.idle_ms"] \in Nat \ {0}
  BY <1>1, <1>4 DEF Required
<1> QED BY <1>1, <1>3, <1>5, ConfigAssumption DEF ValidIsUsable

(* A configuration that validate_config accepts is one the components it   *)
(* configures can use, with every required value given by somebody.        *)
THEOREM ValidConfigsAreUsable == Spec => []ValidIsUsable
  BY ConfigInvariant, ValidSuits, PTL

=============================================================================
