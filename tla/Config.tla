------------------------------- MODULE Config -------------------------------
(***************************************************************************)
(* load_config_from_file (config_loader.cpp) followed by validate_config   *)
(* (config_validator.cpp), as config_tests.cpp calls them: the lines of a  *)
(* key=value file are applied one after the other, then the environment,   *)
(* then the whole configuration is validated.  One step is one line, one   *)
(* environment key or the validation.                                      *)
(*                                                                         *)
(* Data.  A text is a word and whether blanks surround it.  Which words    *)
(* are numerals is a constant, and the widths of the integers are scaled:  *)
(* what matters is on which side of a limit a number falls.                *)
(***************************************************************************)
EXTENDS Naturals, Sequences

CONSTANTS
    Files,       \* the files a run may find: sequences of lines
    Envs,        \* the environments a run may find
    Numerals,    \* the words that are decimal numbers, and their values
    MaxU16, MaxU32, MaxU64,
    MaxMessage   \* k_max_reasonable_message_bytes

ASSUME ConfigAssumption ==
    /\ MaxU16 \in Nat /\ MaxU32 \in Nat /\ MaxU64 \in Nat /\ MaxMessage \in Nat
    /\ 0 < MaxU16 /\ MaxU16 < MaxMessage /\ MaxMessage < MaxU32 /\ MaxU32 < MaxU64

(* env_keys, in the order of the table. *)
EnvKeys == <<"listen.host", "listen.port", "limits.max_connections",
             "limits.max_message_bytes", "timeouts.idle_ms",
             "runtime.worker_threads", "logging.level", "metrics.enabled">>
Keys == {EnvKeys[i] : i \in DOMAIN EnvKeys}

Text(word) == [word |-> word, padded |-> FALSE]
Padded(word) == [word |-> word, padded |-> TRUE]
Unset == [word |-> "unset", padded |-> TRUE]

(* kind: a blank line or comment, one without a key, or key=text. *)
Line(kind, key, text) == [kind |-> kind, key |-> key, text |-> text]

AnyText == [word : STRING, padded : BOOLEAN]
AnyLine == [kind : {"blank", "no_key", "entry"}, key : STRING, text : AnyText]

ASSUME InputAssumption ==
    /\ \A word \in DOMAIN Numerals : Numerals[word] \in Nat
    /\ \A f \in Files : f \in Seq(AnyLine)
    /\ \A e \in Envs : e \in [Keys -> AnyText]

(* ServerConfig{}: what its member initializers say. *)
DefaultConfig ==
    [k \in Keys |-> CASE k = "listen.host" -> Text("")
                      [] k = "logging.level" -> "Info"
                      [] k = "metrics.enabled" -> FALSE
                      [] OTHER -> 0]

(***************************************************************************)
(* Parsing.  An optional is the set of its values: {} is nullopt.          *)
(***************************************************************************)
Trim(t) == [t EXCEPT !.padded = FALSE]

(* from_chars takes neither blanks nor signs, nor a number out of range. *)
ParseUint(max, t) ==
    IF ~t.padded /\ t.word \in DOMAIN Numerals
      THEN {n \in {Numerals[t.word]} : n <= max} ELSE {}

ParseBool(t) ==
    CASE t \in {Text("1"), Text("true"), Text("TRUE"), Text("True")} -> {TRUE}
      [] t \in {Text("0"), Text("false"), Text("FALSE"), Text("False")} -> {FALSE}
      [] OTHER -> {}

LogLevels == [Trace |-> {"trace", "TRACE", "Trace"},
              Debug |-> {"debug", "DEBUG", "Debug"},
              Info  |-> {"info", "INFO", "Info"},
              Warn  |-> {"warn", "WARN", "Warn", "warning", "WARNING", "Warning"},
              Error |-> {"error", "ERROR", "Error"}]

ParseLogLevel(t) == {l \in DOMAIN LogLevels : ~t.padded /\ t.word \in LogLevels[l]}

(* The values apply_key_value may store under a key. *)
Parse(key, t) ==
    CASE key = "listen.host" -> {t}
      [] key = "listen.port" -> {n \in ParseUint(MaxU32, t) : n <= MaxU16}
      [] key = "limits.max_message_bytes" -> ParseUint(MaxU64, t)
      [] key = "logging.level" -> ParseLogLevel(t)
      [] key = "metrics.enabled" -> ParseBool(t)
      [] OTHER -> ParseUint(MaxU32, t)

-----------------------------------------------------------------------------
VARIABLES
    file, env,  \* the input of the call
    cfg,        \* the configuration so far
    line_no,    \* lines applied
    env_no,     \* entries of env_keys looked at
    result      \* how far the calls are, or the error they returned

vars == <<file, env, cfg, line_no, env_no, result>>

Status(status, code, line) == [status |-> status, code |-> code, line |-> line]
Loading == Status("loading", "none", 0)
Opening == Status("opening", "none", 0)

Init ==
    /\ file \in Files /\ env \in Envs
    /\ cfg = DefaultConfig
    /\ line_no = 0 /\ env_no = 0
    /\ result = Opening

OpenFile ==
    /\ result = Opening
    /\ result' \in {Loading, Status("failed", "FileOpenFailed", 0)}
    /\ UNCHANGED <<file, env, cfg, line_no, env_no>>

(* Fault: the first value of a key is kept. *)
ApplyFirst(key, t, line) ==
    \/ \E v \in Parse(key, t) :
          /\ cfg' = IF cfg[key] = DefaultConfig[key] THEN [cfg EXCEPT ![key] = v] ELSE cfg
          /\ UNCHANGED result
    \/ /\ Parse(key, t) = {}
       /\ result' = Status("failed", "InvalidValue", line)
       /\ UNCHANGED cfg

(* Fault: the caller does not put the line in the error. *)
ApplyUnnumbered(key, t, line) ==
    \/ \E v \in Parse(key, t) :
          /\ cfg' = [cfg EXCEPT ![key] = v]
          /\ UNCHANGED result
    \/ /\ Parse(key, t) = {}
       /\ result' = Status("failed", "InvalidValue", 0)
       /\ UNCHANGED cfg

(* apply_key_value for a known key; the caller puts the line in the error. *)
ApplyKeyValue(key, t, line) ==
    \/ \E v \in Parse(key, t) :
          /\ cfg' = [cfg EXCEPT ![key] = v]
          /\ UNCHANGED result
    \/ /\ Parse(key, t) = {}
       /\ result' = Status("failed", "InvalidValue", line)
       /\ UNCHANGED cfg

(* The body of the getline loop. *)
ReadLine ==
    /\ result = Loading /\ line_no < Len(file)
    /\ line_no' = line_no + 1
    /\ LET l == file[line_no + 1] IN
       \/ l.kind = "blank" /\ UNCHANGED <<cfg, result>>
       \/ /\ l.kind = "no_key"
          /\ result' = Status("failed", "InvalidLine", line_no + 1)
          /\ UNCHANGED cfg
       \/ /\ l.kind = "entry" /\ l.key \notin Keys
          /\ result' = Status("failed", "UnknownKey", line_no + 1)
          /\ UNCHANGED cfg
       \/ /\ l.kind = "entry" /\ l.key \in Keys
          /\ ApplyKeyValue(l.key, Trim(l.text), line_no + 1)
    /\ UNCHANGED <<file, env, env_no>>

(* The body of the loop over env_keys; getenv does not trim. *)
ReadEnv ==
    /\ result = Loading /\ line_no = Len(file) /\ env_no < Len(EnvKeys)
    /\ env_no' = env_no + 1
    /\ LET key == EnvKeys[env_no + 1] IN
       \/ env[key] = Unset /\ UNCHANGED <<cfg, result>>
       \/ env[key] # Unset /\ ApplyKeyValue(key, env[key], 0)
    /\ UNCHANGED <<file, env, line_no>>

Required == {"listen.port", "limits.max_connections", "limits.max_message_bytes",
             "timeouts.idle_ms", "runtime.worker_threads"}

(* Fault: the message limit is not compared with the largest reasonable one. *)
ValidateWithoutMaximum ==
    CASE \E k \in Required : cfg[k] = 0 -> "MissingRequiredValue"
      [] OTHER -> "none"

(* validate_config: the code of the error it returns, or "none". *)
ValidateConfig ==
    CASE \E k \in Required : cfg[k] = 0 -> "MissingRequiredValue"
      [] cfg["limits.max_message_bytes"] > MaxMessage -> "OutOfRange"
      [] OTHER -> "none"

Validate ==
    /\ result = Loading /\ line_no = Len(file) /\ env_no = Len(EnvKeys)
    /\ result' = Status(IF ValidateConfig = "none" THEN "valid" ELSE "invalid", ValidateConfig, 0)
    /\ UNCHANGED <<file, env, cfg, line_no, env_no>>

Next == OpenFile \/ ReadLine \/ ReadEnv \/ Validate

Spec == Init /\ [][Next]_vars

-----------------------------------------------------------------------------
(* The declarative reading of the inputs. *)
Gives(i, k) == file[i].kind = "entry" /\ file[i].key = k
EnvRead == {EnvKeys[i] : i \in 1..env_no}
Overridden(k) == k \in EnvRead /\ env[k] # Unset

(* What a text says: for the required keys, which are the numeric ones, an *)
(* unpadded numeral up to the largest value of the member of ServerConfig. *)
Largest(k) == CASE k = "listen.port" -> MaxU16
                [] k = "limits.max_message_bytes" -> MaxU64
                [] OTHER -> MaxU32
Meaning(k, t) ==
    IF k \in Required
      THEN {n \in 0..Largest(k) :
              ~t.padded /\ t.word \in DOMAIN Numerals /\ n = Numerals[t.word]}
      ELSE Parse(k, t)

LineIsBad(l) ==
    \/ l.kind = "no_key"
    \/ l.kind = "entry" /\ (l.key \notin Keys \/ Meaning(l.key, Trim(l.text)) = {})
EnvIsBad(k) == env[k] # Unset /\ Meaning(k, env[k]) = {}

(* Until an error is met, every value is the one its latest source gives:  *)
(* the environment wins over the file, a later line over an earlier one,   *)
(* and a key nobody gives keeps its default; no source touches another's   *)
(* key, and no number is truncated to the width it is stored with.         *)
LatestSourceWins ==
    result.status # "failed" => \A k \in Keys :
        \/ Overridden(k) /\ cfg[k] \in Meaning(k, env[k])
        \/ /\ ~Overridden(k)
           /\ \E i \in 1..line_no :
                 /\ Gives(i, k) /\ cfg[k] \in Meaning(k, Trim(file[i].text))
                 /\ \A j \in (i + 1)..line_no : ~Gives(j, k)
        \/ /\ ~Overridden(k)
           /\ \A i \in 1..line_no : ~Gives(i, k)
           /\ cfg[k] = DefaultConfig[k]

(* An error names the first bad line, also when a later line or the        *)
(* environment would have replaced its value, and line 0 only for a bad    *)
(* environment after a good file; a load that ends well met none.          *)
FirstErrorNamed ==
    LET clean(n) == \A i \in 1..n : ~LineIsBad(file[i]) IN
    CASE result.status \in {"valid", "invalid"} ->
            clean(Len(file)) /\ \A k \in Keys : ~EnvIsBad(k)
      [] result.status = "failed" /\ result.line > 0 ->
            clean(result.line - 1) /\ LineIsBad(file[result.line])
      [] result.status = "failed" /\ result.line = 0 /\ result.code # "FileOpenFailed" ->
            clean(Len(file)) /\ \E k \in EnvRead : EnvIsBad(k)
      [] OTHER -> TRUE

(* What validate_config lets through suits the components it configures:   *)
(* every required value was really given by the file or the environment,   *)
(* a pool gets threads, idle eviction is on, a port is one a socket        *)
(* address holds, and a frame limit fits the length field of a frame.      *)
ValidIsUsable ==
    result.status = "valid" =>
        /\ \A k \in Required :
              (\E i \in 1..Len(file) : Gives(i, k)) \/ env[k] # Unset
        /\ cfg["runtime.worker_threads"] > 0 /\ cfg["timeouts.idle_ms"] > 0
        /\ cfg["listen.port"] \in 1..MaxU16
        /\ cfg["limits.max_message_bytes"] \in 1..MaxU32

=============================================================================
