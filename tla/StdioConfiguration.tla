------------------------- MODULE StdioConfiguration -------------------------
(***************************************************************************)
(* The configuration of the installed MCP process                          *)
(* (universalOntologyMcpStdioConfiguration.js): one reading of its         *)
(* arguments and of its environment.                                       *)
(*                                                                         *)
(* A value stands for the texts an option treats alike: "garbage" is a     *)
(* text that is neither empty nor padded and that only a directory accepts.*)
(***************************************************************************)
EXTENDS Naturals, SequencesExt

CONSTANTS
  ArgumentLists,    \* sequences of arguments (below) the process may get
  Environments      \* values of the environment variables, by option

Options == {"source", "root", "channel", "url", "cache", "bytes"}
CacheHome == "XDG_CACHE_HOME"     \* or LOCALAPPDATA
Variables == Options \union {CacheHome}
Flags == {"help", "version", "insecure"}
NotSet == "not set"
Empty == "empty"       \* the empty text
\* The texts some option treats differently.
Values == {Empty, "file-system", "http", "stable", "development", "https", "loopback",
           "absolute", "number", "garbage"}

(* An argument: --option=value, --option alone, a flag, or another text.   *)
Attached(option, value) == [form |-> "attached", name |-> option, value |-> value]
Bare(option) == [form |-> "bare", name |-> option, value |-> NotSet]
Flag(flag) == [form |-> "flag", name |-> flag, value |-> NotSet]
Word(value) == [form |-> "word", name |-> "none", value |-> value]

Arguments ==
  {Bare(o) : o \in Options} \union {Flag(f) : f \in Flags}
    \union [form : {"attached"}, name : Options, value : Values]
    \union [form : {"word"}, name : {"none"}, value : Values]

ConfigurationAssumption ==
  /\ ArgumentLists \subseteq Seq(Arguments)
  /\ Environments \subseteq [Variables -> Values \cup {NotSet}]
ASSUME ConfigurationAssumption

VARIABLES arguments, environment, configuration
configurationVars == <<arguments, environment, configuration>>

ConfigurationInit ==
  /\ arguments = <<>>
  /\ environment = [o \in Variables |-> NotSet]
  /\ configuration = [outcome |-> "none"]

---------------------------------------------------------------------------
(* parseCommandLineArguments: one pass, where an option without a value    *)
(* takes the next argument.                                                *)

NothingParsed ==
  [values |-> [o \in Options |-> NotSet], flags |-> {}, wants |-> NotSet,
   refused |-> FALSE]

Refuse(parsed) == [parsed EXCEPT !.refused = TRUE]

Argument(parsed, a) ==
  IF parsed.refused THEN parsed
  ELSE IF parsed.wants # NotSet
    THEN IF a.form = "word"
           THEN [parsed EXCEPT !.values[parsed.wants] = a.value,
                               !.wants = NotSet]
           ELSE Refuse(parsed)
  ELSE CASE a.form = "word" -> Refuse(parsed)
         [] a.form = "flag" ->
              IF a.name \in parsed.flags THEN Refuse(parsed)
              ELSE [parsed EXCEPT !.flags = @ \union {a.name}]
         [] a.form \in {"attached", "bare"} ->
              IF parsed.values[a.name] # NotSet THEN Refuse(parsed)
              ELSE IF a.form = "attached"
                     THEN [parsed EXCEPT !.values[a.name] = a.value]
                     ELSE [parsed EXCEPT !.wants = a.name]

ParseCommandLineArguments(args) ==
  LET parsed == FoldLeft(Argument, NothingParsed, args)
  IN  IF parsed.wants # NotSet \/ {"help", "version"} \subseteq parsed.flags
        THEN Refuse(parsed) ELSE parsed

---------------------------------------------------------------------------
(* Command line, then environment unless empty, then the default.          *)

NonEmpty(env, o) == IF env[o] = Empty THEN NotSet ELSE env[o]

Configured(values, env, o) ==
  IF values[o] # NotSet THEN values[o] ELSE NonEmpty(env, o)

(* The default cache directory is below the one the platform names.        *)
Default(env) ==
  [source |-> "http", root |-> "dist/query/v1", channel |-> "stable",
   url |-> "https", bytes |-> "number",
   cache |-> IF NonEmpty(env, CacheHome) = NotSet THEN "absolute"
                                                  ELSE env[CacheHome]]

ConfiguredValue(values, env, o) ==
  LET v == Configured(values, env, o)
  IN  IF v = NotSet THEN Default(env)[o] ELSE v

(* What the parser of every option accepts. *)
Accepts(o, value, insecure) ==
  CASE o = "source"  -> value \in {"file-system", "http"}
    [] o = "root"    -> value # Empty
    [] o = "channel" -> value \in {"stable", "development"}
    [] o = "url"     -> value = "https" \/ (insecure /\ value = "loopback")
    [] o = "cache"   -> value = "absolute"
    [] o = "bytes"   -> value = "number"

HttpOptions == {"channel", "url", "cache", "bytes"}

RejectConfiguredOptions(values, env, options) ==
  \E o \in options : Configured(values, env, o) # NotSet

Refused == [outcome |-> "refused"]

Selected(values, env, options, insecure) ==
  IF \A o \in options : Accepts(o, ConfiguredValue(values, env, o), insecure)
    THEN [outcome |-> "accepted",
          used |-> [o \in options |-> ConfiguredValue(values, env, o)],
          insecure |-> insecure]
    ELSE Refused

(* Mutant: the options of the other source are not rejected. *)
SelectWithoutRejection(values, env, insecure) ==
  LET kind == ConfiguredValue(values, env, "source")
  IN  CASE ~Accepts("source", kind, FALSE) -> Refused
        [] kind = "file-system" -> Selected(values, env, {"source", "root"}, FALSE)
        [] kind = "http" ->
             Selected(values, env, {"source"} \union HttpOptions, insecure)

(* rejectConfiguredOptions, by source. *)
SelectSource(values, env, insecure) ==
  LET kind == ConfiguredValue(values, env, "source")
  IN  CASE ~Accepts("source", kind, FALSE) -> Refused
        [] kind = "file-system" ->
             IF RejectConfiguredOptions(values, env, HttpOptions) \/ insecure
               THEN Refused
               ELSE Selected(values, env, {"source", "root"}, FALSE)
        [] kind = "http" ->
             IF RejectConfiguredOptions(values, env, {"root"})
               THEN Refused
               ELSE Selected(values, env, {"source"} \union HttpOptions, insecure)

(* Help and version look at no setting at all. *)
ParseConfiguration(args, env) ==
  LET parsed == ParseCommandLineArguments(args)
  IN  CASE parsed.refused -> Refused
        [] ~parsed.refused /\ "help" \in parsed.flags -> [outcome |-> "print_help"]
        [] ~parsed.refused /\ "version" \in parsed.flags ->
             [outcome |-> "print_version"]
        [] OTHER -> SelectSource(parsed.values, env, "insecure" \in parsed.flags)

Configure ==
  /\ configuration.outcome = "none"
  /\ arguments' \in ArgumentLists
  /\ environment' \in Environments
  /\ configuration' = ParseConfiguration(arguments', environment')

ConfigurationNext == Configure

ConfigurationSpec == ConfigurationInit /\ [][ConfigurationNext]_configurationVars

---------------------------------------------------------------------------
(* Properties. *)

(* The values an accepted list of arguments gives an option.               *)
Given(o) ==
  {a.value : a \in {b \in ToSet(arguments) : b.form = "attached" /\ b.name = o}}
    \union {arguments[i + 1].value :
              i \in {j \in 1..(Len(arguments) - 1) : arguments[j] = Bare(o)}}

(* No setting is silently ignored: a process that serves uses every value  *)
(* it was given, an argument before a variable, refuses an option that its *)
(* source does not use, and differs from the defaults nowhere else; and    *)
(* the printing of help or version depends on no variable, however broken. *)
NoSettingIgnored ==
  /\ configuration.outcome = "accepted" =>
       \A o \in Options :
         LET wanted == IF Given(o) # {} THEN Given(o)
                       ELSE {environment[o]} \ {NotSet, Empty}
         IN  IF o \in DOMAIN configuration.used
               THEN IF wanted # {} THEN wanted = {configuration.used[o]}
                                   ELSE configuration.used[o] = Default(environment)[o]
               ELSE wanted = {}
  /\ Flag("help") \in ToSet(arguments) \/ Flag("version") \in ToSet(arguments) =>
       ParseConfiguration(arguments, [v \in Variables |-> "garbage"]) = configuration
===========================================================================
