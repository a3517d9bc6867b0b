------------------------------- MODULE Launch -------------------------------
(***************************************************************************)
(* From a machine and a profile to the command that is launched: probe.py  *)
(* looks at the GPUs, config.py puts the settings together, compat.py      *)
(* compares the two, bench/tuning.py applies a variant, and                *)
(* engine/launcher.py builds the command and strips what the installed     *)
(* engine's help text does not list.  A kernel goes all that way;          *)
(* `inferstack serve` launches what was built, and `inferstack doctor`     *)
(* only says whether the profile can run.                                  *)
(***************************************************************************)
EXTENDS Integers, FiniteSets, SequencesExt

CONSTANTS Machines,     \* sequences of GPUs, as nvidia-smi lists them
          Environments, \* partial settings from INFERSTACK_ENGINE__*, over .env
          Profiles,     \* the YAML files: name -> partial settings
          Defaults,     \* EngineConfig's defaults: field -> value
          ExtraFlags,   \* flags that only extra_args may hold
          Words,        \* tokens that do not begin with two dashes
          Overrides,    \* a variant's overrides: partial settings
          HelpTexts,    \* what the three help invocations print
          MinPlausible  \* MIN_PLAUSIBLE_FLAGS

\* EngineConfig's fields, with what bench_sweep.py takes for the flag of each: "--" and
\* the name, with dashes.
FlagOf ==
  [device |-> "--device", dtype |-> "--dtype", max_num_seqs |-> "--max-num-seqs",
   tensor_parallel_size |-> "--tensor-parallel-size", kv_cache_dtype |-> "--kv-cache-dtype",
   quantization |-> "--quantization", enable_chunked_prefill |-> "--enable-chunked-prefill",
   enable_prefix_caching |-> "--enable-prefix-caching", extra_args |-> "--extra-args"]

Set == DOMAIN FlagOf
UNREADABLE == {}            \* a help invocation that did not run
NOVALUE == ""               \* of a switch
NoSettings == [f \in {} |-> ""]

\* The tokens that begin with two dashes.
Flags == {FlagOf[f] : f \in Set} \cup ExtraFlags \cup
         {"--host", "--port", "--max-model-len", "--gpu-memory-utilization",
          "--no-enable-chunked-prefill"}

Arguments == Flags \cup Words

\* What a file, the environment or a variant may say: values are words, never flags.
AreSettings(s) ==
  /\ \A f \in (DOMAIN s \cap Set) \ {"tensor_parallel_size", "extra_args"} : s[f] \in Words
  /\ "tensor_parallel_size" \in DOMAIN s =>
       s.tensor_parallel_size \in Int /\ ToString(s.tensor_parallel_size) \in Words
  /\ "extra_args" \in DOMAIN s => s.extra_args \in Seq(Arguments)

Sources == {Defaults} \cup Environments \cup Overrides
           \cup {Profiles[p] : p \in DOMAIN Profiles}

ASSUME Configured ==
  /\ \A s \in Sources : AreSettings(s)
  /\ DOMAIN Defaults = Set
  /\ Machines \subseteq Seq([t4 : BOOLEAN, cap : Nat, small : BOOLEAN])
  /\ {"vllm", "serve", "model", "localhost", "8000", "2048", "0.9"} \subseteq Words
  /\ Words \cap Flags = {}
  /\ MinPlausible \in Nat \ {0}

VARIABLES via,        \* who launches: a kernel, serve, serve --force, doctor, doctor --strict
          at,         \* how far the launch has come
          gpus,       \* EnvironmentReport.gpus
          lowRam,     \* EnvironmentReport.ram_available_gb is below 6
          label,      \* settings.profile
          environ,    \* the partial settings found in the environment
          settings,   \* settings.engine
          overrides,  \* the variant's
          issues,     \* severities check_profile reported
          supported,  \* probe_flags(); {} for "could not determine"
          built,      \* build_command's argv
          argv        \* engine.command

launch == <<via, at, gpus, lowRam, label, environ, settings, overrides, issues, supported, built,
            argv>>

SERVES == {"serve", "force"}
DOCTORS == {"doctor", "strict"}

------------------------------------------------------------------------------
(* probe.py: compute capabilities are written as 75 for 7.5, 0 unreadable. *)

Capability(g) == IF gpus[g].cap = 0 THEN 70 ELSE gpus[g].cap

\* _evaluate_cpu_only, _evaluate_cuda: by the first GPU.
HasCuda == gpus # <<>>
Bfloat16 == HasCuda /\ Capability(1) >= 80
Marlin == HasCuda /\ Capability(1) >= 80
Fp8 == HasCuda /\ Capability(1) >= 89

Recommended ==
  IF ~HasCuda THEN "local-cpu"
  ELSE IF gpus[1].t4 /\ Len(gpus) >= 2 THEN "kaggle-2xt4" ELSE "colab-t4"

------------------------------------------------------------------------------
(* config.py: the environment over the profile over the defaults. *)

Over(upper, lower) == [f \in Set |-> IF f \in DOMAIN upper THEN upper[f] ELSE lower[f]]

\* compat.py check_profile: the severities it reports.
CheckProfile(cfg) ==
  LET when(severity, condition) == IF condition THEN {severity} ELSE {}
      n == Len(gpus)
  IN  UNION {
        when("error", cfg.device = "cuda" /\ ~HasCuda),
        when("warning", cfg.device = "cpu" /\ HasCuda),
        when("error", cfg.dtype = "bfloat16" /\ ~Bfloat16),
        when("warning", cfg.device = "cuda" /\ cfg.dtype = "auto" /\ ~Bfloat16),
        when("error", cfg.tensor_parallel_size > 1
                        /\ (n < cfg.tensor_parallel_size \/ cfg.device = "cpu")),
        when("error", cfg.quantization = "fp8" /\ ~Fp8),
        when("info", cfg.quantization = "awq" /\ ~Marlin),
        when("warning", cfg.device = "cuda" /\ HasCuda /\ gpus[1].small),
        when("warning", cfg.device = "cpu" /\ lowRam),
        when("info", cfg.device = "cuda" /\ ~Bfloat16) }

\* worst_severity
Worst(severities) ==
  IF severities = {} THEN "none"
  ELSE IF "error" \in severities THEN "error"
  ELSE IF "warning" \in severities THEN "warning" ELSE "info"

\* What stops a launch before it begins: an error, unless serve was told to go on;
\* doctor --strict also stops at a warning.
Stops(worst) ==
  \/ worst = "error" /\ via # "force"
  \/ worst = "warning" /\ via = "strict"

------------------------------------------------------------------------------
(* engine/launcher.py: argv is a sequence of tokens; of what follows a     *)
(* flag only the first token is its value.                                 *)

When(condition, tokens) == IF condition THEN tokens ELSE <<>>

\* _build_vllm_command, with the flags that are always there for any other.
BuildCommand(cfg) ==
  LET onCuda == cfg.device = "cuda" IN
    <<"vllm", "serve", "model">>
    \o <<"--host", "localhost">> \o <<"--port", "8000">>
    \o <<"--device", cfg.device>>
    \o When(cfg.dtype # "auto", <<"--dtype", cfg.dtype>>)
    \o <<"--max-model-len", "2048">>
    \o <<"--max-num-seqs", cfg.max_num_seqs>>
    \o When(onCuda, <<"--gpu-memory-utilization", "0.9">>)
    \o When(onCuda /\ cfg.tensor_parallel_size > 1,
            <<"--tensor-parallel-size", ToString(cfg.tensor_parallel_size)>>)
    \o When(onCuda /\ cfg.kv_cache_dtype # "auto", <<"--kv-cache-dtype", cfg.kv_cache_dtype>>)
    \o When(cfg.quantization # "null", <<"--quantization", cfg.quantization>>)
    \o When(cfg.enable_chunked_prefill = "true", <<"--enable-chunked-prefill">>)
    \o When(cfg.enable_chunked_prefill = "false", <<"--no-enable-chunked-prefill">>)
    \o When(cfg.enable_prefix_caching = "true", <<"--enable-prefix-caching">>)
    \o cfg.extra_args

FlagsIn(cmd) == ToSet(cmd) \cap Flags

\* supported_flags: the first help text long enough to be one.
SupportedFlags(texts) ==
  LET plausible == {i \in DOMAIN texts : Cardinality(texts[i]) >= MinPlausible} IN
    IF plausible = {} THEN {}
    ELSE texts[CHOOSE i \in plausible : \A j \in plausible : i <= j]

UnsupportedFlags(cmd) == IF supported = {} THEN {} ELSE FlagsIn(cmd) \ supported

\* Mutant of StripFlags: the flag goes, its value stays.
StripFlags_ValueStays(cmd, unwanted) == SelectSeq(cmd, LAMBDA t : t \notin unwanted)

\* strip_flags: the flag, and the token after it unless that is a flag; what is left
\* stays in its order.
Stripped(cmd, unwanted) ==
  {i \in DOMAIN cmd : \/ cmd[i] \in unwanted
                      \/ i > 1 /\ cmd[i] \notin Flags /\ cmd[i - 1] \in unwanted}

StripFlags(cmd, unwanted) ==
  LET kept == DOMAIN cmd \ Stripped(cmd, unwanted)
      place(k) == CHOOSE i \in kept : Cardinality({j \in kept : j <= i}) = k
  IN  [k \in 1..Cardinality(kept) |-> cmd[place(k)]]

\* The flags the variant is about, by the names of its fields.
Wanted == {FlagOf[f] : f \in DOMAIN overrides \cap Set}

------------------------------------------------------------------------------

LaunchInit ==
  /\ via \in {"kernel"} \cup SERVES \cup DOCTORS
  /\ at = "probe" /\ gpus = <<>> /\ lowRam = FALSE /\ label = "none"
  /\ environ \in Environments /\ settings = Defaults
  /\ overrides \in IF via = "kernel" THEN Overrides ELSE {NoSettings}
  /\ issues = {} /\ supported = {} /\ built = <<>> /\ argv = <<>>

\* probe_environment.
ProbesMachine ==
  /\ at = "probe"
  /\ gpus' \in Machines /\ lowRam' \in BOOLEAN
  /\ at' = "load"
  /\ UNCHANGED <<via, label, environ, settings, overrides, issues, supported, built, argv>>

\* resolve_profile, load_settings: the argument, INFERSTACK_PROFILE or the default
\* names the file; the label is that name whatever the environment says.
LoadsSettings ==
  /\ at = "load"
  /\ \E name \in DOMAIN Profiles :
       /\ label' = name
       /\ settings' = Over(environ, Over(Profiles[name], Defaults))
  /\ at' = "check"
  /\ UNCHANGED <<via, gpus, lowRam, environ, overrides, issues, supported, built, argv>>

UnknownProfile ==
  /\ at = "load" /\ at' = "refused"
  /\ UNCHANGED <<via, gpus, lowRam, label, environ, settings, overrides, issues, supported, built,
                 argv>>

\* step_doctor of a kernel, _preflight of serve, doctor.
ChecksProfile ==
  /\ at = "check"
  /\ issues' = CheckProfile(settings)
  /\ at' = IF Stops(Worst(issues')) THEN "refused"
            ELSE IF via \in DOCTORS THEN "fits" ELSE "apply"
  /\ UNCHANGED <<via, gpus, lowRam, label, environ, settings, overrides, supported, built, argv>>

\* EngineVariant.apply, then EngineProcess(cfg) builds the command.
AppliesVariant ==
  /\ at = "apply" /\ via = "kernel"
  /\ IF DOMAIN overrides \subseteq Set
       THEN built' = BuildCommand(Over(overrides, settings)) /\ at' = "flags"
       ELSE UNCHANGED built /\ at' = "refused"
  /\ argv' = built'
  /\ UNCHANGED <<via, gpus, lowRam, label, environ, settings, overrides, issues, supported>>

ProbesFlags ==
  /\ at = "flags"
  /\ \E texts \in HelpTexts : supported' = SupportedFlags(texts)
  /\ at' = "strip"
  /\ UNCHANGED <<via, gpus, lowRam, label, environ, settings, overrides, issues, built, argv>>

\* prepare_engine: VariantRejectedError, or the command without those flags.
Prepares ==
  /\ at = "strip"
  /\ LET rejected == UnsupportedFlags(argv) IN
       IF Wanted \cap rejected # {}
         THEN at' = "refused" /\ UNCHANGED argv
         ELSE at' = "launched" /\ argv' = StripFlags(argv, rejected)
  /\ UNCHANGED <<via, gpus, lowRam, label, environ, settings, overrides, issues, supported, built>>

\* serve: the profile's command as it is, whatever the engine's help text says.
LaunchesAsBuilt ==
  /\ at = "apply" /\ via \in SERVES
  /\ built' = BuildCommand(settings) /\ argv' = built'
  /\ at' = "launched"
  /\ UNCHANGED <<via, gpus, lowRam, label, environ, settings, overrides, issues, supported>>

LaunchNext ==
  \/ ProbesMachine \/ LoadsSettings \/ UnknownProfile \/ ChecksProfile
  \/ LaunchesAsBuilt
  \/ AppliesVariant \/ ProbesFlags \/ Prepares

LaunchSpec == LaunchInit /\ [][LaunchNext]_launch

------------------------------------------------------------------------------

\* What the engine's parser reads: each flag with its value, if it has one.
Parsed(cmd) ==
  {<<cmd[i], IF i < Len(cmd) /\ cmd[i + 1] \notin Flags THEN cmd[i + 1] ELSE NOVALUE>> :
     i \in {j \in DOMAIN cmd : cmd[j] \in Flags}}

\* The extra arguments are flags with one value each, or none: strip_flags takes no
\* more than one token with a flag.
LoneValues ==
  \A s \in Sources : "extra_args" \in DOMAIN s =>
    \A i \in DOMAIN s.extra_args :
      s.extra_args[i] \in Flags \/ (i > 1 /\ s.extra_args[i - 1] \in Flags)

\* Every flag a variant adds or changes is named after a field it overrides.
VariantsNameTheirFlags ==
  \A o \in Overrides :
    /\ DOMAIN o \cap {"device", "extra_args"} = {}
    /\ "enable_chunked_prefill" \in DOMAIN o => o.enable_chunked_prefill # "false"

\* What the profiles that probe.py can recommend ask of a machine (configs/profiles).
ProfilesAreModest ==
  \A name \in DOMAIN Profiles \cap {"local-cpu", "colab-t4", "kaggle-2xt4"} :
    LET cfg == Over(Profiles[name], Defaults) IN
      /\ cfg.dtype # "bfloat16" /\ cfg.quantization # "fp8"
      /\ IF name = "kaggle-2xt4" THEN cfg.tensor_parallel_size <= 2 /\ cfg.device # "cpu"
                                 ELSE cfg.tensor_parallel_size <= 1
      /\ name = "local-cpu" => cfg.device # "cuda"

\* "Strip the very flag a variant exists to set and the variant silently becomes the
\* baseline again. That is a rejection." (bench_sweep.py prepare_engine): a
\* launched variant still has every flag by which its command differs from the
\* profile's.
OwnFlagsSurvive ==
  at = "launched" => Parsed(built) \ Parsed(BuildCommand(settings)) \subseteq Parsed(argv)

\* The command that is launched is one the installed engine takes and means what was
\* built: no flag its help text lacks, every other flag with its own value and
\* nothing else, the variant's flags among them; a help text that is no help text
\* strips nothing.  Nothing is launched that `inferstack doctor` would stop ("safe to
\* put in front of a long benchmark"), unless serve was forced; what doctor --strict
\* lets through has neither errors nor warnings; and the profile the probe recommends
\* has no error on that machine, unless the environment overrides it.
CommandIsAccepted ==
  /\ at = "launched" =>
       /\ supported # {} => FlagsIn(argv) \subseteq supported
       /\ supported = {} => argv = built
       /\ Parsed(argv) = {p \in Parsed(built) : supported = {} \/ p[1] \in supported}
       /\ OwnFlagsSurvive
       /\ via # "force" => "error" \notin issues
  /\ at = "fits" => issues \subseteq (IF via = "strict" THEN {"info"} ELSE {"info", "warning"})
  /\ label = Recommended /\ DOMAIN environ = {} => "error" \notin issues

=============================================================================
