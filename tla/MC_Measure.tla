----------------------------- MODULE MC_Measure -----------------------------
(***************************************************************************)
(* The parts of the measurement that run on their own, one at a time: a    *)
(* request of the engine client, the two scrapes around a rate step, the   *)
(* comparison of a session's variants, the launch of an engine.  They      *)
(* share nothing, so a behaviour is one part's, the others stay where they *)
(* start.                                                                  *)
(***************************************************************************)
EXTENDS Client, Scrapes, Tuning, Launch

VARIABLE part

parts == <<part, client, scrapes, tuning, launch>>

------------------------------------------------------------------------------
(* Scrapes: layouts without a finite bound, with zero as a bound, and with *)
(* values below, between, on and above the bounds.                         *)

MCLayouts == {<<>>, <<0, 2>>, <<1, 2>>}
MCQuantiles == {<<0, 1>>, <<1, 2>>, <<9, 10>>, <<1, 1>>}

------------------------------------------------------------------------------
(* Tuning: curves of two rates in every combination of health and goodput, *)
(* one that was swept downwards, one with a late generator, one whose      *)
(* lowest rate sent nothing, one without a step, a failure before and one  *)
(* after the report.                                                       *)

Rated(r, kind, g) ==
  [rate |-> r, sent |-> 20, completed |-> IF kind = "drops" THEN 18 ELSE 20,
   met |-> IF kind = "good" THEN 19 ELSE 18, late |-> FALSE, goodput |-> g]

Idle == [rate |-> 0, sent |-> 0, completed |-> 0, met |-> 0, late |-> FALSE, goodput |-> 0]

Curves ==
  {<<>>, <<Idle, Rated(1, "good", 1)>>, <<Rated(2, "good", 2), Rated(1, "slow", 1)>>,
   <<Rated(1, "good", 1), [Rated(2, "good", 2) EXCEPT !.late = TRUE]>>}
  \cup {<<Rated(1, k, g), Rated(2, l, h)>> :
          k \in {"good", "slow"}, l \in {"good", "drops"}, g \in 1..2, h \in 1..2}

MCOutcomes ==
  {[error |-> FALSE, ran |-> TRUE, report |-> curve] : curve \in Curves}
  \cup {[error |-> TRUE, ran |-> FALSE, report |-> <<>>],
        [error |-> TRUE, ran |-> TRUE, report |-> <<Rated(2, "good", 2)>>]}

\* Every curve of the instance is one the comparison is meant for.
ASSUME CurvesRise

\* "a" and "A" would share a directory where case is ignored; "d" sets no field.
MCItems ==
  {[name |-> "a", slug |-> "a", fields |-> {"max_num_seqs"}],
   [name |-> "A", slug |-> "a", fields |-> {}],
   [name |-> "b", slug |-> "b", fields |-> {}],
   [name |-> "c", slug |-> "c", fields |-> {"max_num_seqs"}],
   [name |-> "d", slug |-> "d", fields |-> {"max_num_seq"}]}

------------------------------------------------------------------------------
(* Launch: the repository's three profiles, T4s and other cards, and help  *)
(* texts that lack some of the flags, that come late or not at all.        *)

MCDefaults ==
  [device |-> "cpu", dtype |-> "auto", max_num_seqs |-> "256", tensor_parallel_size |-> 1,
   kv_cache_dtype |-> "auto", quantization |-> "null", enable_chunked_prefill |-> "null",
   enable_prefix_caching |-> "false", extra_args |-> <<>>]

OnT4s(n) ==
  [device |-> "cuda", dtype |-> "float16", max_num_seqs |-> "256",
   enable_chunked_prefill |-> "true", tensor_parallel_size |-> n]

MCProfiles ==
  [p \in {"local-cpu", "colab-t4", "kaggle-2xt4"} |->
     CASE p = "colab-t4" -> OnT4s(1)
       [] p = "kaggle-2xt4" -> OnT4s(2)
       [] OTHER -> [device |-> "cpu", dtype |-> "float32", max_num_seqs |-> "16",
                    tensor_parallel_size |-> 1]]

T4 == [t4 |-> TRUE, cap |-> 75, small |-> FALSE]
MCMachines == {<<>>, <<T4>>, <<T4, T4>>, <<[t4 |-> FALSE, cap |-> 89, small |-> FALSE]>>,
               <<[t4 |-> FALSE, cap |-> 0, small |-> TRUE]>>}

MCEnvironments ==
  {NoSettings, [dtype |-> "bfloat16"], [quantization |-> "awq"],
   [extra_args |-> <<"--seed", "7", "--trust-remote-code">>]}

MCOverrides ==
  {NoSettings, [max_num_seqs |-> "32"], [quantization |-> "fp8"], [max_num_seq |-> "64"],
   [enable_prefix_caching |-> "true", kv_cache_dtype |-> "fp8"]}

MCWords ==
  {"vllm", "serve", "model", "localhost", "8000", "2048", "0.9", "cpu", "cuda", "auto",
   "float16", "float32", "bfloat16", "16", "32", "256", "null", "true", "false", "awq",
   "fp8", "1", "2", "7"}

\* The override whose flag is not named after its field.
ChunkedOff == {[enable_chunked_prefill |-> "false"]}

\* The instance is one the commands are meant for.
ASSUME LoneValues /\ ProfilesAreModest /\ (VariantsNameTheirFlags \/ Overrides = ChunkedOff)

Removable == {"--device", "--max-num-seqs", "--enable-prefix-caching", "--seed",
              "--no-enable-chunked-prefill"}
Help(removed) == Flags \ ({"--extra-args"} \cup removed)

MCHelpTexts ==
  {<<Help(r), UNREADABLE, UNREADABLE>> : r \in SUBSET Removable}
  \cup {<<UNREADABLE, {"--help"}, Help({"--device"})>>, <<{"--help"}, UNREADABLE, UNREADABLE>>}

------------------------------------------------------------------------------

Init ==
  /\ part \in {"client", "scrapes", "tuning", "launch"}
  /\ ClientInit /\ ScrapesInit /\ TuningInit /\ LaunchInit
  /\ part # "scrapes" => layout = <<>> /\ exposed = {} /\ wanted = "any"
  /\ part # "launch" =>
       via = "kernel" /\ environ = NoSettings /\ overrides \in {NoSettings} \cup ChunkedOff

Rest == UNCHANGED <<client, scrapes, tuning, launch>>

AsClient == part = "client" /\ ClientNext /\ UNCHANGED <<scrapes, tuning, launch>>
AsScrapes == part = "scrapes" /\ ScrapesNext /\ UNCHANGED <<client, tuning, launch>>
AsTuning == part = "tuning" /\ TuningNext /\ UNCHANGED <<client, scrapes, launch>>
AsLaunch == part = "launch" /\ LaunchNext /\ UNCHANGED <<client, scrapes, tuning>>

Ended ==
  \/ part = "client" /\ phase = "returned"
  \/ part = "scrapes" /\ step = "measured"
  \/ part = "tuning" /\ (refused \/ (~parsing /\ Len(results) = Len(plan)))
  \/ part = "launch" /\ at \in {"launched", "fits", "refused"}

Next ==
  /\ AsClient \/ AsScrapes \/ AsTuning \/ AsLaunch \/ (Ended /\ Rest)
  /\ UNCHANGED part

Spec == Init /\ [][Next]_parts

=============================================================================
