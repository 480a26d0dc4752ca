--------------------------- MODULE StartupChecks -----------------------------
(***************************************************************************)
(* What starts of the server do, over the settings an installation may     *)
(* have and hosts that lack, or have, up to two things.  The assumptions   *)
(* are evaluated by each run whose module extends this one (Pairing).      *)
(***************************************************************************)
EXTENDS Naturals, Sequences, FiniteSets

Up == INSTANCE Startup

StartFacts ==
    {"pkg ollama", "pkg qdrant", "pkg chatterbox", "reference", "mflux", "uv", "docker", "daemon",
     "images", "qdrant", "searxng", "ollama runs", "ollama", "brew", "models", "network",
     "binary", "whisper", "weights", "sidecar"}
FewFacts == {{a, b} : a, b \in StartFacts} \cup {{}}
StartHosts == {h \cup c : h \in FewFacts \cup {StartFacts \ f : f \in FewFacts},
                          c \in {{}, {"container"}}}

StartSettings(offline) ==
    [offline : {offline}, llm : {"ollama", "openai_compatible"}, baseUrl : {FALSE},
     autoPull : {TRUE}, tts : {"remote", "chatterbox"}, seed : {"sidecar"}, seedKey : {"key"},
     seedWhole : {TRUE}, stt : {"whisper", "none"}, image : {"flux", "none"},
     vector : {"auto", "in_memory"}, search : {"searxng", "none"}]
Blank == [voice |-> Up!Unregistered, key |-> Up!NoKey]

\* bootstrap.py:3-9: inside a container nothing is run; and whatever the host
\* lacks, the bare settings (a named cloud model and nothing else) start, having
\* asked for nothing and run nothing.
ASSUME ContainersRunNothing ==
    \A s \in StartSettings(FALSE), h \in StartHosts :
        "container" \in h => Up!Start(s, h, Blank).ran = {}

ASSUME BareSettingsAskForNothing ==
    \A h \in StartHosts :
        LET bare == [offline |-> FALSE, llm |-> "openai_compatible", baseUrl |-> TRUE, autoPull |-> TRUE,
                     tts |-> "none", seed |-> "none", seedKey |-> Up!NoKey, seedWhole |-> FALSE,
                     stt |-> "none", image |-> "none", vector |-> "in_memory", search |-> "none"]
            start == Up!Start(bare, h, Blank)
        IN start.up /\ start.ran = {}

\* No component waits for another's needs: a host that serves two settings
\* apart serves them together, language model and speech as the first has them.
ASSUME ComponentsAreIndependent ==
    \A s, t \in {x \in StartSettings(FALSE) : x.llm = "ollama" /\ x.tts = "remote"} :
        \A h \in {StartFacts \ f : f \in FewFacts} :
            LET both == [s EXCEPT !.stt = IF "whisper" \in {s.stt, t.stt} THEN "whisper" ELSE "none",
                                  !.image = IF "flux" \in {s.image, t.image} THEN "flux" ELSE "none",
                                  !.search = IF "searxng" \in {s.search, t.search} THEN "searxng" ELSE "none"]
            IN Up!Boots(s, h, Blank.voice) /\ Up!Boots(t, h, Blank.voice)
                  => Up!Boots(both, h, Blank.voice)

\* factory.py:3-6: an online server has no fake among its providers, and what
\* was said to be there when it started was.
ASSUME OnlineIsNeverFaked ==
    \A s \in StartSettings(FALSE), h \in StartHosts :
        LET start == Up!Start(s, h, Blank)
            Serves(role, provider) == start.providers[role] = provider
        IN start.up =>
              /\ \A role \in Up!Roles : Up!Status(start.providers[role]) # "demo"
              /\ Serves("ai", "ollama") =>
                    "ollama runs" \in h \/ "ollama" \in start.ran
              /\ Serves("search", "searxng") => "searxng" \in h
              /\ Serves("image", "flux") => "mflux" \in h \/ "uv" \in start.ran
              /\ Serves("stt", "whisper") => "container" \notin h

\* A start that failed can be had by supplying what failed, not by taking
\* something away: more on the host never breaks a start.
ASSUME MoreNeverHurts ==
    \A s \in {x \in StartSettings(FALSE) : x.llm = "ollama"} :
    \A h \in {StartFacts \ f : f \in FewFacts}, f \in StartFacts :
        Up!Boots(s, h, Blank.voice) => Up!Boots(s, h \cup {f}, Blank.voice)

-----------------------------------------------------------------------------
\* Lives of an installation: starts, and what the app does in between, any of
\* it cut short between its two writes.
Yaml == [offline |-> FALSE, llm |-> "openai_compatible", baseUrl |-> TRUE, autoPull |-> FALSE,
         tts |-> "remote", seed |-> "sidecar", seedKey |-> "yaml key", seedWhole |-> TRUE,
         stt |-> "none", image |-> "none", vector |-> "in_memory", search |-> "none"]
LifeEvents == {"start", "start without the sidecar", "sidecar", "openai", "openai cut", "refused",
               "delete", "delete cut"}

Lived(store, e) ==
    CASE e = "start" -> Up!Start(Yaml, StartFacts, store).store
      [] e = "start without the sidecar" -> Up!Start(Yaml, StartFacts \ {"sidecar"}, store).store
      [] e \in {"sidecar", "openai"} -> Up!Register(store, e, "app key", TRUE, FALSE)
      [] e = "openai cut" -> Up!Register(store, "openai", "new key", TRUE, TRUE)
      [] e = "refused" -> Up!Register(store, "openai", "bad key", FALSE, FALSE)
      [] e = "delete" -> Up!Unregister(store, FALSE)
      [] e = "delete cut" -> Up!Unregister(store, TRUE)

Life(events) ==
    LET store[i \in 0..Len(events)] == IF i = 0 THEN Blank ELSE Lived(store[i - 1], events[i])
    IN store

Lives == UNION {[1..n -> LifeEvents] : n \in 0..4}

\* config.py:115, factory.py:177: what the app registered stands until the app
\* changes it, whatever starts come and whether they succeed; a refused
\* registration changes nothing, and a key goes with the registration it came
\* with unless a write was cut short since.
ASSUME TheAppHasTheLastWord ==
    \A events \in Lives :
        LET life == Life(events)
        IN \A i \in DOMAIN events :
              /\ life[i - 1].voice.by = "app" /\ events[i] \in {"start", "start without the sidecar"}
                    => life[i] = life[i - 1]
              /\ events[i] = "refused" => life[i] = life[i - 1]
              /\ ({events[j] : j \in 1..i} \cap {"openai cut", "delete cut"} = {})
                    => CASE life[i].voice.by = "app" -> life[i].key = "app key"
                         [] life[i].voice.by = "yaml" -> life[i].key = "yaml key"
                         [] OTHER -> life[i].key = Up!NoKey

\* A cut registration or deletion is mended by doing it again.
ASSUME CutsAreMended ==
    \A events \in Lives :
        LET life == Life(events)
            last == life[Len(events)]
        IN /\ Up!Speaks(Yaml, Lived(last, "openai")) = "openai"
           /\ Lived(Lived(last, "delete cut"), "delete") = Blank
=============================================================================
