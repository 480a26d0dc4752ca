------------------------------- MODULE Startup -------------------------------
(***************************************************************************)
(* How the server comes to its providers: a start reads the settings,      *)
(* seeds the voice registration, makes the enabled components available    *)
(* (step by step; the first that cannot be had ends the start) and builds  *)
(* one provider per role.  The voice registration is also written and      *)
(* deleted by the app, key and registration one after the other.           *)
(*                                                                         *)
(* A host is the set of the facts that hold of it: what is installed,      *)
(* what answers, and whether it is a container.                            *)
(***************************************************************************)
EXTENDS Naturals, Sequences, FiniteSets, SequencesExt

NoKey == "none"
Unregistered == [provider |-> "none", by |-> "nobody"]

Online(s) == ~s.offline
Vector(s) == IF s.vector = "auto" THEN (IF s.offline THEN "in_memory" ELSE "qdrant") ELSE s.vector

-----------------------------------------------------------------------------
(* The bootstrap: which steps apply, which succeed on a host, and what     *)
(* they run there.                                                         *)

Bootstrap == <<"packages", "reference", "mflux", "docker", "compose", "qdrant", "searxng",
               "ollama", "models", "whisper", "voice">>

\* The packages of the enabled components, and only of those.
Packages(s) ==
    {p \in {"pkg ollama", "pkg qdrant", "pkg chatterbox"} :
        \/ p = "pkg ollama" /\ s.llm = "ollama"
        \/ p = "pkg qdrant" /\ Vector(s) = "qdrant"
        \/ p = "pkg chatterbox" /\ s.tts = "chatterbox"}

Sidecars(s) ==
    {c \in {"qdrant", "searxng"} :
        \/ c = "qdrant" /\ Vector(s) = "qdrant"
        \/ c = "searxng" /\ s.search = "searxng"}

Applies(step, s, host, registered) ==
    CASE step = "packages" -> TRUE
      [] step = "reference" -> s.tts = "chatterbox"
      [] step = "mflux" -> s.image = "flux"
      [] step \in {"docker", "compose"} -> Sidecars(s) # {} /\ "container" \notin host
      [] step \in {"qdrant", "searxng"} -> step \in Sidecars(s)
      [] step = "ollama" -> s.llm = "ollama"
      [] step = "models" -> s.llm = "ollama" /\ s.autoPull
      [] step = "whisper" -> s.stt = "whisper"
      [] step = "voice" -> s.tts = "remote" /\ registered.provider = "sidecar"

\* Missing models are pulled; docker is installed for the next attempt only; a
\* configured whisper binary is taken as it is, with or without its weights.
Works(step, s, host) ==
    CASE step = "packages" -> Packages(s) \subseteq host
      [] step = "reference" -> "reference" \in host
      [] step = "mflux" -> "container" \notin host /\ host \cap {"mflux", "uv"} # {}
      [] step = "docker" -> {"docker", "daemon"} \subseteq host
      [] step = "compose" -> "images" \in host
      [] step \in {"qdrant", "searxng"} -> step \in host
      [] step = "ollama" -> \/ "ollama runs" \in host
                            \/ "container" \notin host /\ host \cap {"ollama", "brew"} # {}
      [] step = "models" -> host \cap {"models", "network"} # {}
      [] step = "whisper" -> /\ "container" \notin host
                             /\ \/ "binary" \in host
                                \/ /\ host \cap {"whisper", "brew"} # {}
                                   /\ host \cap {"weights", "network"} # {}
      [] step = "voice" -> "sidecar" \in host

\* A tool that is missing is installed by another that is there.
Tool(tool, installer, host) == (IF tool \in host THEN {tool} ELSE {installer}) \cap host

Commands(step, host) ==
    CASE step = "mflux" /\ {"container", "mflux"} \cap host = {} -> {"uv"} \cap host
      [] step = "docker" -> Tool("docker", "brew", host)
      [] step = "compose" -> {"docker"}
      [] step = "ollama" /\ {"container", "ollama runs"} \cap host = {} ->
             Tool("ollama", "brew", host) \cup (IF {"ollama", "brew"} \cap host = {} THEN {} ELSE {"ollama"})
      [] step = "whisper" /\ {"container", "binary"} \cap host = {} ->
             (Tool("whisper", "brew", host) \ {"whisper"})
                \cup (IF "weights" \in host \/ {"whisper", "brew"} \cap host = {} THEN {} ELSE {"curl"})
      [] OTHER -> {}

Steps(s, host, registered) ==
    SelectSeq(Bootstrap, LAMBDA step : Applies(step, s, host, registered))

\* The steps a start takes: up to the first that fails, that one included.
Taken(s, host, registered) ==
    LET steps == Steps(s, host, registered)
        Fails(i) == ~Works(steps[i], s, host)
    IN {steps[i] : i \in {k \in DOMAIN steps : \A j \in 1..(k - 1) : ~Fails(j)}}

Boots(s, host, registered) ==
    \A step \in Taken(s, host, registered) : Works(step, s, host)

Ran(s, host, registered) ==
    UNION {Commands(step, host) : step \in Taken(s, host, registered)}

-----------------------------------------------------------------------------
(* The voice registration: voice.json, and its key among the secrets.      *)

\* What vesnai.yaml has to say; a sidecar needs its address and its voices.
Seeds(s, voice, secrets) ==
    /\ s.tts = "remote" /\ s.seed # "none"
    /\ voice = Unregistered
    /\ secrets
    /\ s.seedKey # NoKey
    /\ s.seed = "sidecar" => s.seedWhole

\* The two writes of a registration, the key first; a stop may come between.
Keyed(store, key) == [store EXCEPT !.key = key]
Voiced(store, provider, by) == [store EXCEPT !.voice = [provider |-> provider, by |-> by]]

Seeded(store, s) ==
    IF Seeds(s, store.voice, TRUE) THEN Voiced(Keyed(store, s.seedKey), s.seed, "yaml") ELSE store

\* The app: validated against the service before anything is written.
Register(store, provider, key, valid, cut) ==
    IF ~valid \/ provider \notin {"sidecar", "openai"} THEN store
    ELSE IF cut THEN Keyed(store, key) ELSE Voiced(Keyed(store, key), provider, "app")

Unregister(store, cut) ==
    IF cut THEN Keyed(store, NoKey) ELSE [voice |-> Unregistered, key |-> NoKey]

\* Speaking looks both up anew each time.
Speaks(s, store) ==
    IF s.offline THEN "fake"
    ELSE IF s.tts = "chatterbox" THEN "chatterbox"
    ELSE IF s.tts = "none" \/ store.voice = Unregistered \/ store.key = NoKey THEN "unavailable"
    ELSE store.voice.provider

-----------------------------------------------------------------------------
(* The start as a whole.                                                   *)

Language == {"ai", "reasoning", "marena", "vision", "embedder"}
Roles == Language \cup {"image", "stt", "search", "tts"}

Named(s) == s.llm = "ollama" \/ (s.llm = "openai_compatible" /\ s.baseUrl)

Provider(role, s) ==
    CASE s.offline -> "fake"
      [] Online(s) /\ role \in Language -> s.llm
      [] Online(s) /\ role = "image" -> IF s.image = "flux" THEN "flux" ELSE "disabled"
      [] Online(s) /\ role = "stt" -> IF s.stt = "whisper" THEN "whisper" ELSE "disabled"
      [] Online(s) /\ role = "search" -> IF s.search = "searxng" THEN "searxng" ELSE "disabled"
      [] Online(s) /\ role = "tts" -> IF s.tts = "none" THEN "disabled" ELSE s.tts

\* Seeding comes first and stays when the start fails; a language model that is
\* not named properly is noticed only after the bootstrap.
Start(s, host, store) ==
    IF s.offline
    THEN [up |-> TRUE, ran |-> {}, store |-> store, providers |-> [r \in Roles |-> Provider(r, s)]]
    ELSE LET seeded == Seeded(store, s)
             boots == Boots(s, host, seeded.voice)
             up == boots /\ Named(s)
         IN [up |-> up, ran |-> Ran(s, host, seeded.voice), store |-> seeded,
             providers |-> IF up THEN [r \in Roles |-> Provider(r, s)] ELSE <<>>]

\* What the settings screen says of a provider.
Status(provider) == IF provider = "fake" THEN "demo" ELSE "configured_unchecked"
=============================================================================
