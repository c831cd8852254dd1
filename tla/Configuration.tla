---------------------------- MODULE Configuration ----------------------------
(***************************************************************************)
(* config.Load and LoadMappingFile, and what NewDockerClient and           *)
(* NewHTTPFetcher then accept: which settings start the process, in which  *)
(* mode, and how it talks to Docker. Settings that are only checked one by *)
(* one (durations, ports, booleans, notifier URLs) are one Boolean.        *)
(*                                                                         *)
(* An environment is a record; with .env applied to it, as godotenv does.  *)
(*   valid         the settings checked one by one are in order            *)
(*   url           SS_COMPOSE_URL, see URLs                                *)
(*   explicit      SS_COMPOSE_MAPPING_FILE is set                          *)
(*   verify        SS_DOCKER_TLS_VERIFY, see Flags                         *)
(*   verifyCompat  DOCKER_TLS_VERIFY                                       *)
(*   tls           which of SS_DOCKER_TLS_CA, _CERT and _KEY are not empty *)
(*   certDir       DOCKER_CERT_PATH is set                                 *)
(*   readable      the certificate files can be loaded                     *)
(*   host          SS_DOCKER_PROXY_URL, see Hosts                          *)
(*   health        SS_HEALTH_PORT is not 0                                 *)
(*   template      SS_WEBHOOK_TEMPLATE parses, or is not needed            *)
(***************************************************************************)
EXTENDS Naturals, Sequences

(* "upper" is a URL like HTTP://host/: url.Parse lowers its scheme and     *)
(* Load accepts it, HTTPFetcher looks at the text itself. "refused" is any *)
(* URL without host, with another scheme or to a metadata endpoint.        *)
URLs == {"unset", "lower", "upper", "refused"}

Flags == {"unset", "true", "false", "bad"}

(* "none": no scheme or no host, as in unix:///var/run/docker.sock.        *)
Hosts == {"tcp", "http", "https", "unix", "none"}

Environments ==
    [valid : BOOLEAN, url : URLs, explicit : BOOLEAN,
     verify : Flags, verifyCompat : Flags, tls : SUBSET {"ca", "cert", "key"},
     certDir : BOOLEAN, readable : BOOLEAN, host : Hosts,
     health : BOOLEAN, template : BOOLEAN]

-----------------------------------------------------------------------------
(* lookupBool, for the flag and for its older name, which is read only if  *)
(* the flag is not set.                                                    *)

VerifyParses(env) ==
    env.verify # "bad" /\ (env.verify = "unset" => env.verifyCompat # "bad")

TLSVerify(env) ==
    \/ env.verify = "true"
    \/ env.verify = "unset" /\ env.verifyCompat = "true"

(* DOCKER_CERT_PATH fills in whatever is missing.                          *)
TLSFiles(env) == IF env.certDir THEN {"ca", "cert", "key"} ELSE env.tls

(* Any path enables TLS; paths without the flag encrypt but do not verify. *)
TLSEnabled(env) == TLSVerify(env) \/ TLSFiles(env) # {}

TLSComplete(env) ==
    TLSEnabled(env) =>
        /\ {"cert", "key"} \subseteq TLSFiles(env)
        /\ TLSVerify(env) => "ca" \in TLSFiles(env)

-----------------------------------------------------------------------------
(* FindMappingFile. `files` holds what is in the places that are looked    *)
(* at: the one SS_COMPOSE_MAPPING_FILE names, and three default ones.      *)

Places == {"explicit", "config", "secret", "local"}

NotFound == "not found"
NoMapping == ""

FindMappingFile(env, files) ==
    LET found == SelectSeq(IF env.explicit THEN <<"explicit">>
                                           ELSE <<"config", "secret", "local">>,
                           LAMBDA place : place \in DOMAIN files)
    IN  IF found # <<>> THEN Head(found)
        ELSE IF env.explicit THEN NotFound
        ELSE NoMapping

(* Mutated form: a mapping file and a URL may both be given.               *)
OneSourceAtLeast(env, place) == place # NoMapping \/ env.url # "unset"

OneSource(env, place) == (place = NoMapping) <=> (env.url # "unset")

(* config.Load, with every setting it refuses.                             *)
Load(env, files) ==
    /\ env.valid
    /\ VerifyParses(env)
    /\ FindMappingFile(env, files) # NotFound
    /\ OneSource(env, FindMappingFile(env, files))
    /\ env.url # "refused"
    /\ env.host # "none"
    /\ TLSComplete(env)
    /\ env.host = "https" => TLSEnabled(env)

-----------------------------------------------------------------------------
(* The content of a mapping file is a sequence of entries                  *)
(* [name, url, timeout], the timeout "negative" or not. No entries stand   *)
(* also for a file that is not YAML; NoName for an empty name.             *)

NoName == ""

LoadMappingFile(content) ==
    /\ content # <<>>
    /\ \A i \in DOMAIN content :
          /\ content[i].name # NoName
          /\ content[i].url \in {"lower", "upper"}
          /\ content[i].timeout # "negative"
          /\ \A j \in DOMAIN content :
                content[i].name = content[j].name => i = j

(* NewHTTPFetcher: the prefix is compared as it is written.                *)
FetcherBuilt(url) == url = "lower"

(* The mappings given to the coordinator, by the name of the stack.        *)
MappingOf(content) ==
    LET entry(s) == CHOOSE i \in DOMAIN content : content[i].name = s
    IN  [s \in {content[i].name : i \in DOMAIN content} |->
            FetcherBuilt(content[entry(s)].url)]

-----------------------------------------------------------------------------
(* NewDockerClient, for settings that Load accepted.                       *)
DockerClientBuilt(env) ==
    TLSEnabled(env) => env.readable /\ env.host # "unix"

Connection(env) ==
    IF ~TLSEnabled(env) THEN "plain"
    ELSE IF TLSVerify(env) THEN "verified"
    ELSE "encrypted"

=============================================================================
