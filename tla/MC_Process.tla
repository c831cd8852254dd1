------------------------------ MODULE MC_Process ------------------------------
(* A small instance of Process: environments and mapping files.              *)
EXTENDS Process

CONSTANTS s1, s2

Usual == [valid |-> TRUE, url |-> "lower", explicit |-> FALSE,
          verify |-> "unset", verifyCompat |-> "unset", tls |-> {},
          certDir |-> FALSE, readable |-> TRUE, host |-> "http",
          health |-> FALSE, template |-> TRUE]

Entry(s, u) == [name |-> s, url |-> u, timeout |-> "default"]

MCContents ==
    {<<Entry(s1, "lower"), Entry(s2, "lower")>>,
     <<Entry(s1, "lower"), Entry(s2, "upper")>>,
     <<Entry(s1, "upper")>>,
     <<Entry(s1, "lower"), Entry(s1, "lower")>>,
     <<>>}

Files == {NoStacks} \cup UNION {[{p} -> MCContents] : p \in Places}

(* Every way to name the sources and a mapping file in one place at most,  *)
(* where an edit may add another; every TLS setting with a URL; what else  *)
(* may be wrong; and, with the health endpoints, the usual ways.           *)
MCStarts ==
    [env : {[Usual EXCEPT !.url = u, !.explicit = e] :
               u \in URLs, e \in BOOLEAN},
     files : Files, editable : {TRUE}]
    \cup
    [env : {[Usual EXCEPT !.url = u, !.health = TRUE] : u \in {"unset", "lower"}},
     files : {NoStacks} \cup [{"local"} -> MCContents], editable : {FALSE}]
    \cup
    [env : {[Usual EXCEPT !.verify = v, !.verifyCompat = w, !.tls = t,
                          !.certDir = d, !.host = h] :
               v \in Flags, w \in Flags, t \in SUBSET {"ca", "cert", "key"},
               d \in BOOLEAN, h \in Hosts}
         \cup {[Usual EXCEPT !.valid = FALSE], [Usual EXCEPT !.template = FALSE],
               [Usual EXCEPT !.certDir = TRUE, !.readable = FALSE]},
     files : {NoStacks}, editable : {FALSE}]
=============================================================================
