------------------------------ MODULE MCServe ------------------------------
(* Labels of every kind for the model checker. *)
EXTENDS Serve, TLC

label(proto, target, path) == [proto |-> proto, target |-> target, path |-> path]

MCPorts == {"80", "443", "web"}
MCNumeric == {"80", "443"}

Labels(few) == [p \in MCPorts |-> IF p \in DOMAIN few THEN few[p] ELSE None]

\* No label; a path; defaults and two protocols; layer 3 first or last; one that is
\* dropped; a port and a target that are no numbers.
MCLabelSets ==
    {Labels(few) : few \in {
        << >>,
        "80" :> label("http", "443", TRUE),
        "80" :> label("tcp", None, TRUE) @@ "443" :> label("https", "80", FALSE),
        "80" :> label("tun", None, FALSE) @@ "443" :> label("tcp", "80", FALSE),
        "80" :> label("unknown", None, FALSE) @@ "443" :> label("https", None, FALSE),
        "web" :> label("http", "80", FALSE) @@ "80" :> label("http", None, FALSE),
        "443" :> label("https", "web", FALSE)}}

=============================================================================
