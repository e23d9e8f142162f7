-------------------------- MODULE MCRecordCommands --------------------------
(* What is asked of the company commands, for TLC: one company by website, *)
(* by another spelling of it and by its legal identifier, a contact of it  *)
(* and the contact's phone.                                                *)
EXTENDS RecordCommands

Websites == {"https://acme.example", "https://WWW.acme.example/"}
MCHostname == [w \in Websites |-> "acme.example"]
MCSimilarity == [p \in {"acme", "acme sur"} \X {"acme", "acme sur"} |->
                   IF p[1] = p[2] THEN 100 ELSE 67]
Asking(kind) == [AnyPayload EXCEPT !.kind = kind]
MCPayloads ==
  <<[Asking("COMPANY") EXCEPT !.website = "https://acme.example", !.name = "acme"],
    [Asking("COMPANY") EXCEPT !.website = "https://WWW.acme.example/", !.name = "acme sur",
                              !.country = "CR", !.legal = "3-101"],
    [Asking("COMPANY") EXCEPT !.name = "acme", !.country = "CR", !.legal = "3-101"],
    [Asking("CONTACT") EXCEPT !.of = 1],
    [Asking("CONTACT_POINT") EXCEPT !.of = 2, !.value = "phone"]>>
=============================================================================
