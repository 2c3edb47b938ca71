----------------------------- MODULE MCIngestion -----------------------------
(* Instances of Ingestion for TLC. *)
EXTENDS Ingestion

CONSTANTS FileNames

Sound == [size |-> "some", mime |-> "its own", magic |-> "neither",
          readable |-> TRUE, pages |-> <<1>>]

(* What may be in a file, with the extension it has: sound ones, some with  *)
(* blank pages, and one of each fault *)
Shapes == {
    <<"text", Sound>>,
    <<"pdf", [Sound EXCEPT !.pages = <<0, 2, 0, 1>>]>>,
    <<"pdf", [Sound EXCEPT !.pages = <<0>>]>>,
    <<"pdf", [Sound EXCEPT !.readable = FALSE]>>,
    <<"word", [Sound EXCEPT !.magic = "docx", !.pages = <<1, 0, 1, 0>>]>>,
    <<"word", [Sound EXCEPT !.magic = "docx", !.pages = <<1, 0>>]>>,
    <<"word", [Sound EXCEPT !.magic = "doc"]>>,
    <<"word", Sound>>,
    <<"image", [Sound EXCEPT !.mime = "unknown"]>>,
    <<"image", [Sound EXCEPT !.mime = "another"]>>,
    <<"image", [Sound EXCEPT !.readable = FALSE]>>,
    <<"text", [Sound EXCEPT !.size = "large"]>>,
    <<"other", Sound>> }

FilesOf(shapes) ==
    {[name |-> n, extension |-> s[1], content |-> s[2]] : n \in FileNames, s \in shapes}

Single == {[kind |-> k, files |-> <<f>>] : k \in Kinds, f \in FilesOf(Shapes)}

(* One file of any shape, beside a sound one of the same or another name *)
Batches ==
    {[kind |-> "batch", files |-> fs] : fs \in
        {<<f, g>> : f \in FilesOf(Shapes), g \in FilesOf({<<"text", [Sound EXCEPT !.pages = <<2>>]>>})}
        \union {<<g, f>> : f \in FilesOf(Shapes), g \in FilesOf({<<"text", [Sound EXCEPT !.pages = <<2>>]>>})}}

(* None, and one too many *)
Refused ==
    {[kind |-> "batch", files |-> [i \in 1..n |->
        [name |-> CHOOSE m \in FileNames : TRUE, extension |-> "text", content |-> Sound]]]
        : n \in {0, MaxBatch + 1}}

SomeRequests == Single \union Batches \union Refused

(* One that passes, one that does not, both in one message, and another *)
SomeMessages == {{"rate_limit", "bad_request"}, {"auth"}, {}}
=============================================================================
