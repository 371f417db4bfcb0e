----------------------------- MODULE MCRequests -----------------------------
(***************************************************************************)
(* Four documents, one with ids that cannot be told apart, and inputs      *)
(* that are complete or lack a part or two.                                *)
(***************************************************************************)
EXTENDS Requests, TLC

GetItem == <<"GET", "items", "id">>    \* without an id of its own
Create  == <<"create">>

MCOp == {GetItem, Create}

-----------------------------------------------------------------------------
\* Documents

Segment(word) == [text |-> word, words |-> <<word>>, param |-> FALSE]
Param(name)   == [text |-> name, words |-> <<name>>, param |-> TRUE]

Base(host, word, query) == [host |-> host, path |-> <<<<word>>>>, query |-> query]

Main     == Base("api", "v1", <<>>)
Second   == Base("api", "v2", <<>>)
Keyed    == Base("api", "v1", "key" :> <<"k">>)
Sandbox  == Base("sandbox", "v1", <<>>)
Unknown  == Base("unknown", "v1", <<>>)
Relative == Base("", "v1", <<>>)

In(place, name, required) == [place |-> place, name |-> name, required |-> required]

Op3(id, servers, params, body) ==
    [id |-> id, summary |-> <<>>, description |-> <<>>, tags |-> {}, servers |-> servers, params |-> params,
     body |-> body, responses |-> 200 :> NoBody]

JSONBody == "application/json" :> "A"

Item(path, servers, params, operations) ==
    [path |-> path, servers |-> servers, params |-> params, operations |-> operations]

\* The operation POST has more parameters.
Items(getServers, postServers, more) ==
    Item(<<Segment("items"), Param("id")>>, <<Second>>,
         <<In("path", "id", TRUE), In("query", "q", TRUE)>>,
         "GET" :> Op3(<<>>, getServers,
                      <<In("query", "q", FALSE), In("header", "accept", TRUE)>>, NoBody)
         @@ "POST" :> Op3(Create, postServers,
                          <<In("header", "x", TRUE), In("cookie", "c", TRUE)>> \o more, JSONBody))

Plain(path, id) == Item(path, <<>>, <<>>, "POST" :> Op3(id, <<>>, <<>>, NoBody)
                                          @@ "GET" :> Op3(<<>>, <<>>, <<>>, NoBody))

MCDocuments ==
    {[servers |-> <<Main>>, items |-> <<Items(<<>>, <<<<Main, Second>>>>, <<>>)>>],
     [servers |-> <<Main>>,
      items |-> <<Items(<<<<>>>>, <<<<Keyed>>>>, <<In("query", "key", TRUE)>>),
                  Item(<<>>, <<>>, <<>>, "TRACE" :> Op3(<<>>, <<>>, <<>>, NoBody))>>],
     [servers |-> <<Relative>>,
      items |-> <<Plain(<<Segment("a"), Segment("b")>>, Create),
                  Plain(<<[text |-> "a_b", words |-> <<"a", "b">>, param |-> FALSE]>>, <<"POST", "d">>),
                  Plain(<<Segment("d")>>, <<>>),
                  Plain(<<Segment("e")>>, Create)>>],
     [servers |-> <<>>, items |-> <<Items(<<<<Unknown>>>>, <<<<>>>>, <<In("header", "x", FALSE)>>)>>]}

-----------------------------------------------------------------------------
\* The server

MCServed ==
    LET Serving(mode, confirm) ==
            [mode |-> mode, allowedMethods |-> {}, deniedMethods |-> {}, allowedOps |-> {},
             deniedOps |-> {}, requireConfirmation |-> confirm]
    IN {Serving("execute_write", TRUE), Serving("execute_write", FALSE), Serving("sandbox", TRUE),
        Serving("execute_readonly", FALSE), [Serving("sandbox", TRUE) EXCEPT !.deniedOps = {Create}]}

MCSettings ==
    LET Plainly == [override |-> <<>>, upstream |-> <<>>, sandbox |-> <<>>, validate |-> TRUE]
    IN {Plainly,
        [Plainly EXCEPT !.override = <<Second>>],
        [Plainly EXCEPT !.upstream = <<Main>>, !.sandbox = <<Sandbox>>],
        [Plainly EXCEPT !.validate = FALSE]}

-----------------------------------------------------------------------------
\* Inputs

Whole(op) ==
    [op |-> op,
     params |-> [path |-> "id" :> <<"x">>, query |-> "q" :> <<"1">>, headers |-> "x" :> <<"h">>],
     legacy |-> <<>>, baseURL |-> <<>>, confirmation |-> <<>>]

\* The query where execute looks for it last.
WithBareQuery(in) ==
    [in EXCEPT !.params = [part \in DOMAIN @ \ {"query"} |-> @[part]],
               !.legacy = IF "query" \in DOMAIN in.params THEN [bare |-> in.params.query] ELSE @]

\* One part is given otherwise, or not at all.
Variants(in) ==
    {in}
    \cup {[in EXCEPT !.params = Overlay(@, [path |-> p])] : p \in {<<>>, "id" :> <<>>, "id" :> <<"x", "y">>}}
    \cup {[in EXCEPT !.params = Overlay(@, [query |-> q])] :
            q \in {<<>>, "q" :> <<>>, "q" :> NoText, "q" :> <<"1">> @@ "key" :> <<"mine">>}}
    \cup {[in EXCEPT !.params = Overlay(@, [headers |-> h])] : h \in {<<>>, "accept" :> <<>>}}
    \cup {[in EXCEPT !.params = Overlay(@, [body |-> b])] : b \in {"fits", "wrong", "large"}}
    \cup {[in EXCEPT !.baseURL = <<Second>>],
          [in EXCEPT !.params = <<>>, !.legacy = in.params],
          [in EXCEPT !.params = [query |-> <<>>], !.legacy = in.params],
          WithBareQuery(in)}

MCInputs ==
    UNION {Variants(in) : in \in UNION {Variants(Whole(op)) : op \in MCOp}}
    \cup {Whole(op) : op \in {<<>>, <<"nope">>, <<"GET", "a", "b">>, <<"POST", "d">>, <<"TRACE", "root">>}}
=============================================================================
