------------------------------ MODULE MCGateway ------------------------------
(***************************************************************************)
(* Hosts inside and outside of a domain, one private, one that does not    *)
(* resolve; guards of all kinds, and answers of all kinds.                 *)
(***************************************************************************)
EXTENDS Gateway

Inside  == <<"api", "example">>
Domain  == <<"example">>
Outside == <<"api", "other">>
Local   == <<"localhost">>
Lost    == <<"lost">>

MCAddresses ==
    [host \in {Inside, Domain, Outside, Local, Lost} |->
        CASE host = Local   -> {"private"}
          [] host = Lost    -> {}
          [] host = Outside -> {"public", "private"}
          [] OTHER          -> {"public"}]

URLOf(host) == [scheme |-> "https", host |-> host]
FileURL     == [scheme |-> "", host |-> <<>>]

Under(name) == [wild |-> TRUE, name |-> name]
Just(name)  == [wild |-> FALSE, name |-> name]

Guard1 == [entries |-> <<Just(<<>>)>>, blockPrivate |-> TRUE]
Guard2 == [entries |-> <<Just(Inside), Under(<<>>)>>, blockPrivate |-> TRUE]
Guard3 == [entries |-> <<Just(Local), Under(Domain)>>, blockPrivate |-> FALSE]
Guard4 == [entries |-> <<Just(Local)>>, blockPrivate |-> TRUE]

MCConfigs ==
    LET Plain == [transport |-> "streamable", authenticated |-> TRUE, source |-> URLOf(Inside),
                  bases |-> {}, swagger |-> Guard1, upstream |-> Guard3]
        Sources == {FileURL, URLOf(Inside), URLOf(Local), [scheme |-> "ftp", host |-> Inside]}
    IN {[Plain EXCEPT !.source = s, !.bases = b, !.swagger = g] :
            s \in Sources, b \in {{}, {URLOf(Domain)}}, g \in {Guard1, Guard2, Guard3, Guard4}}
       \cup {[Plain EXCEPT !.upstream = g] : g \in {Guard1, Guard2, Guard4}}
       \cup {[Plain EXCEPT !.transport = t, !.authenticated = FALSE] : t \in {"stdio", "streamable"}}

MCTargets == {URLOf(Domain), URLOf(Outside), URLOf(Lost), [scheme |-> "ftp", host |-> Inside]}

MCAnswers ==
    LET Good(servers) == [ok |-> TRUE, fits |-> TRUE, format |-> "v3", valid |-> "strict", servers |-> servers]
    IN {Good({FileURL, URLOf(Inside)}), Good({URLOf(Inside), URLOf(Local)}),
        [Good({URLOf(Domain)}) EXCEPT !.format = "v2", !.valid = "no"],
        [Good({}) EXCEPT !.valid = "no"], [Good({}) EXCEPT !.fits = FALSE]}
=============================================================================
