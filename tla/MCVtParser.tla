----------------------------- MODULE MCVtParser -----------------------------
(* VtParser for TLC: the sequences of the host and its noise. *)
EXTENDS VtParser

ParamLists == {<<<<>>>>, <<<<>>, <<"2">>>>, <<<<"2">>, <<>>, <<"0">>>>}

GrammarSequences ==
    {Character(b) : b \in {<<"M">>, <<"lead2", "ST">>, <<"lead3", "cont", "ST">>,
                           <<"lead4", "cont", "ST", "cont">>}}
    \cup {EightBit(b) : b \in {"lead2", "ST"}}
    \cup {Control("LF")}
    \cup {Csi(None, ps, None, "h") : ps \in ParamLists}
    \cup {Csi(m, <<<<"2", "0">>>>, i, f) : m \in {"?", ">"}, i \in {None, "!"}, f \in {"h", "p"}}
    \cup {Within(Csi("?", <<<<"2">>>>, "!", "p"), "LF", i) : i \in {1, 2, 3, 5}}
    \cup {Title(d, <<"[", ";">>, e) : d \in {<<"0">>, <<"2", "0">>}, e \in Ends}
    \cup {Title(<<"2">>, <<"M", "lead2", "cont", "M", "M">>, <<"ESC", "\\">>)}
    \cup {DeviceString(<<"[">>, e) : e \in Ends}
    \cup {Escape(c) : c \in {"M", "c"}} \cup {Designate(c) : c \in {"0", "M"}}
    \cup {Coding(c) : c \in {"G", "@"}}

NoiseBytes == {"ESC", "[", "]", "P", "(", "!", "2", ";", "?", "M", "LF", "DEL", "ST",
               "lead2", "lead3", "bad", "%", "@"}
=============================================================================
