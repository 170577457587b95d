------------------------------ MODULE MCMacroRun ------------------------------
EXTENDS MacroRun, TLC
CONSTANTS a, d
MCLiveMost == (a :> 2) @@ (d :> 1) @@ (Alt :> 1)
Step(o) == [op |-> o, window |-> FALSE, key |-> a, keys |-> <<>>, second |-> <<>>]
Down(k) == [Step("down") EXCEPT !.key = k]
Up(k) == [Step("up") EXCEPT !.key = k]
TapOf(ks) == [Step("tap") EXCEPT !.keys = ks]
Dead == [Step("char") EXCEPT !.keys = <<Alt, d>>, !.second = <<a>>]
Next2(step) == [step EXCEPT !.window = TRUE]
Bank(steps, protection) == [steps |-> steps, protection |-> protection, decodes |-> TRUE]
MCPrograms == {
  Bank(<<Step("entry"), TapOf(<<a>>)>>, "auto"),
  Bank(<<Down(Alt), Step("entry"), Next2(Up(Alt))>>, "off"),
  Bank(<<Down(a), Step("delay"), Next2(Dead), Up(a)>>, "on"),
  Bank(<<TapOf(<<Alt, d, a>>)>>, "auto"),
  Bank(<<Down(a), Step("entry"), Up(a)>>, "auto"),
  Bank(<<TapOf(<<d>>), Down(a)>>, "auto"),
  [Bank(<<TapOf(<<d>>)>>, "auto") EXCEPT !.decodes = FALSE]}
===============================================================================
