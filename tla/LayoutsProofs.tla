---------------------------- MODULE LayoutsProofs ----------------------------
(***************************************************************************)
(* Proofs about Layouts for every configuration file, every table of       *)
(* plugins, every terminal and any number of layouts.                      *)
(***************************************************************************)
EXTENDS Layouts, SequenceTheorems, FiniteSetTheorems, WellFoundedInduction, TLAPS

-----------------------------------------------------------------------------
(* The bindings of keys                                                    *)

(* The line that is searched for is one of the file, and the part of the   *)
(* table that is left lies in the table.                                   *)
Searching ==
  phase = "search" =>
    /\ at.section <= Len(file) /\ Section.section = "plugins"
    /\ at.line <= Len(Section.bindings)
    /\ si \in 1 .. Len(Table) + 1 /\ ei \in 0 .. Len(Table)

(* The inductive invariant.                                                *)
BindingInv ==
  /\ file \in Files
  /\ at \in [section : Nat \ {0}, line : Nat \ {0}]
  /\ plugin_key_index \in [Keys -> 0 .. Len(Table)]
  /\ Searching
  /\ LastBindingWins

(* A file is a sequence of sections, and one with bindings has lines that  *)
(* bind a key to a number.                                                 *)
LEMMA SectionsAre ==
  ASSUME NEW f \in Files
  PROVE  /\ Len(f) \in Nat /\ DOMAIN f = 1 .. Len(f)
         /\ \A s \in 1 .. Len(f) :
              /\ f[s].section = "plugins" => f[s].bindings \in Seq([code : Int, key : Keys])
              /\ f[s].section = "layout" =>
                   f[s].label \in STRING /\ f[s].header \in Seq(Chars) /\ f[s].art \in Seq(Chars)
              /\ f[s].section \in {"command", "plugins", "layout"}
<1>1. f \in Seq(Sections)
  BY LayoutsAssumption
<1>2. Len(f) \in Nat /\ DOMAIN f = 1 .. Len(f)
  <2> HIDE DEF Sections
  <2> QED BY <1>1
<1>3. ASSUME NEW s \in 1 .. Len(f) PROVE f[s] \in Sections
  BY <1>1
<1>4. ASSUME NEW x \in Sections
      PROVE  /\ x.section = "plugins" => x.bindings \in Seq([code : Int, key : Keys])
             /\ x.section = "layout" =>
                  x.label \in STRING /\ x.header \in Seq(Chars) /\ x.art \in Seq(Chars)
             /\ x.section \in {"command", "plugins", "layout"}
  BY DEF Sections
<1> QED BY <1>2, <1>3, <1>4

(* The lines of one of its sections with bindings.                         *)
LEMMA BindingsAre ==
  ASSUME NEW f \in Files, NEW s \in 1 .. Len(f), f[s].section = "plugins"
  PROVE  /\ Len(f[s].bindings) \in Nat
         /\ \A l \in 1 .. Len(f[s].bindings) : f[s].bindings[l].code \in Int /\ f[s].bindings[l].key \in Keys
<1>1. f[s].bindings \in Seq([code : Int, key : Keys])
  BY SectionsAre
<1>2. ASSUME NEW l \in 1 .. Len(f[s].bindings) PROVE f[s].bindings[l] \in [code : Int, key : Keys]
  BY <1>1, ElementOfSeq
<1> QED BY <1>1, <1>2

(* The table is a sequence of numbers, in order.                           *)
LEMMA TableIs ==
  /\ Len(Table) \in Nat /\ \A p \in Plugins : Table[p] \in Int
  /\ \A p, q \in Plugins : p < q => Table[p] < Table[q]
BY TableAssumption DEF Plugins

(* What was read stays read, and what the keys are bound to stays as it is,*)
(* when the parser goes on to a section without lines of its own before it.*)
LEMMA NextSectionKeepsBindings ==
  ASSUME BindingInv, NextSection, UNCHANGED <<file, plugin_key_index>>, phase' # "search",
         \A l \in BindingLines : l[1] = at.section => l[2] < at.line
  PROVE  BindingInv'
<1>1. at \in [section : Nat \ {0}, line : Nat \ {0}] /\ at' = [section |-> at.section + 1, line |-> 1]
  BY DEF BindingInv, NextSection
<1>2. at' \in [section : Nat \ {0}, line : Nat \ {0}]
  BY <1>1
<1>3. BindingLines' = BindingLines /\ \A l : CodeOf(l)' = CodeOf(l) /\ KeyOf(l)' = KeyOf(l)
  BY DEF BindingLines, CodeOf, KeyOf
<1>4. \A l \in BindingLines : l[1] \in Nat /\ l[2] \in Nat /\ l[2] >= 1
  <2>1. file \in Files
    BY DEF BindingInv
  <2> QED BY <2>1, SectionsAre DEF BindingLines
<1>5. \A l \in BindingLines : IsRead(l)' <=> IsRead(l)
  BY <1>1, <1>4 DEF IsRead
<1>6. \A k : {l \in BindingLines : IsRead(l) /\ KeyOf(l) = k}'
               = {l \in BindingLines : IsRead(l) /\ KeyOf(l) = k}
  BY <1>3, <1>5
<1>7. LastBindingWins'
  BY <1>3, <1>5, <1>6 DEF BindingInv, LastBindingWins, Before
<1> QED BY <1>2, <1>7 DEF BindingInv, Searching

(* A turn of the binary search loses no place where the code can be.       *)
LEMMA ProbeNarrows ==
  ASSUME BindingInv, phase = "search", si <= ei
  PROVE  /\ Middle \in Plugins /\ Middle \in Int /\ Section.bindings[at.line].key \in Keys
         /\ Table[Middle] < Binding.code => Middle + 1 \in 1 .. Len(Table) + 1
         /\ Table[Middle] > Binding.code => Middle - 1 \in 0 .. Len(Table)
         /\ \A p \in Plugins : Table[p] = Binding.code =>
              /\ Table[Middle] < Binding.code => p \in Middle + 1 .. ei
              /\ Table[Middle] > Binding.code => p \in si .. Middle - 1
<1>1. /\ file \in Files /\ at.section \in 1 .. Len(file) /\ Section.section = "plugins"
      /\ at.line \in 1 .. Len(Section.bindings)
      /\ si \in 1 .. Len(Table) + 1 /\ ei \in 0 .. Len(Table)
      /\ \A p \in Plugins : Table[p] = Binding.code => p \in si .. ei
  <2>1. file \in Files /\ at.section \in Nat \ {0} /\ at.line \in Nat \ {0}
    BY DEF BindingInv
  <2>2. at.section \in 1 .. Len(file) /\ Section.section = "plugins"
    BY <2>1, SectionsAre DEF BindingInv, Searching
  <2>3. Len(Section.bindings) \in Nat
    BY <2>1, <2>2, BindingsAre
  <2> QED BY <2>1, <2>2, <2>3 DEF BindingInv, Searching, LastBindingWins
<1>2. Section.bindings[at.line].key \in Keys /\ Binding.code \in Int
  BY <1>1, BindingsAre DEF Section, Binding
<1>3. Middle \in Int /\ si <= Middle /\ Middle <= ei
  <2>1. (ei - si) \div 2 \in Int /\ 0 <= (ei - si) \div 2 /\ (ei - si) \div 2 <= ei - si
    BY <1>1
  <2> QED BY <1>1, <2>1 DEF Middle
<1>4. Middle \in 1 .. Len(Table)
  BY <1>1, <1>3, TableIs
<1> DEFINE middle == Middle
           code == Binding.code
<1>5. ASSUME NEW p \in Plugins, Table[p] = code
      PROVE  /\ Table[middle] < code => p \in middle + 1 .. ei
             /\ Table[middle] > code => p \in si .. middle - 1
  <2>1. p \in si .. ei
    BY <1>1, <1>5
  <2>2. Table[middle] < Table[p] => p > middle
    <3>1. p < middle => Table[p] < Table[middle]
      BY <1>4, TableIs DEF Plugins
    <3>2. Table[p] \in Int /\ Table[middle] \in Int
      BY <1>4, TableIs DEF Plugins
    <3> HIDE DEF middle
    <3> QED BY <1>1, <1>3, <2>1, <3>1, <3>2 DEF middle
  <2>3. Table[middle] > Table[p] => p < middle
    <3>1. middle < p => Table[middle] < Table[p]
      BY <1>4, TableIs DEF Plugins
    <3>2. Table[p] \in Int /\ Table[middle] \in Int
      BY <1>4, TableIs DEF Plugins
    <3> QED BY <1>1, <1>3, <2>1, <3>1, <3>2
  <2> QED BY <1>1, <1>3, <1>5, <2>1, <2>2, <2>3
<1> QED BY <1>1, <1>2, <1>3, <1>4, <1>5 DEF Plugins

(* The line whose code was found is the last one for its key.              *)
LEMMA FoundBinds ==
  ASSUME BindingInv, phase = "search", si <= ei, Table[Middle] = Binding.code,
         plugin_key_index' = [plugin_key_index EXCEPT ![Binding.key] = Middle],
         at' = [at EXCEPT !.line = @ + 1], phase' = "parse", UNCHANGED file
  PROVE  BindingInv'
<1> DEFINE here == <<at.section, at.line>>
           key == Binding.key
<1>1. /\ file \in Files /\ at \in [section : Nat \ {0}, line : Nat \ {0}]
      /\ plugin_key_index \in [Keys -> 0 .. Len(Table)]
      /\ at.section \in 1 .. Len(file) /\ Section.section = "plugins"
      /\ at.line \in 1 .. Len(Section.bindings)
  <2>1. file \in Files /\ at \in [section : Nat \ {0}, line : Nat \ {0}]
    BY DEF BindingInv
  <2>2. at.section \in 1 .. Len(file) /\ Section.section = "plugins"
    BY <2>1, SectionsAre DEF BindingInv, Searching
  <2>3. Len(Section.bindings) \in Nat
    BY <2>1, <2>2, BindingsAre
  <2> QED BY <2>1, <2>2, <2>3 DEF BindingInv, Searching
<1>2. Middle \in Plugins /\ key \in Keys
  BY ProbeNarrows DEF Binding
<1>3. at'.section = at.section /\ at'.line = at.line + 1 /\ at' \in [section : Nat \ {0}, line : Nat \ {0}]
  BY <1>1
<1>4. plugin_key_index' \in [Keys -> 0 .. Len(Table)]
  BY <1>1, <1>2, TableIs DEF Plugins
<1>5. BindingLines' = BindingLines /\ \A l : CodeOf(l)' = CodeOf(l) /\ KeyOf(l)' = KeyOf(l)
  BY DEF BindingLines, CodeOf, KeyOf
<1>6. \A l \in BindingLines : l = <<l[1], l[2]>> /\ l[1] \in Nat /\ l[2] \in Nat
  BY SMTT(30), <1>1, SectionsAre DEF BindingLines
<1>7. here \in BindingLines /\ CodeOf(here) = Table[Middle] /\ KeyOf(here) = key
  BY <1>1, SectionsAre DEF BindingLines, CodeOf, KeyOf, Section, Binding
<1>8. \A l \in BindingLines : IsRead(l)' <=> (IsRead(l) \/ l = here)
  BY <1>1, <1>3, <1>6 DEF IsRead
<1>9. \A l \in BindingLines : IsRead(l) => Before(l, here)
  BY <1>1, <1>6 DEF IsRead, Before
<1>10. \A l \in BindingLines : IsRead(l)' => CodeOf(l)' \in {Table[p] : p \in Plugins}
  BY <1>2, <1>5, <1>7, <1>8 DEF BindingInv, LastBindingWins
<1>11. ASSUME NEW k \in Keys
       PROVE  LET lines == {l \in BindingLines' : IsRead(l)' /\ KeyOf(l)' = k}
              IN IF lines = {} THEN plugin_key_index'[k] = 0
                 ELSE \E l \in lines :
                        /\ \A n \in lines : n = l \/ Before(n, l)
                        /\ plugin_key_index'[k] \in Plugins
                        /\ Table[plugin_key_index'[k]] = CodeOf(l)'
  <2> DEFINE old == {l \in BindingLines : IsRead(l) /\ KeyOf(l) = k}
             now == {l \in BindingLines' : IsRead(l)' /\ KeyOf(l)' = k}
  <2>1. CASE k = key
    <3>1. now = old \cup {here}
      BY <1>5, <1>7, <1>8, <2>1
    <3>2. plugin_key_index'[k] = Middle
      BY <1>1, <1>2, <2>1
    <3>3. here \in now /\ \A n \in now : n = here \/ Before(n, here)
      BY <1>9, <3>1
    <3> HIDE DEF now, here
    <3> QED BY <1>2, <1>5, <1>7, <3>2, <3>3 DEF now
  <2>2. CASE k # key
    <3>1. now = old
      BY <1>5, <1>7, <1>8, <2>2
    <3>2. plugin_key_index'[k] = plugin_key_index[k]
      BY <1>1, <1>2, <2>2
    <3>3. IF old = {} THEN plugin_key_index[k] = 0
          ELSE \E l \in old : /\ \A n \in old : n = l \/ Before(n, l)
                              /\ plugin_key_index[k] \in Plugins
                              /\ Table[plugin_key_index[k]] = CodeOf(l)
      BY DEF BindingInv, LastBindingWins
    <3> HIDE DEF now, old
    <3> QED BY <1>5, <3>1, <3>2, <3>3 DEF now
  <2> QED BY <2>1, <2>2
<1>12. LastBindingWins'
  <2> HIDE DEF here, key
  <2>1. (\A l \in BindingLines : IsRead(l) => CodeOf(l) \in {Table[p] : p \in Plugins})'
    BY <1>5, <1>10
  <2>2. (phase = "search" => \A p \in Plugins : Table[p] = Binding.code => p \in si .. ei)'
    OBVIOUS
  <2> QED BY <1>11, <2>1, <2>2 DEF LastBindingWins, Before
<1> QED BY <1>1, <1>3, <1>4, <1>12 DEF BindingInv, Searching

(* As long as no line is read the bindings stay right.                     *)
LEMMA BindingsStay ==
  ASSUME LastBindingWins, UNCHANGED <<file, at, plugin_key_index>>,
         (phase = "search" => \A p \in Plugins : Table[p] = Binding.code => p \in si .. ei)'
  PROVE  LastBindingWins'
<1>1. /\ BindingLines' = BindingLines
      /\ \A l : CodeOf(l)' = CodeOf(l) /\ KeyOf(l)' = KeyOf(l) /\ (IsRead(l)' <=> IsRead(l))
  BY DEF BindingLines, CodeOf, KeyOf, IsRead
<1>2. (\A l \in BindingLines : IsRead(l) => CodeOf(l) \in {Table[p] : p \in Plugins})'
  BY <1>1 DEF LastBindingWins
<1>3. ASSUME NEW k \in Keys
      PROVE  LET lines == {l \in BindingLines' : IsRead(l)' /\ KeyOf(l)' = k}
             IN IF lines = {} THEN plugin_key_index'[k] = 0
                ELSE \E l \in lines :
                       /\ \A n \in lines : n = l \/ Before(n, l)
                       /\ plugin_key_index'[k] \in Plugins
                       /\ Table[plugin_key_index'[k]] = CodeOf(l)'
  <2> DEFINE old == {l \in BindingLines : IsRead(l) /\ KeyOf(l) = k}
             now == {l \in BindingLines' : IsRead(l)' /\ KeyOf(l)' = k}
  <2>1. now = old
    BY <1>1
  <2>2. IF old = {} THEN plugin_key_index[k] = 0
        ELSE \E l \in old : /\ \A n \in old : n = l \/ Before(n, l)
                            /\ plugin_key_index[k] \in Plugins
                            /\ Table[plugin_key_index[k]] = CodeOf(l)
    BY DEF LastBindingWins
  <2> HIDE DEF now, old
  <2> QED BY <1>1, <2>1, <2>2 DEF now
<1> QED BY <1>2, <1>3 DEF LastBindingWins, Before

(* While a code is searched only the part of the table that is left        *)
(* changes, and once the file is read nothing of this changes again.       *)
LEMMA NextKeepsBindings == BindingInv /\ [Next]_vars => BindingInv'
<1> SUFFICES ASSUME BindingInv, [Next]_vars PROVE BindingInv'
  OBVIOUS
<1>1. /\ file \in Files /\ at \in [section : Nat \ {0}, line : Nat \ {0}]
      /\ plugin_key_index \in [Keys -> 0 .. Len(Table)]
      /\ LastBindingWins /\ Searching
  BY DEF BindingInv
<1>2. ASSUME UNCHANGED parsing, phase' # "search" PROVE BindingInv'
  <2>1. LastBindingWins'
    BY <1>1, <1>2, BindingsStay DEF parsing
  <2> QED BY <1>1, <1>2, <2>1 DEF parsing, BindingInv, Searching
<1>3. ASSUME NEW kind, Reading(kind), kind # "plugins"
      PROVE  \A l \in BindingLines : l[1] = at.section => l[2] < at.line
  BY <1>3 DEF Reading, BindingLines
<1>4. CASE ReadCommand
  <2>1. NextSection /\ UNCHANGED <<file, plugin_key_index>> /\ Reading("command") /\ phase' # "search"
    BY <1>4 DEF ReadCommand, Reading
  <2> QED BY <1>3, <2>1, NextSectionKeepsBindings
<1>5. CASE ReadLayout
  <2>1. NextSection /\ UNCHANGED <<file, plugin_key_index>> /\ Reading("layout") /\ phase' # "search"
    BY <1>5 DEF ReadLayout, Reading
  <2> QED BY <1>3, <2>1, NextSectionKeepsBindings
<1>6. CASE ReadBinding
  <2>1. /\ Reading("plugins") /\ UNCHANGED <<file, plugin_key_index>>
        /\ phase = "parse" /\ at.section \in 1 .. Len(file) /\ Section.section = "plugins"
    BY <1>1, <1>6, SectionsAre DEF ReadBinding, Reading, Section
  <2>2. Len(Section.bindings) \in Nat
    BY <1>1, <2>1, BindingsAre DEF Section
  <2>3. CASE at.line > Len(Section.bindings)
    <3>1. NextSection /\ phase' # "search"
      BY <1>6, <2>1, <2>3 DEF ReadBinding
    <3>2. \A l \in BindingLines : l[1] = at.section => l[2] < at.line
      BY <1>1, <2>2, <2>3 DEF BindingLines, Section
    <3> QED BY <2>1, <3>1, <3>2, NextSectionKeepsBindings
  <2>4. CASE at.line <= Len(Section.bindings)
    <3>1. ~(at.line > Len(Section.bindings))
      BY <1>1, <2>2, <2>4
    <3>2. si' = 1 /\ ei' = Len(Table) /\ phase' = "search" /\ UNCHANGED <<at, file, plugin_key_index>>
      BY <1>6, <3>1 DEF ReadBinding
    <3>3. si' \in 1 .. Len(Table) + 1 /\ ei' \in 0 .. Len(Table) /\ si' .. ei' = Plugins
      BY <3>2, TableIs DEF Plugins
    <3>4. Searching'
      BY <1>1, <2>1, <2>4, <3>2, <3>3 DEF Searching, Section
    <3>5. LastBindingWins'
      BY <1>1, <3>2, <3>3, BindingsStay
    <3> QED BY <1>1, <3>2, <3>4, <3>5 DEF BindingInv
  <2> QED BY <1>1, <2>2, <2>3, <2>4
<1>7. CASE Probe
  <2>1. phase = "search" /\ si <= ei /\ UNCHANGED file
    BY <1>7 DEF Probe
  <2>2. CASE at' # at
    <3>1. /\ Table[Middle] = Binding.code /\ phase' = "parse" /\ at' = [at EXCEPT !.line = @ + 1]
          /\ plugin_key_index' = [plugin_key_index EXCEPT ![Binding.key] = Middle]
      BY <1>7, <2>2 DEF Probe
    <3> QED BY <2>1, <3>1, FoundBinds
  <2>3. CASE at' = at
    <3>1. at.line + 1 # at.line
      BY <1>1
    <3>2. at # [at EXCEPT !.line = @ + 1]
      BY <1>1, <3>1
    <3>3. /\ phase' = "search" /\ UNCHANGED <<at, plugin_key_index>>
          /\ \/ Table[Middle] < Binding.code /\ si' = Middle + 1 /\ ei' = ei
             \/ Table[Middle] > Binding.code /\ ei' = Middle - 1 /\ si' = si
      BY <1>7, <2>1, <2>3, <3>2 DEF Probe
    <3>4. si' \in 1 .. Len(Table) + 1 /\ ei' \in 0 .. Len(Table)
      BY <1>1, <2>1, <3>3, ProbeNarrows DEF Searching
    <3>5. Searching'
      BY <1>1, <2>1, <3>3, <3>4 DEF Searching, Section
    <3>6. \A p \in Plugins : Table[p] = Binding.code => p \in si' .. ei'
      BY <2>1, <3>3, ProbeNarrows
    <3>7. Binding' = Binding
      BY <2>1, <3>3 DEF Binding, Section
    <3>8. LastBindingWins'
      BY <1>1, <2>1, <3>3, <3>6, <3>7, BindingsStay
    <3> QED BY <1>1, <2>1, <3>3, <3>5, <3>8 DEF BindingInv
  <2> QED BY <2>2, <2>3
<1>8. CASE NotFound \/ Start \/ Free \/ Find \/ Calculate \/ RenderHeader \/ RenderWindows
  BY <1>2, <1>8 DEF NotFound, Start, Free, FreeNcWindowData, Find, Calculate, RenderHeader, RenderWindows
<1>9. CASE RunPlugin \/ OpenPopup \/ Highlight \/ Enter \/ Leave \/ Restart \/ Resize \/ CleanUp
  BY <1>2, <1>9 DEF RunPlugin, SendCommand, SelectWindow, FindTitle, OpenPopup, Highlight, Enter, Leave,
                    Restart, Resize, CleanUp, FreeNcWindowData
<1>10. CASE UNCHANGED vars
  <2>1. UNCHANGED parsing /\ UNCHANGED phase
    BY <1>10 DEF vars
  <2>2. LastBindingWins'
    <3>1. (phase = "search" => \A p \in Plugins : Table[p] = Binding.code => p \in si .. ei)'
      BY <1>1, <2>1 DEF parsing, LastBindingWins, Binding, Section
    <3> QED BY <1>1, <2>1, <3>1, BindingsStay DEF parsing
  <2>3. Searching'
    BY <1>1, <2>1 DEF parsing, Searching, Section
  <2> QED BY <1>1, <2>1, <2>2, <2>3 DEF parsing, BindingInv
<1> QED BY <1>4, <1>5, <1>6, <1>7, <1>8, <1>9, <1>10 DEF Next

(* Before the first line is read no key is bound.                          *)
LEMMA InitBindsNothing == Init => BindingInv
<1> SUFFICES ASSUME Init PROVE BindingInv
  OBVIOUS
<1>1. /\ file \in Files /\ at.section = 1 /\ at.line = 1 /\ phase = "parse"
      /\ plugin_key_index = [k \in Keys |-> 0] /\ at \in [section : Nat \ {0}, line : Nat \ {0}]
  BY DEF Init
<1>2. \A l \in BindingLines : ~IsRead(l)
  BY <1>1, SectionsAre DEF BindingLines, IsRead
<1>3. plugin_key_index \in [Keys -> 0 .. Len(Table)]
  BY <1>1, TableIs
<1>4. LastBindingWins
  BY <1>1, <1>2 DEF LastBindingWins
<1> QED BY <1>1, <1>3, <1>4 DEF BindingInv, Searching

(* The keys are bound as the file says.                                    *)
THEOREM BindingInvariant == Spec => []BindingInv
BY InitBindsNothing, NextKeepsBindings, PTL DEF Spec

(* create_plugins() with get_plugin_code_index(): whatever the table and   *)
(* the lines, every code of the table is found and no other, and the last  *)
(* line for a key is the one that counts.                                  *)
THEOREM KeysAreBound == Spec => []LastBindingWins
<1>1. BindingInv => LastBindingWins
  BY DEF BindingInv
<1> QED BY <1>1, BindingInvariant, PTL

-----------------------------------------------------------------------------
(* The windows                                                             *)

Pointers == [WinPlugins -> [{"WIN", "TWIN", "DWIN"} -> {"null", "live", "dead", "garbage"}]]
NoGarbage == \A p \in WinPlugins : pointer[p].TWIN # "garbage"

(* A topbar is made for the plugins that have one, and nothing else gives a*)
(* TWIN a value.                                                           *)
OnlyTopbarsLive ==
  \A p \in WinPlugins \ TopbarPlugins : pointer[p].TWIN \in {"null", "garbage"}

(* Nothing is shown before the first layout.  Where the windows could be   *)
(* freed next, those that are shown can be deleted.                        *)
Reads == {"parse", "search", "loops"}
Settled == Reads \cup {"render", "run", "choose", "failed"}
FreeingIsSafe ==
  /\ phase \in Reads => \A p \in WinPlugins : ~has_window[p]
  /\ phase \in Settled /\ ~broken /\ NoGarbage =>
       \A p \in WinPlugins : has_window[p] => Deletable(p)

(* The inductive invariant.                                                *)
WindowsInv ==
  /\ phase \in Settled \cup {"find", "calculate", "header", "windows", "closed", "dirty", "undefined"}
  /\ pointer \in Pointers /\ OnlyTopbarsLive /\ FreeingIsSafe /\ CleansUp

(* What is deleted is dead, and nothing else changes: garbage stays.       *)
LEMMA DeletedKeeps ==
  ASSUME NEW ps, pointer \in Pointers, OnlyTopbarsLive, pointer' = Deleted(ps)
  PROVE  pointer' \in Pointers /\ OnlyTopbarsLive' /\ (NoGarbage' <=> NoGarbage)
<1>1. ASSUME NEW p \in WinPlugins
      PROVE  /\ pointer'[p] \in [{"WIN", "TWIN", "DWIN"} -> {"null", "live", "dead", "garbage"}]
             /\ pointer'[p].TWIN = IF p \in ps /\ pointer[p].TWIN = "live" THEN "dead" ELSE pointer[p].TWIN
  BY DEF Pointers, Deleted
<1>2. pointer' \in Pointers
  BY <1>1 DEF Pointers, Deleted
<1> QED BY <1>1, <1>2 DEF OnlyTopbarsLive, NoGarbage

(* free_nc_window_data() stops only at garbage, or after a broken render.  *)
LEMMA FreeingStops ==
  ASSUME WindowsInv, NEW next, next \in {"find", "closed"}, phase \in Settled \/ broken',
         FreeNcWindowData(next), UNCHANGED has_window, broken => broken'
  PROVE  WindowsInv'
<1>1. pointer' \in Pointers /\ OnlyTopbarsLive' /\ (NoGarbage' <=> NoGarbage)
  BY DeletedKeeps DEF WindowsInv, FreeNcWindowData
<1>2. phase' \in {next, "dirty"}
  BY DEF FreeNcWindowData
<1>3. phase' \notin Settled
  BY <1>2 DEF Settled, Reads
<1>4. phase' = "dirty" /\ ~broken' => ~NoGarbage'
  <2> SUFFICES ASSUME phase' = "dirty", ~broken', NoGarbage' PROVE FALSE
    OBVIOUS
  <2>1. \A p \in WinPlugins : has_window[p] => Deletable(p)
    BY <1>1 DEF WindowsInv, FreeingIsSafe
  <2> QED BY <2>1 DEF FreeNcWindowData
<1> QED BY <1>1, <1>2, <1>3, <1>4 DEF WindowsInv, FreeingIsSafe, Settled, Reads, CleansUp, NoGarbage

(* render_windows() makes windows that can be deleted, or fails.           *)
LEMMA RenderedCanBeFreed == ASSUME WindowsInv, RenderWindows PROVE WindowsInv'
<1> DEFINE shown == {p \in WinPlugins : has_window[p]}
           done == {p \in shown : \A q \in shown : q <= p => Renderable(q)}
<1>1. ASSUME NEW p \in WinPlugins
      PROVE  /\ pointer'[p] \in [{"WIN", "TWIN", "DWIN"} -> {"null", "live", "dead", "garbage"}]
             /\ p \notin TopbarPlugins => pointer'[p].TWIN = pointer[p].TWIN
             /\ p \in done => pointer'[p].WIN = "live" /\ pointer'[p].DWIN = "live"
             /\ p \in done /\ p \in TopbarPlugins => pointer'[p].TWIN = "live"
  <2> DEFINE made(q) == [WIN |-> "live", DWIN |-> "live",
                         TWIN |-> IF q \in TopbarPlugins THEN "live" ELSE pointer[q].TWIN]
             noTopbar(q) == q \in TopbarPlugins /\ (win[q].cols < 2 \/ win[q].rows < 2)
             half(q) == IF noTopbar(q) THEN [pointer[q] EXCEPT !.WIN = "live", !.TWIN = "null"]
                        ELSE [made(q) EXCEPT !.DWIN = "null"]
  <2>1. pointer[p] \in [{"WIN", "TWIN", "DWIN"} -> {"null", "live", "dead", "garbage"}]
    BY DEF WindowsInv, Pointers
  <2>2. pointer'[p] \in {made(p), half(p), pointer[p]} /\ (p \in done => pointer'[p] = made(p))
    BY DEF RenderWindows
  <2>3. /\ made(p) \in [{"WIN", "TWIN", "DWIN"} -> {"null", "live", "dead", "garbage"}]
        /\ p \notin TopbarPlugins => made(p).TWIN = pointer[p].TWIN
    BY <2>1
  <2>4. /\ half(p) \in [{"WIN", "TWIN", "DWIN"} -> {"null", "live", "dead", "garbage"}]
        /\ p \notin TopbarPlugins => half(p).TWIN = pointer[p].TWIN
    BY <2>1, <2>3
  <2> HIDE DEF half, done
  <2> QED BY <2>1, <2>2, <2>3, <2>4
<1>2. pointer' \in Pointers
  BY <1>1 DEF Pointers, RenderWindows
<1>3. OnlyTopbarsLive'
  BY <1>1 DEF WindowsInv, OnlyTopbarsLive
<1>4. /\ phase' = IF done = shown THEN "run" ELSE "failed"
      /\ broken' = (broken \/ done # shown) /\ UNCHANGED has_window
  BY DEF RenderWindows, geometry
<1>5. ASSUME ~broken', NoGarbage', NEW p \in WinPlugins, has_window'[p] PROVE Deletable(p)'
  <2>1. p \in done
    BY <1>4, <1>5
  <2>2. pointer'[p].TWIN \in {"null", "live"}
    BY <1>1, <1>3, <1>5, <2>1 DEF OnlyTopbarsLive, NoGarbage
  <2> HIDE DEF done
  <2> QED BY <1>1, <2>1, <2>2 DEF Deletable
<1>6. phase' \in {"run", "failed"}
  BY <1>4
<1> QED BY <1>2, <1>3, <1>5, <1>6 DEF WindowsInv, FreeingIsSafe, CleansUp, Settled, Reads

(* Every other step of the program leaves what can be deleted as it is.    *)
LEMMA NextCleansUp == WindowsInv /\ [Next]_vars => WindowsInv'
<1> SUFFICES ASSUME WindowsInv, [Next]_vars PROVE WindowsInv'
  OBVIOUS
<1>1. pointer \in Pointers /\ OnlyTopbarsLive /\ FreeingIsSafe /\ CleansUp
  BY DEF WindowsInv
<1>2. ASSUME UNCHANGED <<pointer, has_window, broken>>, phase \in Settled, phase' \in Settled \cup {"undefined"},
             phase' \in Reads => phase \in Reads
      PROVE  WindowsInv'
  BY <1>1, <1>2 DEF WindowsInv, OnlyTopbarsLive, FreeingIsSafe, CleansUp, NoGarbage, Deletable, Settled, Reads
<1>3. ASSUME UNCHANGED pointer, phase' \in {"find", "calculate", "header", "windows", "undefined"}
      PROVE  WindowsInv'
  BY <1>1, <1>3 DEF WindowsInv, OnlyTopbarsLive, FreeingIsSafe, CleansUp, Settled, Reads
<1>4. CASE ReadCommand \/ ReadBinding \/ Probe \/ NotFound \/ ReadLayout \/ Start
  <2>1. /\ UNCHANGED <<pointer, has_window, broken>> /\ phase \in {"parse", "search"}
        /\ phase' \in {"parse", "search", "failed", "undefined", "loops", "render"}
    BY <1>4 DEF ReadCommand, ReadBinding, Probe, NotFound, ReadLayout, Start, Reading, geometry, history
  <2> QED BY <1>2, <2>1 DEF Settled, Reads
<1>5. CASE Free
  <2>1. phase = "render" /\ UNCHANGED <<has_window, broken>>
    BY <1>5 DEF Free, geometry, history
  <2>2. CASE curr_layout # 0
    <3>1. FreeNcWindowData("find")
      BY <1>5, <2>2 DEF Free
    <3> QED BY <2>1, <3>1, FreeingStops DEF Settled, Reads
  <2>3. CASE curr_layout = 0
    <3>1. phase' = "find" /\ UNCHANGED pointer
      BY <1>5, <2>3 DEF Free
    <3> QED BY <1>3, <3>1
  <2> QED BY <2>2, <2>3
<1>6. CASE Find
  <2>1. phase' = "calculate" /\ UNCHANGED pointer
    BY <1>6 DEF Find
  <2> QED BY <1>3, <2>1
<1>7. CASE Calculate
  <2>1. phase' \in {"header", "undefined"} /\ UNCHANGED pointer
    BY <1>7 DEF Calculate
  <2> QED BY <1>3, <2>1
<1>8. CASE RenderHeader
  <2>1. UNCHANGED pointer /\ phase' \in {"undefined", "windows", "failed"} /\ (phase' = "failed" => broken')
    BY <1>8 DEF RenderHeader
  <2> QED BY <1>1, <2>1 DEF WindowsInv, OnlyTopbarsLive, FreeingIsSafe, CleansUp, Settled, Reads
<1>9. CASE RenderWindows
  BY <1>9, RenderedCanBeFreed
<1>10. CASE RunPlugin \/ OpenPopup \/ Highlight \/ Enter \/ Leave \/ Restart \/ Resize
  <2>1. /\ UNCHANGED <<pointer, has_window, broken>> /\ phase \in {"run", "choose"}
        /\ phase' \in {"run", "choose", "failed", "render"}
    BY <1>10 DEF RunPlugin, SendCommand, SelectWindow, FindTitle, OpenPopup, Highlight, Enter, Leave,
                 Restart, Resize, geometry, history
  <2> QED BY <1>2, <2>1 DEF Settled, Reads
<1>11. CASE CleanUp
  <2>1. /\ phase \in Settled \/ phase \in {"find", "calculate", "header", "windows"}
        /\ UNCHANGED has_window
    BY <1>11 DEF WindowsInv, CleanUp, geometry
  <2>2. broken => broken'
    BY <1>11 DEF CleanUp
  <2>3. phase \in {"find", "calculate", "header", "windows"} => broken'
    BY <1>11 DEF CleanUp
  <2>4. CASE scr.offset = 0
    <3>1. phase' = "undefined" /\ UNCHANGED pointer
      BY <1>11, <2>4 DEF CleanUp
    <3> QED BY <1>3, <3>1
  <2>5. CASE scr.offset # 0
    <3>1. FreeNcWindowData("closed")
      BY <1>11, <2>5 DEF CleanUp
    <3> QED BY <2>1, <2>2, <2>3, <3>1, FreeingStops
  <2> QED BY <2>4, <2>5
<1>12. CASE UNCHANGED vars
  BY <1>1, <1>12 DEF vars, geometry, history, WindowsInv, OnlyTopbarsLive, FreeingIsSafe, CleansUp, NoGarbage,
                 Deletable
<1> QED BY <1>4, <1>5, <1>6, <1>7, <1>8, <1>9, <1>10, <1>11, <1>12 DEF Next

(* In every phase the windows that would be freed next can be deleted.     *)
THEOREM WindowsInvariant == Spec => []WindowsInv
<1>1. Init => WindowsInv
  <2> SUFFICES ASSUME Init PROVE WindowsInv
    OBVIOUS
  <2>1. PICK f \in Fresh : pointer = [p \in WinPlugins |-> [WIN |-> f, TWIN |-> f, DWIN |-> f]]
    BY DEF Init
  <2>2. f \in {"null", "garbage"}
    BY <2>1, LayoutsAssumption
  <2>3. \A p \in WinPlugins : ~has_window[p]
    BY LayoutsAssumption DEF Init
  <2>4. phase = "parse"
    BY DEF Init
  <2>5. pointer \in Pointers /\ OnlyTopbarsLive
    BY <2>1, <2>2 DEF Pointers, OnlyTopbarsLive
  <2> QED BY <2>3, <2>4, <2>5 DEF WindowsInv, FreeingIsSafe, CleansUp, Settled, Reads
<1> QED BY <1>1, NextCleansUp, PTL DEF Spec

(* render_layout() and clean_up() delete a pointer that is not a window    *)
(* only where malloc() left garbage or a render did not end, whatever      *)
(* layouts are chosen and however often.                                   *)
THEOREM OnlyWindowsAreDeleted == Spec => []CleansUp
<1>1. WindowsInv => CleansUp
  BY DEF WindowsInv
<1> QED BY <1>1, WindowsInvariant, PTL

-----------------------------------------------------------------------------
(* Induction, and functions that are given by a recurrence.                *)

(* Every non-empty set of natural numbers has a least element.             *)
LEMMA LeastNumber ==
  ASSUME NEW T \in SUBSET Nat, T # {}
  PROVE  \E x \in T : \A y \in T : x <= y
<1> DEFINE Less == {pair \in Nat \X Nat : pair[1] < pair[2]}
<1>1. IsWellFoundedOn(Less, Nat)
  BY NatLessThanWellFounded DEF OpToRel
<1> HIDE DEF Less
<1>2. PICK x \in T : \A y \in T : <<y, x>> \notin Less
  BY <1>1, WFMin
<1>3. \A y \in T : ~ (y < x)
  BY <1>2 DEF Less
<1>4. QED BY <1>3

(* Induction over the places 0 .. n, for a property stated as a set.       *)
LEMMA Induction ==
  ASSUME NEW n \in Nat, NEW S, 0 \in S, \A i \in 1 .. n : i - 1 \in S => i \in S
  PROVE  0 .. n \subseteq S
<1> SUFFICES ASSUME 0 .. n \ S # {} PROVE FALSE
  OBVIOUS
<1>1. PICK i \in 0 .. n \ S : \A j \in 0 .. n \ S : i <= j
  <2>1. (0 .. n \ S) \in SUBSET Nat
    OBVIOUS
  <2> QED BY <2>1, LeastNumber
<1>2. i \in 1 .. n /\ i - 1 \in 0 .. n
  BY <1>1
<1> QED BY <1>1, <1>2

(* There is a function that begins with a value and goes on as a step says.*)
IsStep(step, n, D) == step \in [(1 .. n) \X D -> D]
Iterates(f, start, step, n, D) ==
  f \in [0 .. n -> D] /\ f[0] = start /\ \A i \in 1 .. n : f[i] = step[<<i, f[i - 1]>>]
LEMMA Iteration ==
  ASSUME NEW D, NEW start \in D, NEW n \in Nat, NEW step, IsStep(step, n, D)
  PROVE  \E f : Iterates(f, start, step, n, D)
<1> DEFINE Goes(f, k) == f[0] = start /\ \A i \in 1 .. k : f[i] = step[<<i, f[i - 1]>>]
           Solved == {k \in Nat : \E f \in [0 .. k -> D] : Goes(f, k)}
<1>1. 0 \in Solved
  <2>1. [i \in 0 .. 0 |-> start] \in [0 .. 0 -> D] /\ Goes([i \in 0 .. 0 |-> start], 0)
    OBVIOUS
  <2> HIDE DEF Goes
  <2> QED BY <2>1
<1>2. ASSUME NEW k \in 1 .. n, k - 1 \in Solved PROVE k \in Solved
  <2>1. PICK f \in [0 .. k - 1 -> D] : Goes(f, k - 1)
    BY <1>2
  <2> DEFINE g == [i \in 0 .. k |-> IF i = k THEN step[<<k, f[k - 1]>>] ELSE f[i]]
  <2>2. f[k - 1] \in D /\ step[<<k, f[k - 1]>>] \in D
    <3>1. k - 1 \in 0 .. k - 1
      OBVIOUS
    <3>2. f[k - 1] \in D
      BY <3>1
    <3>3. <<k, f[k - 1]>> \in (1 .. n) \X D
      BY <3>2
    <3> QED BY <3>2, <3>3 DEF IsStep
  <2>3. g \in [0 .. k -> D]
    BY <2>2
  <2>4. \A i \in 0 .. k - 1 : g[i] = f[i]
    OBVIOUS
  <2>5. g[k] = step[<<k, f[k - 1]>>]
    OBVIOUS
  <2> HIDE DEF g
  <2>6. g[0] = start
    BY <2>1, <2>4
  <2>7. ASSUME NEW i \in 1 .. k PROVE g[i] = step[<<i, g[i - 1]>>]
    <3>1. g[i - 1] = f[i - 1]
      BY <2>4
    <3>2. CASE i = k
      BY <2>5, <3>1, <3>2
    <3>3. CASE i \in 1 .. k - 1
      BY <2>1, <2>4, <3>1, <3>3
    <3> QED BY <3>2, <3>3
  <2> QED BY <2>3, <2>6, <2>7
<1> HIDE DEF Solved
<1>3. n \in Solved
  BY <1>1, <1>2, Induction
<1> QED BY <1>3 DEF Solved, Iterates

(* A part of a sequence's places is finite.                                *)
LEMMA PlacesAreCounted ==
  ASSUME NEW n \in Nat, NEW S \in SUBSET (1 .. n)
  PROVE  Cardinality(S) \in Nat
<1>1. IsFiniteSet(1 .. n)
  BY FS_Interval
<1>2. IsFiniteSet(S)
  BY <1>1, FS_Subset
<1> QED BY <1>2, FS_CardinalityType

-----------------------------------------------------------------------------
(* What create_layout() reads                                              *)

(* What stands before the first comment.                                   *)
LEMMA ReadableIs == ASSUME NEW chars \in Seq(Chars) PROVE Readable(chars) \in Seq(Chars)
<1> DEFINE comments == {i \in 1 .. Len(chars) : chars[i] = "#"}
<1>1. CASE comments = {}
  BY <1>1 DEF Readable
<1>2. CASE comments # {}
  <2>1. \E i \in comments : \A j \in comments : i <= j
    <3>1. comments \subseteq Nat
      OBVIOUS
    <3> HIDE DEF comments
    <3> QED BY <1>2, <3>1, LeastNumber
  <2> DEFINE first == CHOOSE i \in comments : \A j \in comments : i <= j
  <2>2. first \in 1 .. Len(chars)
    BY <2>1
  <2>3. Readable(chars) = SubSeq(chars, 1, first - 1)
    BY <1>2 DEF Readable
  <2> HIDE DEF first
  <2> QED BY <2>2, <2>3, SubSeqProperties, LenProperties
<1> QED BY <1>1, <1>2

(* Character by character, what is kept of a text.                         *)
Keeps(keys, ch) == ch \in Keys \/ (ch = Newline /\ keys # <<>> /\ keys[Len(keys)] # Newline)
Kept(keys, ch) == IF Len(keys) <= KeyStrLen /\ Keeps(keys, ch) THEN Append(keys, ch) ELSE keys
KeysRead(read, text) ==
  /\ read \in [0 .. Len(text) -> Seq(Keys \cup {Newline})] /\ read[0] = <<>>
  /\ \A i \in 1 .. Len(text) : read[i] = Kept(read[i - 1], text[i])

LEMMA KeysAreRead ==
  ASSUME NEW chars \in Seq(Chars)
  PROVE  \E read : KeysRead(read, Readable(chars)) /\ KeyString(chars) = read[Len(Readable(chars))]
<1> DEFINE text == Readable(chars)
           n == Len(text)
           D == Seq(Keys \cup {Newline})
           Whole(f) == [i \in 0 .. n |-> IF i = 0 THEN <<>> ELSE Kept(f[i - 1], text[i])]
<1>1. n \in Nat
  BY ReadableIs, LenProperties
<1>2. ASSUME NEW keys \in D, NEW ch PROVE Kept(keys, ch) \in D
  BY AppendProperties DEF Kept, Keeps
<1>3. \E f \in [0 .. n -> D] : f = Whole(f)
  <2> DEFINE step == [x \in (1 .. n) \X D |-> Kept(x[2], text[x[1]])]
  <2> HIDE DEF n, text, D
  <2>1. IsStep(step, n, D)
    BY <1>2 DEF IsStep
  <2>2. <<>> \in D
    BY DEF D
  <2>3. PICK f \in [0 .. n -> D] : f[0] = <<>> /\ \A i \in 1 .. n : f[i] = step[<<i, f[i - 1]>>]
    <3> HIDE DEF step
    <3>1. \E f : Iterates(f, <<>>, step, n, D)
      BY <1>1, <2>1, <2>2, Iteration
    <3> QED BY <3>1 DEF Iterates
  <2>4. ASSUME NEW i \in 1 .. n PROVE f[i] = Kept(f[i - 1], text[i])
    <3>1. i - 1 \in 0 .. n
      BY <1>1
    <3>2. <<i, f[i - 1]>> \in (1 .. n) \X D
      BY <3>1
    <3> QED BY <2>3, <3>2
  <2>5. \A i \in 0 .. n : i = 0 \/ i \in 1 .. n
    BY <1>1
  <2> HIDE DEF step
  <2>6. f = Whole(f)
    BY <2>3, <2>4, <2>5
  <2> QED BY <2>6
<1>4. PICK read : read = Whole(read) /\ KeyString(chars) = read[n]
  BY <1>3 DEF KeyString, Kept, Keeps
<1> HIDE DEF n, text, D
<1>5. read[0] = <<>> /\ \A i \in 1 .. n : read[i] = Kept(read[i - 1], text[i])
  <2>1. \A i \in 0 .. n : read[i] = IF i = 0 THEN <<>> ELSE Kept(read[i - 1], text[i])
    <3> DEFINE h == Whole(read)
    <3>1. \A i \in 0 .. n : h[i] = IF i = 0 THEN <<>> ELSE Kept(read[i - 1], text[i])
      OBVIOUS
    <3>2. read = h
      BY <1>4
    <3> HIDE DEF h
    <3> QED BY <3>1, <3>2
  <2>2. \A i \in 1 .. n : i \in 0 .. n /\ i # 0
    BY <1>1
  <2> QED BY <1>1, <2>1, <2>2
<1>6. 0 .. n \subseteq {i \in Nat : read[i] \in D}
  <2> DEFINE S == {i \in Nat : read[i] \in D}
  <2>1. 0 \in S
    <3>1. <<>> \in D
      BY DEF D
    <3> QED BY <1>5, <3>1
  <2>2. \A i \in 1 .. n : i - 1 \in S => i \in S
    BY <1>1, <1>2, <1>5
  <2> HIDE DEF S
  <2>3. 0 .. n \subseteq S
    BY <1>1, <2>1, <2>2, Induction
  <2> QED BY <2>3 DEF S
<1>7. read \in [0 .. n -> D]
  <2>1. DOMAIN read = 0 .. n /\ read = [i \in DOMAIN read |-> read[i]]
    BY <1>4
  <2>2. \A i \in 0 .. n : read[i] \in D
    BY <1>6
  <2> QED BY <2>1, <2>2
<1> QED BY <1>4, <1>5, <1>7 DEF KeysRead, n, text, D

(* The string of keys holds keys and newlines only.                        *)
LEMMA KeyStringIs == ASSUME NEW chars \in Seq(Chars) PROVE KeyString(chars) \in Seq(Keys \cup {Newline})
<1>1. Len(Readable(chars)) \in Nat
  BY ReadableIs, LenProperties
<1> QED BY <1>1, KeysAreRead DEF KeysRead

(* A layout that is read is a rectangle of cells.                          *)
Rectangular(m) == Len(m) > 0 /\ Len(m[1]) > 0 /\ \A r \in 1 .. Len(m) : Len(m[r]) = Len(m[1])
LEMMA MatrixIs ==
  ASSUME NEW s \in Seq(Keys \cup {Newline}), RowRatio(s) # 0, ColRatio(s) # 0
  PROVE  Matrix(s) \in Seq(Seq(Cells)) /\ Rectangular(Matrix(s))
<1> DEFINE h == RowRatio(s)
           w == ColRatio(s)
           m(r, c) == (r - 1) * (w + 1) + c
           cell(r, c) == IF m(r, c) <= Len(s) THEN s[m(r, c)] ELSE Unwritten
           row(r) == [c \in 1 .. w |-> cell(r, c)]
<1>1. Len(s) \in Nat
  BY LenProperties
<1>2. h \in Nat \ {0} /\ w \in Nat \ {0}
  <2>1. h \in Nat
    BY <1>1, PlacesAreCounted DEF RowRatio, Newlines
  <2>2. w \in Nat
    BY <1>1, PlacesAreCounted DEF ColRatio
  <2> QED BY <2>1, <2>2
<1>3. Matrix(s) = [r \in 1 .. h |-> row(r)]
  BY DEF Matrix
<1>4. ASSUME NEW r \in 1 .. h, NEW c \in 1 .. w PROVE cell(r, c) \in Cells
  <2> HIDE DEF h, w
  <2>1. r - 1 \in Nat /\ w + 1 \in Nat /\ c \in Nat \ {0}
    BY <1>2
  <2>2. m(r, c) \in Nat \ {0}
    <3>1. (r - 1) * (w + 1) \in Nat
      BY <2>1
    <3> QED BY <2>1, <3>1
  <2> HIDE DEF m
  <2>3. m(r, c) <= Len(s) => s[m(r, c)] \in Keys \cup {Newline}
    BY <1>1, <2>2, ElementOfSeq
  <2> QED BY <2>3 DEF Cells
<1> HIDE DEF h, w, cell
<1>5. ASSUME NEW r \in 1 .. h PROVE row(r) \in Seq(Cells) /\ Len(row(r)) = w
  BY <1>2, <1>4
<1> HIDE DEF row
<1>6. [r \in 1 .. h |-> row(r)] \in Seq(Seq(Cells)) /\ Len([r \in 1 .. h |-> row(r)]) = h
  BY <1>2, <1>5
<1>7. Rectangular(Matrix(s))
  <2>1. Len(Matrix(s)) = h /\ \A r \in 1 .. h : Matrix(s)[r] = row(r)
    BY <1>3, <1>6
  <2>2. \A r \in 1 .. h : Len(Matrix(s)[r]) = w
    BY <1>5, <2>1
  <2> QED BY <1>2, <2>1, <2>2 DEF Rectangular
<1> QED BY <1>3, <1>6, <1>7

-----------------------------------------------------------------------------
(* The cells of a matrix and their windows                                 *)

(* The size of a rectangle.                                                *)
LEMMA SizesAre ==
  ASSUME NEW m \in Seq(Seq(Cells)), Rectangular(m)
  PROVE  Len(m) \in Nat \ {0} /\ Len(m[1]) \in Nat \ {0}
<1>1. Len(m) \in Nat \ {0}
  BY LenProperties DEF Rectangular
<1>2. m[1] \in Seq(Cells)
  BY <1>1, ElementOfSeq
<1> QED BY <1>1, <1>2, LenProperties DEF Rectangular

(* The scan visits every cell and nothing else.                            *)
LEMMA ScanVisitsCells ==
  ASSUME NEW m, Len(m) \in Nat \ {0}, Len(m[1]) \in Nat \ {0}
  PROVE  LET n == Len(m) * Len(m[1])
         IN /\ n \in Nat /\ \A k \in 1 .. n : Cell(m, k) \in CellsIn(m)
            /\ \A c \in CellsIn(m) : \E k \in 1 .. n : Cell(m, k) = c
            /\ \A j, k \in 1 .. n :
                 Cell(m, j)[1] <= Cell(m, k)[1] /\ Cell(m, j)[2] <= Cell(m, k)[2] => j <= k
<1>0. PICK h \in Nat \ {0}, w \in Nat \ {0} : h = Len(m) /\ w = Len(m[1])
  OBVIOUS
<1>1. h * w \in Nat
  OBVIOUS
<1>2. ASSUME NEW k \in 1 .. h * w PROVE Cell(m, k) \in CellsIn(m)
  <2> DEFINE q == (k - 1) \div w
             r == (k - 1) % w
  <2>1. q \in Nat /\ r \in 0 .. w - 1 /\ k - 1 = w * q + r
    <3>1. k - 1 \in Nat
      BY <1>1
    <3> HIDE DEF q, r
    <3> QED BY <3>1 DEF q, r
  <2> HIDE DEF q, r
  <2>2. q < h
    <3> SUFFICES ASSUME q >= h PROVE FALSE
      BY <2>1
    <3>1. w * q >= w * h
      BY <2>1
    <3> QED BY <1>1, <2>1, <3>1
  <2>3. Cell(m, k) = <<q + 1, r + 1>>
    BY <1>0 DEF Cell, q, r
  <2>4. q + 1 \in 1 .. h /\ r + 1 \in 1 .. w
    BY <2>1, <2>2
  <2> QED BY <1>0, <2>3, <2>4 DEF CellsIn
<1>3. ASSUME NEW c \in CellsIn(m) PROVE \E k \in 1 .. h * w : Cell(m, k) = c
  <2> DEFINE y == c[1] - 1
             x == c[2] - 1
             k == y * w + x + 1
  <2>1. y \in 0 .. h - 1 /\ x \in 0 .. w - 1 /\ c = <<y + 1, x + 1>>
    BY <1>0 DEF CellsIn
  <2> HIDE DEF y, x
  <2>2. y * w \in Nat /\ y * w <= (h - 1) * w /\ (h - 1) * w = h * w - w
    BY <2>1
  <2>3. k \in 1 .. h * w
    BY <1>1, <2>1, <2>2
  <2>4. (k - 1) \div w = y /\ (k - 1) % w = x
    BY <2>1, <2>2
  <2> HIDE DEF k
  <2> QED BY <1>0, <2>1, <2>3, <2>4 DEF Cell
<1>4. ASSUME NEW j \in 1 .. h * w, NEW k \in 1 .. h * w,
             Cell(m, j)[1] <= Cell(m, k)[1], Cell(m, j)[2] <= Cell(m, k)[2]
      PROVE  j <= k
  <2> DEFINE row(i) == (i - 1) \div w
             col(i) == (i - 1) % w
  <2>1. ASSUME NEW i \in 1 .. h * w
        PROVE  row(i) \in Nat /\ col(i) \in Nat /\ i - 1 = w * row(i) + col(i)
    <3>1. i - 1 \in Nat
      BY <1>1
    <3> QED BY <3>1
  <2>2. row(j) <= row(k) /\ col(j) <= col(k)
    <3>1. row(j) + 1 <= row(k) + 1 /\ col(j) + 1 <= col(k) + 1
      BY <1>0, <1>4 DEF Cell
    <3>2. row(j) \in Nat /\ row(k) \in Nat /\ col(j) \in Nat /\ col(k) \in Nat
      BY <2>1
    <3> HIDE DEF row, col
    <3> QED BY <3>1, <3>2
  <2> HIDE DEF row, col
  <2>3. w * row(j) <= w * row(k)
    <3>1. row(j) \in Nat /\ row(k) \in Nat
      BY <2>1
    <3> QED BY <2>2, <3>1
  <2>4. w * row(j) \in Nat /\ w * row(k) \in Nat
    BY SMTT(30), <2>1
  <2>5. j - 1 <= k - 1
    BY <1>1, <2>1, <2>2, <2>3, <2>4
  <2> QED BY <1>1, <2>5
<1> QED BY <1>0, <1>1, <1>2, <1>3, <1>4

(* The key of a cell goes down its column and along its row for a while.   *)
LEMMA LastRowIs ==
  ASSUME NEW m, Len(m) \in Nat, NEW y \in 1 .. Len(m), NEW x
  PROVE  /\ LastRow(m, y, x) \in y .. Len(m) /\ \A k \in y .. LastRow(m, y, x) : m[k][x] = m[y][x]
         /\ \A r \in y .. Len(m) : (\A k \in y .. r : m[k][x] = m[y][x]) => r <= LastRow(m, y, x)
<1> DEFINE other == {k \in y .. Len(m) : m[k][x] # m[y][x]}
           Is(i) == /\ \A k \in y .. i : m[k][x] = m[y][x]
                    /\ i < Len(m) => m[i + 1][x] # m[y][x]
<1>1. \E i \in y .. Len(m) : Is(i)
  <2>1. CASE other = {}
    <3>1. Len(m) \in y .. Len(m) /\ Is(Len(m))
      BY <2>1
    <3> QED BY <3>1
  <2>2. CASE other # {}
    <3>1. PICK k \in other : \A j \in other : k <= j
      <4>1. other \in SUBSET Nat
        OBVIOUS
      <4> HIDE DEF other
      <4> QED BY <2>2, <4>1, LeastNumber
    <3>2. k \in y .. Len(m) /\ k # y /\ m[k][x] # m[y][x]
      OBVIOUS
    <3>3. \A j \in y .. k - 1 : m[j][x] = m[y][x]
      BY <3>1, <3>2
    <3>4. k - 1 \in y .. Len(m) /\ Is(k - 1)
      BY <3>2, <3>3
    <3> QED BY <3>4
  <2> QED BY <2>1, <2>2
<1> DEFINE last == LastRow(m, y, x)
<1>2. last \in y .. Len(m) /\ Is(last)
  BY <1>1 DEF LastRow
<1>3. ASSUME NEW r \in y .. Len(m), \A k \in y .. r : m[k][x] = m[y][x], last < r PROVE FALSE
  <2>1. last + 1 \in y .. r /\ last < Len(m)
    BY <1>2, <1>3
  <2> HIDE DEF last
  <2> QED BY <1>2, <1>3, <2>1
<1> HIDE DEF last
<1> QED BY <1>2, <1>3 DEF last

LEMMA LastColIs ==
  ASSUME NEW m, Len(m[1]) \in Nat, NEW y, NEW x \in 1 .. Len(m[1])
  PROVE  /\ LastCol(m, y, x) \in x .. Len(m[1]) /\ \A k \in x .. LastCol(m, y, x) : m[y][k] = m[y][x]
         /\ \A r \in x .. Len(m[1]) : (\A k \in x .. r : m[y][k] = m[y][x]) => r <= LastCol(m, y, x)
<1> DEFINE other == {k \in x .. Len(m[1]) : m[y][k] # m[y][x]}
           Is(i) == /\ \A k \in x .. i : m[y][k] = m[y][x]
                    /\ i < Len(m[1]) => m[y][i + 1] # m[y][x]
<1>1. \E i \in x .. Len(m[1]) : Is(i)
  <2>1. CASE other = {}
    <3>1. Len(m[1]) \in x .. Len(m[1]) /\ Is(Len(m[1]))
      BY <2>1
    <3> QED BY <3>1
  <2>2. CASE other # {}
    <3>1. PICK k \in other : \A j \in other : k <= j
      <4>1. other \in SUBSET Nat
        OBVIOUS
      <4> HIDE DEF other
      <4> QED BY <2>2, <4>1, LeastNumber
    <3>2. k \in x .. Len(m[1]) /\ k # x /\ m[y][k] # m[y][x]
      OBVIOUS
    <3>3. \A j \in x .. k - 1 : m[y][j] = m[y][x]
      BY <3>1, <3>2
    <3>4. k - 1 \in x .. Len(m[1]) /\ Is(k - 1)
      BY <3>2, <3>3
    <3> QED BY <3>4
  <2> QED BY <2>1, <2>2
<1> DEFINE last == LastCol(m, y, x)
<1>2. last \in x .. Len(m[1]) /\ Is(last)
  BY <1>1 DEF LastCol
<1>3. ASSUME NEW r \in x .. Len(m[1]), \A k \in x .. r : m[y][k] = m[y][x], last < r PROVE FALSE
  <2>1. last + 1 \in x .. r /\ last < Len(m[1])
    BY <1>2, <1>3
  <2> HIDE DEF last
  <2> QED BY <1>2, <1>3, <2>1
<1> HIDE DEF last
<1> QED BY <1>2, <1>3 DEF last

(* The window at a cell takes cells of the matrix, its own one among them. *)
LEMMA BlockIs ==
  ASSUME NEW m \in Seq(Seq(Cells)), Rectangular(m), NEW d \in CellsIn(m)
  PROVE  d \in Block(m, d) /\ Block(m, d) \subseteq CellsIn(m)
<1>1. Len(m) \in Nat /\ Len(m[1]) \in Nat
  BY SizesAre
<1>2. d[1] \in 1 .. Len(m) /\ d[2] \in 1 .. Len(m[1]) /\ d = <<d[1], d[2]>>
  BY DEF CellsIn
<1>3. LastRow(m, d[1], d[2]) \in d[1] .. Len(m) /\ LastCol(m, d[1], d[2]) \in d[2] .. Len(m[1])
  BY <1>1, <1>2, LastRowIs, LastColIs
<1> QED BY <1>1, <1>2, <1>3 DEF Block, CellsIn

(* Every cell is taken by the window at some cell, and no window by another*)
LEMMA WindowsTakeAllCells ==
  ASSUME NEW m \in Seq(Seq(Cells)), Rectangular(m)
  PROVE  /\ WindowCells(m) \subseteq CellsIn(m)
         /\ \A c \in CellsIn(m) : \E d \in WindowCells(m) : c \in Block(m, d)
         /\ \A c, d \in WindowCells(m) : c \in Block(m, d) => c = d
<1> DEFINE n == Len(m) * Len(m[1])
           D == SUBSET CellsIn(m)
           Next1(k, before) == IF Cell(m, k) \in before THEN before ELSE before \cup Block(m, Cell(m, k))
           Whole(f) == [k \in 0 .. n |-> IF k = 0 THEN {} ELSE Next1(k, f[k - 1])]
<1>1. /\ n \in Nat /\ \A k \in 1 .. n : Cell(m, k) \in CellsIn(m)
      /\ \A c \in CellsIn(m) : \E k \in 1 .. n : Cell(m, k) = c
      /\ \A j, k \in 1 .. n : Cell(m, j)[1] <= Cell(m, k)[1] /\ Cell(m, j)[2] <= Cell(m, k)[2] => j <= k
  BY SizesAre, ScanVisitsCells
<1>2. ASSUME NEW k \in 1 .. n, NEW before \in D PROVE Next1(k, before) \in D
  <2>1. Block(m, Cell(m, k)) \subseteq CellsIn(m)
    BY <1>1, BlockIs
  <2> QED BY <2>1
<1> HIDE DEF n
<1>3. \E f : f = Whole(f)
  <2> DEFINE step == [x \in (1 .. n) \X D |-> Next1(x[1], x[2])]
  <2> HIDE DEF D, Next1
  <2>1. IsStep(step, n, D)
    BY <1>2 DEF IsStep
  <2>2. {} \in D
    BY DEF D
  <2>3. PICK f : Iterates(f, {}, step, n, D)
    <3> HIDE DEF step
    <3> QED BY <1>1, <2>1, <2>2, Iteration
  <2>4. ASSUME NEW k \in 1 .. n PROVE f[k] = Next1(k, f[k - 1])
    <3>1. k - 1 \in 0 .. n
      BY <1>1
    <3>2. <<k, f[k - 1]>> \in (1 .. n) \X D
      BY <2>3, <3>1 DEF Iterates
    <3> QED BY <2>3, <3>2 DEF Iterates
  <2>5. \A k \in 0 .. n : k = 0 \/ k \in 1 .. n
    BY <1>1
  <2>6. f = [k \in 0 .. n |-> f[k]] /\ f[0] = {}
    BY <2>3 DEF Iterates
  <2> HIDE DEF step
  <2>7. f = Whole(f)
    BY <2>4, <2>5, <2>6
  <2> QED BY <2>7
<1>4. PICK used : /\ used = Whole(used)
                  /\ WindowCells(m) = {Cell(m, k) : k \in {i \in 1 .. n : Cell(m, i) \notin used[i - 1]}}
  BY <1>3 DEF WindowCells, n
<1> HIDE DEF Next1
<1>5. used[0] = {} /\ \A k \in 1 .. n : used[k] = Next1(k, used[k - 1])
  <2>1. \A k \in 0 .. n : used[k] = IF k = 0 THEN {} ELSE Next1(k, used[k - 1])
    <3> DEFINE h == Whole(used)
    <3>1. \A k \in 0 .. n : h[k] = IF k = 0 THEN {} ELSE Next1(k, used[k - 1])
      OBVIOUS
    <3>2. used = h
      BY <1>4
    <3> HIDE DEF h
    <3> QED BY <3>1, <3>2
  <2>2. \A k \in 1 .. n : k \in 0 .. n /\ k # 0
    BY <1>1
  <2> QED BY <1>1, <2>1, <2>2
<1>6. WindowCells(m) \subseteq CellsIn(m)
  BY <1>1, <1>4
<1> DEFINE Taken(c) == \E d \in WindowCells(m) : c \in Block(m, d)
           S == {k \in Nat : \A c \in used[k] : Taken(c)}
<1>7. 0 .. n \subseteq S
  <2>1. 0 \in S
    BY <1>5
  <2>2. ASSUME NEW k \in 1 .. n, k - 1 \in S PROVE k \in S
    <3>1. CASE Cell(m, k) \in used[k - 1]
      <4>1. used[k] = used[k - 1]
        BY <1>5, <3>1 DEF Next1
      <4> QED BY <1>1, <2>2, <4>1
    <3>2. CASE Cell(m, k) \notin used[k - 1]
      <4>1. used[k] = used[k - 1] \cup Block(m, Cell(m, k))
        BY <1>5, <3>2 DEF Next1
      <4>2. Cell(m, k) \in WindowCells(m)
        BY <1>4, <3>2
      <4> QED BY <1>1, <2>2, <4>1, <4>2
    <3> QED BY <3>1, <3>2
  <2> HIDE DEF S
  <2> QED BY <1>1, <2>1, <2>2, Induction
<1>8. ASSUME NEW c \in CellsIn(m) PROVE Taken(c)
  <2>1. PICK k \in 1 .. n : Cell(m, k) = c
    BY <1>1
  <2>2. CASE c \in used[k - 1]
    <3>1. k - 1 \in S
      BY <1>1, <1>7
    <3> QED BY <2>2, <3>1
  <2>3. CASE c \notin used[k - 1]
    <3>1. c \in WindowCells(m)
      BY <1>4, <2>1, <2>3
    <3> QED BY <3>1, BlockIs
  <2> QED BY <2>2, <2>3
<1>9. ASSUME NEW j \in 1 .. n, NEW k \in j .. n PROVE used[j] \subseteq used[k]
  <2> DEFINE T == {i \in Nat : i + j <= n => used[j] \subseteq used[i + j]}
  <2>1. 0 \in T
    BY <1>1
  <2>2. ASSUME NEW i \in 1 .. n - j, i - 1 \in T PROVE i \in T
    <3>1. used[j] \subseteq used[i + j - 1]
      BY <1>1, <2>2
    <3>2. i + j \in 1 .. n /\ used[i + j] = Next1(i + j, used[i + j - 1])
      BY <1>1, <1>5
    <3>3. used[i + j - 1] \subseteq used[i + j]
      BY <3>2 DEF Next1
    <3> QED BY <1>1, <3>1, <3>3
  <2>3. n - j \in Nat /\ k - j \in 0 .. n - j
    BY <1>1
  <2>4. k - j \in T
    <3> HIDE DEF T
    <3> QED BY <2>1, <2>2, <2>3, Induction
  <2> QED BY <1>1, <2>4
<1>10. ASSUME NEW c \in WindowCells(m), NEW d \in WindowCells(m), c \in Block(m, d) PROVE c = d
  <2>1. PICK k \in 1 .. n : c = Cell(m, k) /\ Cell(m, k) \notin used[k - 1]
    BY <1>4
  <2>2. PICK j \in 1 .. n : d = Cell(m, j) /\ Cell(m, j) \notin used[j - 1]
    BY <1>4
  <2>3. d[1] <= c[1] /\ d[2] <= c[2]
    <3>1. d \in CellsIn(m)
      BY <1>6
    <3>2. Len(m) \in Nat /\ Len(m[1]) \in Nat
      BY SizesAre
    <3>3. d[1] \in 1 .. Len(m) /\ d[2] \in 1 .. Len(m[1])
      BY <3>1 DEF CellsIn
    <3>4. LastRow(m, d[1], d[2]) \in d[1] .. Len(m) /\ LastCol(m, d[1], d[2]) \in d[2] .. Len(m[1])
      BY <3>2, <3>3, LastRowIs, LastColIs
    <3> QED BY <1>10, <3>2, <3>3, <3>4 DEF Block
  <2>4. j <= k
    BY <1>1, <2>1, <2>2, <2>3
  <2>5. CASE j = k
    BY <2>1, <2>2, <2>5
  <2>6. CASE j # k
    <3>1. used[j] = used[j - 1] \cup Block(m, Cell(m, j))
      BY <1>5, <2>2 DEF Next1
    <3>2. c \in used[j]
      BY <1>10, <2>2, <3>1
    <3>3. k - 1 \in j .. n
      BY <1>1, <2>4, <2>6
    <3> QED BY <1>9, <2>1, <3>2, <3>3
  <2> QED BY <2>5, <2>6
<1> QED BY <1>6, <1>8, <1>10

-----------------------------------------------------------------------------
(* The layout on the screen                                                *)

Rendering == {"find", "calculate", "header", "windows"}
Up == {"render", "run", "choose"}

(* The layouts that were read are rectangles of cells, and there is one as *)
(* soon as a [layout] section is read.                                     *)
Records == [label : STRING, header : Seq(Keys \cup {Newline}), header_rows : Nat, matrix : Seq(Seq(Cells))]
LayoutsAreRead ==
  /\ layouts \in Seq(Records)
  /\ \A i \in 1 .. Len(layouts) : Rectangular(layouts[i].matrix)
  /\ phase \in Rendering \cup Up => layouts # <<>>
  /\ phase \in Reads => \A s \in 1 .. Len(file) :
       s < at.section /\ file[s].section = "layout" => layouts # <<>>

(* What is to be rendered is the first layout or the one that was chosen.  *)
Choice ==
  /\ phase \in Reads => curr_layout = 0
  /\ phase \in Up \cup {"find"} => curr_layout \in 0 .. Len(layouts)
  /\ phase \in {"calculate", "header", "windows", "run", "choose"} => curr_layout \in 1 .. Len(layouts)
  /\ phase = "render" /\ curr_layout = 0 => \A p \in WinPlugins : ~has_window[p]
  /\ phase = "choose" => curr_option \in 1 .. Len(layouts) + 1
  /\ phase \in {"render", "find"} =>
       target = FirstLayout \/ (curr_option \in 1 .. Len(layouts) /\ target = layouts[curr_option].label)
  /\ phase \in {"calculate", "header", "windows"} /\ DistinctLabels =>
       curr_layout = IF target = FirstLayout THEN 1 ELSE curr_option

(* The plugins in the art are shown, and no others.                        *)
ShownAreDrawn ==
  phase \in {"header", "windows", "run", "choose"} => \A p \in WinPlugins :
    /\ has_window[p] => CellsOf(p) # {}
    /\ Blocks /\ CellsOf(p) # {} => has_window[p]

(* While a layout is rendered no window is left, else those that are shown *)
(* exist.                                                                  *)
ShownExist ==
  \A p \in WinPlugins :
    /\ phase \in Rendering => \A k \in {"WIN", "TWIN", "DWIN"} : pointer[p][k] # "live"
    /\ phase \in Reads \cup Up =>
         /\ \A k \in {"WIN", "DWIN"} : pointer[p][k] = "live" <=> has_window[p]
         /\ pointer[p].TWIN = "live" <=> has_window[p] /\ p \in TopbarPlugins

(* The inductive invariant, beside those above.                            *)
ScreenInv == LayoutsAreRead /\ Choice /\ ShownAreDrawn /\ ShownExist

(* get_label_layout() finds a layout, and the one that is meant.           *)
LEMMA LabelIsFound ==
  ASSUME layouts \in Seq(Records), layouts # <<>>,
         target = FirstLayout \/ (curr_option \in 1 .. Len(layouts) /\ target = layouts[curr_option].label)
  PROVE  /\ LabelLayout(target) \in 1 .. Len(layouts)
         /\ DistinctLabels => LabelLayout(target) = IF target = FirstLayout THEN 1 ELSE curr_option
<1> DEFINE Is(i) == /\ target \in {FirstLayout, layouts[i].label}
                    /\ \A j \in 1 .. i - 1 : target \notin {FirstLayout, layouts[j].label}
<1>1. Len(layouts) \in Nat \ {0}
  BY LenProperties, EmptySeq
<1>2. CASE target = FirstLayout
  <2>1. 1 \in 1 .. Len(layouts) /\ Is(1)
    BY <1>1, <1>2
  <2>2. \A i \in 1 .. Len(layouts) : Is(i) => i = 1
    <3> SUFFICES ASSUME NEW i \in 1 .. Len(layouts), Is(i), i # 1 PROVE FALSE
      OBVIOUS
    <3>1. 1 \in 1 .. i - 1
      OBVIOUS
    <3> QED BY <1>2, <3>1
  <2>3. LabelLayout(target) = 1
    BY <2>1, <2>2 DEF LabelLayout
  <2> QED BY <1>1, <1>2, <2>3
<1>3. CASE target # FirstLayout
  <2> DEFINE named == {i \in 1 .. Len(layouts) : layouts[i].label = target}
  <2>1. curr_option \in named
    BY <1>3
  <2>2. PICK first \in named : \A i \in named : first <= i
    <3>1. named \in SUBSET Nat
      OBVIOUS
    <3> HIDE DEF named
    <3> QED BY <2>1, <3>1, LeastNumber
  <2>3. first \in 1 .. Len(layouts) /\ Is(first)
    <3>1. ASSUME NEW j \in 1 .. first - 1 PROVE target \notin {FirstLayout, layouts[j].label}
      <4>1. j \in 1 .. Len(layouts) /\ ~(first <= j)
        OBVIOUS
      <4> QED BY <1>3, <2>2, <4>1
    <3> QED BY <3>1
  <2>4. LabelLayout(target) \in 1 .. Len(layouts) /\ Is(LabelLayout(target))
    BY <2>3 DEF LabelLayout
  <2>5. layouts[LabelLayout(target)].label = layouts[curr_option].label
    BY <1>3, <2>1, <2>4
  <2>6. DistinctLabels => LabelLayout(target) = curr_option
    BY <2>1, <2>4, <2>5 DEF DistinctLabels
  <2> QED BY <1>3, <2>4, <2>6
<1> QED BY <1>2, <1>3

(* The popup opens on a label of the list.                                 *)
LEMMA PopupOpensOnLabel ==
  ASSUME layouts \in Seq(Records), curr_layout \in 1 .. Len(layouts), OpenPopup
  PROVE  curr_option' \in 1 .. Len(layouts)
<1> DEFINE Named(i) == layouts[i].label = layouts[curr_layout].label
           behind == {n \in 0 .. Len(layouts) - 1 : Named(Len(layouts) - n)}
           Is(i) == Named(i) /\ \A j \in i + 1 .. Len(layouts) : ~Named(j)
<1>1. Len(layouts) \in Nat
  BY LenProperties
<1> HIDE DEF Named
<1>2. Len(layouts) - curr_layout \in behind
  <2>1. Len(layouts) - (Len(layouts) - curr_layout) = curr_layout
    BY <1>1
  <2>2. Named(curr_layout)
    BY DEF Named
  <2> QED BY <1>1, <2>1, <2>2
<1>3. PICK n \in behind : \A i \in behind : n <= i
  <2>1. behind \in SUBSET Nat
    BY <1>1
  <2> HIDE DEF behind
  <2> QED BY <1>2, <2>1, LeastNumber
<1>4. Len(layouts) - n \in 1 .. Len(layouts) /\ Is(Len(layouts) - n)
  <2>1. ASSUME NEW j \in Len(layouts) - n + 1 .. Len(layouts), Named(j) PROVE FALSE
    <3>1. Len(layouts) - (Len(layouts) - j) = j /\ Len(layouts) - j \in 0 .. Len(layouts) - 1
      BY <1>1
    <3>2. Len(layouts) - j \in behind
      BY <2>1, <3>1
    <3>3. n <= Len(layouts) - j /\ n \in Nat
      <4>1. n \in Nat
        OBVIOUS
      <4> HIDE DEF behind
      <4> QED BY <1>3, <3>2, <4>1
    <3> QED BY <1>1, <3>3
  <2> QED BY <1>1, <2>1
<1>5. curr_option' = CHOOSE i \in 1 .. Len(layouts) : Is(i)
  BY DEF OpenPopup, Named
<1> HIDE DEF Is
<1> QED BY <1>4, <1>5

(* Where every plugin's cells are a rectangle no window hides another.     *)
LEMMA CalculateShows ==
  ASSUME Art \in Seq(Seq(Cells)), Rectangular(Art), Calculate, phase' = "header"
  PROVE  ShownAreDrawn'
<1> DEFINE m == Art
           of(c) == plugin_key_index[m[c[1]][c[2]]]
           mine(p) == {c \in WindowCells(m) : of(c) = p}
<1>1. UNCHANGED <<plugin_key_index, layouts, curr_layout>>
  BY DEF Calculate, parsing
<1>2. /\ \A c \in CellsIn(m) : of(c) \in WinPlugins
      /\ has_window' = [p \in Plugins |-> mine(p) # {}]
  BY DEF Calculate, Bound, Art
<1>3. \A p : CellsOf(p)' = CellsOf(p) /\ CellsOf(p) = {c \in CellsIn(m) : of(c) = p}
  BY <1>1 DEF CellsOf, Art
<1>4. WinPlugins \subseteq Plugins
  BY LayoutsAssumption
<1>5. ASSUME NEW p \in WinPlugins PROVE has_window'[p] = (mine(p) # {})
  BY <1>2, <1>4
<1>6. /\ WindowCells(m) \subseteq CellsIn(m)
      /\ \A c \in CellsIn(m) : \E d \in WindowCells(m) : c \in Block(m, d)
  BY WindowsTakeAllCells
<1> HIDE DEF m
<1>7. ASSUME NEW p \in WinPlugins, mine(p) # {} PROVE CellsOf(p)' # {}
  BY <1>3, <1>6, <1>7
<1>8. ASSUME NEW p \in WinPlugins, Blocks', CellsOf(p)' # {} PROVE mine(p) # {}
  <2>1. PICK c \in CellsIn(m) : of(c) = p
    BY <1>3, <1>8
  <2>2. PICK d \in WindowCells(m) : c \in Block(m, d)
    BY <1>6
  <2> DEFINE down == <<c[1], d[2]>>
             along == <<d[1], c[2]>>
  <2>3. d \in CellsIn(m) /\ d[1] \in 1 .. Len(m) /\ d[2] \in 1 .. Len(m[1])
    BY <1>6 DEF CellsIn
  <2>4. Len(m) \in Nat /\ Len(m[1]) \in Nat
    BY SizesAre DEF m
  <2>5. c[1] \in d[1] .. LastRow(m, d[1], d[2]) /\ c[2] \in d[2] .. LastCol(m, d[1], d[2]) /\ c = <<c[1], c[2]>>
    BY <2>2 DEF Block
  <2>6. m[c[1]][d[2]] = m[d[1]][d[2]] /\ m[d[1]][c[2]] = m[d[1]][d[2]]
    <3>1. \A k \in d[1] .. LastRow(m, d[1], d[2]) : m[k][d[2]] = m[d[1]][d[2]]
      BY SMTT(30), <2>3, <2>4, LastRowIs
    <3>2. \A k \in d[2] .. LastCol(m, d[1], d[2]) : m[d[1]][k] = m[d[1]][d[2]]
      BY <2>3, <2>4, LastColIs
    <3> QED BY <2>5, <3>1, <3>2
  <2>7. down \in CellsIn(m) /\ along \in CellsIn(m)
    BY <2>3, <2>5 DEF CellsIn
  <2>8. PICK q \in WinPlugins : q = of(d)
    BY <1>2, <2>3
  <2>9. q \in Shown'
    BY <1>5, <2>2, <2>8 DEF Shown
  <2>10. of(down) = q /\ of(along) = q
    BY <2>6, <2>8
  <2> HIDE DEF of
  <2>11. down \in CellsOf(q)' /\ along \in CellsOf(q)'
    BY <1>3, <2>7, <2>10
  <2>12. <<down[1], along[2]>> \in CellsOf(q)'
    <3> HIDE DEF down, along
    <3> QED BY <1>8, <2>9, <2>11 DEF Blocks
  <2>13. c \in CellsOf(q)'
    BY <2>5, <2>12
  <2>14. of(c) = q
    BY <1>3, <2>13
  <2>15. d \in mine(p)
    BY <2>1, <2>2, <2>8, <2>14
  <2> QED BY <2>15
<1> QED BY <1>5, <1>7, <1>8 DEF ShownAreDrawn

(* No layout is read but from its section, and no session starts without   *)
(* one.                                                                    *)
LEMMA NextReads == BindingInv /\ LayoutsAreRead /\ [Next]_vars => LayoutsAreRead'
<1> SUFFICES ASSUME BindingInv, LayoutsAreRead, [Next]_vars PROVE LayoutsAreRead'
  OBVIOUS
<1>1. /\ file \in Files /\ at.section \in Nat \ {0} /\ Len(file) \in Nat /\ layouts \in Seq(Records)
  <2>1. file \in Files /\ at \in [section : Nat \ {0}, line : Nat \ {0}]
    BY DEF BindingInv
  <2> QED BY <2>1, SectionsAre DEF LayoutsAreRead
<1>2. ASSUME UNCHANGED <<file, at, layouts>>, phase' \in Rendering \cup Up => phase \in Rendering \cup Up,
             phase' \in Reads => phase \in Reads
      PROVE  LayoutsAreRead'
  BY <1>2 DEF LayoutsAreRead
<1>3. ASSUME UNCHANGED <<file, layouts>>, phase \in Reads, phase' \notin Rendering \cup Up,
             at'.section \in {at.section, at.section + 1},
             at'.section # at.section => file[at.section].section # "layout"
      PROVE  LayoutsAreRead'
  <2>1. \A s \in 1 .. Len(file) :
          s < at'.section /\ file[s].section = "layout" => s < at.section
    BY <1>1, <1>3
  <2> QED BY <1>3, <2>1 DEF LayoutsAreRead
<1>4. CASE ReadCommand
  <2>1. /\ UNCHANGED <<file, layouts>> /\ phase = "parse" /\ phase' \in {"parse", "loops", "undefined", "failed"}
        /\ at'.section = at.section + 1 /\ file[at.section].section = "command"
    BY <1>4 DEF ReadCommand, Reading, NextSection
  <2> QED BY <1>3, <2>1 DEF Reads, Rendering, Up
<1>5. CASE ReadBinding
  <2>1. /\ UNCHANGED <<file, layouts>> /\ phase = "parse" /\ phase' \in {"parse", "search"}
        /\ at'.section \in {at.section, at.section + 1} /\ file[at.section].section = "plugins"
    BY <1>5 DEF ReadBinding, Reading, NextSection
  <2> QED BY <1>3, <2>1 DEF Reads, Rendering, Up
<1>6. CASE Probe
  <2>1. /\ UNCHANGED <<file, layouts>> /\ phase = "search" /\ phase' \in {"parse", "search"}
        /\ at'.section = at.section
    <3>1. at \in [section : Nat \ {0}, line : Nat \ {0}]
      BY DEF BindingInv
    <3> QED BY <1>6, <3>1 DEF Probe
  <2> QED BY <1>3, <2>1 DEF Reads, Rendering, Up
<1>7. CASE ReadLayout
  <2>1. CASE phase' # "parse"
    <3>1. /\ UNCHANGED <<file, layouts>> /\ phase' \in {"undefined", "failed"}
      BY <1>7, <2>1 DEF ReadLayout, Reading
    <3> QED BY <1>1, <3>1 DEF LayoutsAreRead, Reads, Rendering, Up
  <2>2. CASE phase' = "parse"
    <3> DEFINE header == KeyString(Section.header)
               art == KeyString(Section.art)
               layout == [label |-> Section.label, header |-> header,
                          header_rows |-> RowRatio(header), matrix |-> Matrix(art)]
    <3>1. /\ UNCHANGED file /\ RowRatio(art) # 0 /\ ColRatio(art) # 0 /\ layouts' = Append(layouts, layout)
          /\ at.section \in 1 .. Len(file) /\ Section.section = "layout"
      BY <1>1, <1>7, <2>2 DEF ReadLayout, Reading, Section
    <3>2. Section.label \in STRING /\ Section.header \in Seq(Chars) /\ Section.art \in Seq(Chars)
      BY <1>1, <3>1, SectionsAre DEF Section
    <3>3. header \in Seq(Keys \cup {Newline}) /\ art \in Seq(Keys \cup {Newline})
      BY <3>2, KeyStringIs
    <3> HIDE DEF header, art
    <3>4. Matrix(art) \in Seq(Seq(Cells)) /\ Rectangular(Matrix(art))
      BY <3>1, <3>3, MatrixIs
    <3>5. RowRatio(header) \in Nat
      <4>1. Len(header) \in Nat
        BY <3>3, LenProperties
      <4> QED BY <4>1, PlacesAreCounted DEF RowRatio, Newlines
    <3>6. layout \in Records /\ layout.matrix = Matrix(art)
      BY <3>2, <3>3, <3>4, <3>5 DEF Records
    <3> HIDE DEF layout
    <3>7. /\ layouts' \in Seq(Records) /\ Len(layouts') = Len(layouts) + 1 /\ Len(layouts) \in Nat
          /\ \A i \in 1 .. Len(layouts) : layouts'[i] = layouts[i]
          /\ layouts'[Len(layouts) + 1] = layout
      BY <1>1, <3>1, <3>6, AppendProperties, LenProperties
    <3>8. \A i \in 1 .. Len(layouts') : Rectangular(layouts'[i].matrix)
      BY <3>4, <3>6, <3>7 DEF LayoutsAreRead
    <3>9. layouts' # <<>>
      BY <3>7, EmptySeq
    <3> QED BY <3>7, <3>8, <3>9 DEF LayoutsAreRead
  <2> QED BY <2>1, <2>2
<1>8. CASE Start
  <2>1. PICK s \in 1 .. Len(file) : file[s].section = "layout"
    BY <1>1, LayoutsAssumption
  <2>2. phase = "parse" /\ s < at.section /\ UNCHANGED <<file, at, layouts>> /\ phase' = "render"
    BY <1>1, <1>8 DEF Start, parsing
  <2>3. layouts # <<>>
    BY <2>1, <2>2 DEF LayoutsAreRead, Reads
  <2> QED BY <2>2, <2>3 DEF LayoutsAreRead, Reads, Up
<1>9. CASE NotFound \/ Free \/ Find \/ Calculate \/ RenderHeader \/ RenderWindows
  <2>1. UNCHANGED <<file, at, layouts>>
    BY <1>9 DEF NotFound, Free, Find, Calculate, RenderHeader, RenderWindows, parsing
  <2>2. /\ phase \in {"search", "render"} \cup Rendering
        /\ phase = "search" => phase' = "failed"
        /\ phase' \notin Reads
    BY <1>9 DEF NotFound, Free, FreeNcWindowData, Find, Calculate, RenderHeader, RenderWindows, Rendering, Reads
  <2> QED BY <1>2, <2>1, <2>2 DEF Rendering, Up
<1>10. CASE RunPlugin \/ OpenPopup \/ Highlight \/ Enter \/ Leave \/ Restart \/ Resize
  <2>1. /\ UNCHANGED <<file, at, layouts>> /\ phase \in Up
        /\ phase' \in {"run", "choose", "failed", "render"}
    BY <1>10 DEF RunPlugin, SendCommand, SelectWindow, FindTitle, OpenPopup, Highlight, Enter, Leave,
                 Restart, Resize, parsing, Up
  <2> QED BY <1>2, <2>1 DEF Reads
<1>11. CASE CleanUp
  <2>1. UNCHANGED <<file, at, layouts>> /\ phase' \in {"undefined", "closed", "dirty"}
    BY <1>11 DEF CleanUp, FreeNcWindowData, parsing
  <2> QED BY <1>2, <2>1 DEF Reads, Rendering, Up
<1>12. CASE UNCHANGED vars
  BY <1>2, <1>12 DEF vars, parsing
<1> QED BY <1>4, <1>5, <1>6, <1>7, <1>8, <1>9, <1>10, <1>11, <1>12 DEF Next

(* What is chosen is what is rendered.                                     *)
LEMMA NextChooses ==
  WindowsInv /\ LayoutsAreRead /\ LayoutsAreRead' /\ Choice /\ [Next]_vars => Choice'
<1> SUFFICES ASSUME WindowsInv, LayoutsAreRead, LayoutsAreRead', Choice, [Next]_vars PROVE Choice'
  OBVIOUS
<1>1. layouts \in Seq(Records) /\ Len(layouts) \in Nat
  BY LenProperties DEF LayoutsAreRead
<1>2. ASSUME phase' \in {"failed", "undefined", "closed", "dirty"} PROVE Choice'
  BY <1>2 DEF Choice, Reads, Up
<1>3. CASE ReadCommand \/ ReadBinding \/ Probe \/ NotFound \/ ReadLayout
  <2>1. phase \in Reads /\ UNCHANGED curr_layout /\ phase' \in Reads \cup {"failed", "undefined"}
    BY <1>3 DEF ReadCommand, ReadBinding, Probe, NotFound, ReadLayout, Reading, geometry, Reads
  <2> QED BY <2>1 DEF Choice, Reads, Up
<1>4. CASE Start
  <2>1. /\ phase \in Reads /\ UNCHANGED <<curr_layout, has_window, layouts>> /\ phase' = "render"
        /\ target' = FirstLayout
    BY <1>4 DEF Start, geometry, parsing, Reads
  <2>2. \A p \in WinPlugins : ~has_window[p]
    BY <2>1 DEF WindowsInv, FreeingIsSafe
  <2> QED BY <1>1, <2>1, <2>2 DEF Choice, Reads, Up
<1>5. CASE Free
  <2>1. /\ phase = "render" /\ phase' \in {"find", "dirty"}
        /\ UNCHANGED <<curr_layout, layouts, curr_option, target>>
    BY <1>5 DEF Free, FreeNcWindowData, geometry, parsing
  <2> QED BY <2>1 DEF Choice, Reads, Up
<1>6. CASE Find
  <2>1. /\ phase = "find" /\ phase' = "calculate" /\ curr_layout' = LabelLayout(target)
        /\ UNCHANGED <<layouts, curr_option, target>>
    BY <1>6 DEF Find, parsing
  <2>2. target = FirstLayout \/ (curr_option \in 1 .. Len(layouts) /\ target = layouts[curr_option].label)
    BY <2>1 DEF Choice
  <2>3. layouts # <<>>
    BY <2>1 DEF LayoutsAreRead, Rendering
  <2>4. /\ curr_layout' \in 1 .. Len(layouts')
        /\ DistinctLabels' => curr_layout' = IF target' = FirstLayout THEN 1 ELSE curr_option'
    BY <1>1, <2>1, <2>2, <2>3, LabelIsFound DEF DistinctLabels
  <2> QED BY <2>1, <2>4 DEF Choice, Reads, Up
<1>7. CASE Calculate \/ RenderHeader \/ RenderWindows
  <2>1. /\ phase \in {"calculate", "header", "windows"}
        /\ phase' \in {"header", "windows", "run", "failed", "undefined"}
        /\ UNCHANGED <<curr_layout, layouts, curr_option, target>>
    BY <1>7 DEF Calculate, RenderHeader, RenderWindows, geometry, parsing
  <2>2. DistinctLabels' <=> DistinctLabels
    BY <2>1 DEF DistinctLabels
  <2>3. phase' \in {"header", "windows"} => phase \in {"calculate", "header", "windows"}
    BY <2>1
  <2> QED BY <1>1, <2>1, <2>2, <2>3 DEF Choice, Reads, Up
<1>8. CASE OpenPopup
  <2>1. phase = "run" /\ phase' = "choose" /\ UNCHANGED <<curr_layout, layouts>>
    BY <1>8 DEF OpenPopup, geometry, parsing
  <2>2. curr_layout \in 1 .. Len(layouts)
    BY <2>1 DEF Choice
  <2>3. curr_option' \in 1 .. Len(layouts)
    BY <1>1, <1>8, <2>2, PopupOpensOnLabel
  <2> QED BY <1>1, <2>1, <2>2, <2>3 DEF Choice, Reads, Up
<1>9. CASE Highlight
  BY <1>9 DEF Highlight, geometry, parsing, Choice, Reads, Up
<1>10. CASE Enter
  <2>1. CASE curr_option <= Len(layouts)
    <3>1. /\ phase = "choose" /\ phase' = "render" /\ curr_layout' = curr_option
          /\ target' = layouts[curr_option].label /\ UNCHANGED <<layouts, curr_option>>
      BY <1>10, <2>1 DEF Enter, parsing
    <3>2. curr_option \in 1 .. Len(layouts)
      BY <1>1, <2>1, <3>1 DEF Choice
    <3> QED BY <1>1, <3>1, <3>2 DEF Choice, Reads, Up
  <2>2. CASE ~(curr_option <= Len(layouts))
    <3>1. phase = "choose" /\ phase' = "run" /\ UNCHANGED <<curr_layout, layouts>>
      BY <1>10, <2>2 DEF Enter, parsing
    <3> QED BY <1>1, <3>1 DEF Choice, Reads, Up
  <2> QED BY <2>1, <2>2
<1>11. CASE RunPlugin \/ Leave \/ Restart \/ Resize
  <2>1. /\ phase \in {"run", "choose"} /\ UNCHANGED <<curr_layout, layouts>>
        /\ phase' \in {"run", "failed"} \/ (phase' = "render" /\ target' = FirstLayout)
    BY <1>11 DEF RunPlugin, SendCommand, SelectWindow, FindTitle, Leave, Restart, Resize, geometry, parsing
  <2>2. curr_layout \in 1 .. Len(layouts)
    BY <2>1 DEF Choice
  <2> QED BY <1>1, <2>1, <2>2 DEF Choice, Reads, Up
<1>12. CASE CleanUp
  <2>1. phase' \in {"undefined", "closed", "dirty"}
    BY <1>12 DEF CleanUp, FreeNcWindowData
  <2> QED BY <1>2, <2>1
<1>13. CASE UNCHANGED vars
  BY <1>13 DEF vars, parsing, geometry, Choice, DistinctLabels
<1> QED BY <1>3, <1>4, <1>5, <1>6, <1>7, <1>8, <1>9, <1>10, <1>11, <1>12, <1>13 DEF Next

(* What is shown changes only when a layout is calculated.                 *)
LEMMA NextDraws == LayoutsAreRead /\ Choice /\ ShownAreDrawn /\ [Next]_vars => ShownAreDrawn'
<1> SUFFICES ASSUME LayoutsAreRead, Choice, ShownAreDrawn, [Next]_vars PROVE ShownAreDrawn'
  OBVIOUS
<1>1. ASSUME phase' \notin {"header", "windows", "run", "choose"} PROVE ShownAreDrawn'
  BY <1>1 DEF ShownAreDrawn
<1>2. ASSUME UNCHANGED <<layouts, plugin_key_index, curr_layout, has_window>>,
             phase \in {"header", "windows", "run", "choose"}
      PROVE  ShownAreDrawn'
  <2>1. \A p : CellsOf(p)' = CellsOf(p)
    BY <1>2 DEF CellsOf, Art
  <2>2. Shown' = Shown
    BY <1>2 DEF Shown
  <2>3. Blocks' <=> Blocks
    BY <2>1, <2>2 DEF Blocks
  <2> QED BY <1>2, <2>1, <2>3 DEF ShownAreDrawn
<1>3. CASE ReadCommand \/ ReadBinding \/ Probe \/ NotFound \/ ReadLayout \/ Start \/ Free \/ Find \/ CleanUp
  <2>1. phase' \notin {"header", "windows", "run", "choose"}
    BY <1>3 DEF ReadCommand, ReadBinding, Probe, NotFound, ReadLayout, Start, Free, Find, CleanUp, Reading,
                FreeNcWindowData
  <2> QED BY <1>1, <2>1
<1>4. CASE Calculate
  <2>1. phase = "calculate" /\ phase' \in {"header", "undefined"}
    BY <1>4 DEF Calculate
  <2>2. CASE phase' = "undefined"
    BY <1>1, <2>2
  <2>3. CASE phase' = "header"
    <3>1. curr_layout \in 1 .. Len(layouts) /\ layouts \in Seq(Records) /\ Rectangular(Art)
      BY <2>1 DEF Choice, LayoutsAreRead, Art
    <3>2. layouts[curr_layout] \in Records
      BY <3>1, ElementOfSeq
    <3>3. Art \in Seq(Seq(Cells))
      BY <3>2 DEF Art, Records
    <3> QED BY <1>4, <2>3, <3>1, <3>3, CalculateShows
  <2> QED BY <2>1, <2>2, <2>3
<1>5. CASE RenderHeader \/ RenderWindows \/ RunPlugin \/ OpenPopup \/ Highlight \/ Leave \/ Restart \/ Resize
  BY <1>2, <1>5 DEF RenderHeader, RenderWindows, RunPlugin, SendCommand, SelectWindow, FindTitle, OpenPopup,
                    Highlight, Leave, Restart, Resize, geometry, parsing
<1>6. CASE Enter
  <2>1. CASE curr_option <= Len(layouts)
    <3>1. phase' = "render"
      BY <1>6, <2>1 DEF Enter
    <3> QED BY <1>1, <3>1
  <2>2. CASE ~(curr_option <= Len(layouts))
    BY <1>2, <1>6, <2>2 DEF Enter, parsing
  <2> QED BY <2>1, <2>2
<1>7. CASE UNCHANGED vars
  <2>1. UNCHANGED <<layouts, plugin_key_index, curr_layout, has_window, phase>>
    BY <1>7 DEF vars, parsing, geometry
  <2>2. CASE phase \in {"header", "windows", "run", "choose"}
    BY <1>2, <2>1, <2>2
  <2>3. CASE phase \notin {"header", "windows", "run", "choose"}
    BY <1>1, <2>1, <2>3
  <2> QED BY <2>2, <2>3
<1> QED BY <1>3, <1>4, <1>5, <1>6, <1>7 DEF Next

(* A render begins when every window of the last layout is deleted, and    *)
(* makes the windows that are shown.                                       *)
LEMMA NextExist == WindowsInv /\ Choice /\ ShownExist /\ [Next]_vars => ShownExist'
<1> SUFFICES ASSUME WindowsInv, Choice, ShownExist, [Next]_vars PROVE ShownExist'
  OBVIOUS
<1> USE DEF Reads, Up, Rendering
<1>1. ASSUME phase' \in {"failed", "undefined", "closed", "dirty"} PROVE ShownExist'
  BY <1>1 DEF ShownExist
<1>2. ASSUME UNCHANGED <<pointer, has_window>>, phase \in Reads \cup Up,
             phase' \in Reads \cup Up \cup {"failed", "undefined"}
      PROVE  ShownExist'
  BY <1>2 DEF ShownExist
<1>3. CASE ReadCommand \/ ReadBinding \/ Probe \/ NotFound \/ ReadLayout \/ Start
  BY <1>2, <1>3 DEF ReadCommand, ReadBinding, Probe, NotFound, ReadLayout, Start, Reading, geometry
<1>4. CASE Free
  <2>1. phase = "render" /\ UNCHANGED has_window
    BY <1>4 DEF Free, geometry
  <2>2. CASE curr_layout = 0
    <3>1. phase' = "find" /\ UNCHANGED pointer /\ \A p \in WinPlugins : ~has_window[p]
      BY <1>4, <2>1, <2>2 DEF Free, Choice
    <3> QED BY <2>1, <3>1 DEF ShownExist
  <2>3. CASE curr_layout # 0
    <3> DEFINE shown == {p \in WinPlugins : has_window[p]}
               freed == {p \in shown : \A q \in shown : q <= p => Deletable(q)}
    <3>1. pointer' = Deleted(freed) /\ phase' = IF freed = shown THEN "find" ELSE "dirty"
      BY <1>4, <2>3 DEF Free, FreeNcWindowData
    <3>2. CASE freed # shown
      BY <1>1, <3>1, <3>2
    <3>3. CASE freed = shown
      <4>1. pointer' = Deleted(shown) /\ phase' = "find"
        BY <3>1, <3>3
      <4>2. ASSUME NEW p \in WinPlugins, NEW k \in {"WIN", "TWIN", "DWIN"} PROVE pointer'[p][k] # "live"
        <5>1. CASE has_window[p]
          BY <4>1, <5>1 DEF Deleted
        <5>2. CASE ~has_window[p]
          <6>1. pointer'[p] = pointer[p]
            BY <4>1, <5>2 DEF Deleted
          <6> QED BY <2>1, <5>2, <6>1 DEF ShownExist
        <5> QED BY <5>1, <5>2
      <4> QED BY <4>1, <4>2 DEF ShownExist
    <3> QED BY <3>2, <3>3
  <2> QED BY <2>2, <2>3
<1>5. CASE Find \/ Calculate \/ RenderHeader
  <2>1. phase \in Rendering /\ phase' \in Rendering \cup {"failed", "undefined"} /\ UNCHANGED pointer
    BY <1>5 DEF Find, Calculate, RenderHeader
  <2> QED BY <2>1 DEF ShownExist
<1>6. CASE RenderWindows
  <2> DEFINE shown == {p \in WinPlugins : has_window[p]}
             done == {p \in shown : \A q \in shown : q <= p => Renderable(q)}
  <2>1. /\ phase = "windows" /\ phase' = IF done = shown THEN "run" ELSE "failed"
        /\ UNCHANGED has_window
    BY <1>6 DEF RenderWindows, geometry
  <2>2. CASE done # shown
    BY <1>1, <2>1, <2>2
  <2>3. CASE done = shown
    <3>1. ASSUME NEW p \in WinPlugins
          PROVE  pointer'[p] = IF has_window[p]
                   THEN [WIN |-> "live", DWIN |-> "live",
                         TWIN |-> IF p \in TopbarPlugins THEN "live" ELSE pointer[p].TWIN]
                   ELSE pointer[p]
      BY <1>6, <2>3 DEF RenderWindows
    <3>2. ASSUME NEW p \in WinPlugins
          PROVE  /\ \A k \in {"WIN", "DWIN"} : pointer'[p][k] = "live" <=> has_window'[p]
                 /\ pointer'[p].TWIN = "live" <=> has_window'[p] /\ p \in TopbarPlugins
      <4>1. \A k \in {"WIN", "TWIN", "DWIN"} : pointer[p][k] # "live"
        BY <2>1 DEF ShownExist
      <4>2. CASE has_window[p]
        <5>1. /\ pointer'[p].WIN = "live" /\ pointer'[p].DWIN = "live"
              /\ pointer'[p].TWIN = IF p \in TopbarPlugins THEN "live" ELSE pointer[p].TWIN
          <6> DEFINE topbar == IF p \in TopbarPlugins THEN "live" ELSE pointer[p].TWIN
          <6>1. pointer'[p] = [WIN |-> "live", DWIN |-> "live", TWIN |-> topbar]
            BY <3>1, <4>2
          <6> HIDE DEF topbar
          <6>2. pointer'[p].WIN = "live" /\ pointer'[p].DWIN = "live" /\ pointer'[p].TWIN = topbar
            BY <6>1
          <6> QED BY <6>2 DEF topbar
        <5> QED BY <2>1, <4>1, <4>2, <5>1
      <4>3. CASE ~has_window[p]
        BY <2>1, <3>1, <4>1, <4>3
      <4> QED BY <4>2, <4>3
    <3> QED BY <2>1, <2>3, <3>2 DEF ShownExist
  <2> QED BY <2>2, <2>3
<1>7. CASE RunPlugin \/ OpenPopup \/ Highlight \/ Enter \/ Leave \/ Restart \/ Resize
  <2>1. /\ UNCHANGED <<pointer, has_window>> /\ phase \in Up
        /\ phase' \in {"run", "choose", "failed", "render"}
    BY <1>7 DEF RunPlugin, SendCommand, SelectWindow, FindTitle, OpenPopup, Highlight, Enter, Leave,
                 Restart, Resize, geometry
  <2> QED BY <1>2, <2>1
<1>8. CASE CleanUp
  <2>1. phase' \in {"undefined", "closed", "dirty"}
    BY <1>8 DEF CleanUp, FreeNcWindowData
  <2> QED BY <1>1, <2>1
<1>9. CASE UNCHANGED vars
  BY <1>9 DEF vars, geometry, ShownExist
<1> QED BY <1>3, <1>4, <1>5, <1>6, <1>7, <1>8, <1>9 DEF Next

(* The screen is in order, on top of the bindings and the windows.         *)
THEOREM ScreenInvariant == Spec => []ScreenInv
<1>1. Init => ScreenInv
  <2> SUFFICES ASSUME Init PROVE ScreenInv
    OBVIOUS
  <2>1. /\ at.section = 1 /\ layouts = <<>> /\ phase = "parse" /\ curr_layout = 0
        /\ \A p \in WinPlugins : ~has_window[p]
    BY LayoutsAssumption DEF Init
  <2>2. LayoutsAreRead
    <3>1. layouts \in Seq(Records) /\ Len(layouts) = 0
      BY <2>1
    <3> QED BY <2>1, <3>1 DEF LayoutsAreRead, Rendering, Up
  <2>3. ShownExist
    <3>1. PICK f \in Fresh : pointer = [p \in WinPlugins |-> [WIN |-> f, TWIN |-> f, DWIN |-> f]]
      BY DEF Init
    <3>2. f # "live"
      BY <3>1, LayoutsAssumption
    <3> QED BY <2>1, <3>1, <3>2 DEF ShownExist, Rendering
  <2> QED BY <2>1, <2>2, <2>3 DEF ScreenInv, Choice, ShownAreDrawn, Reads, Up
<1>2. BindingInv /\ WindowsInv /\ ScreenInv /\ [Next]_vars => ScreenInv'
  BY NextReads, NextChooses, NextDraws, NextExist DEF ScreenInv
<1> QED BY <1>1, <1>2, BindingInvariant, WindowsInvariant, PTL DEF Spec

(* Whatever is configured, and whatever layouts are chosen and restarts are*)
(* done: the layout that is rendered is the one that was chosen, and       *)
(* exactly its windows exist.                                              *)
THEOREM ChosenLayoutIsShown == Spec => []ShowsChosenLayout
<1>1. ScreenInv => ShowsChosenLayout
  BY DEF ScreenInv, Choice, ShownAreDrawn, ShownExist, ShowsChosenLayout, Up
<1> QED BY <1>1, ScreenInvariant, PTL

-----------------------------------------------------------------------------
(* The segments of a row or a column                                       *)

(* Where segment i begins, for i behind the last one too: the first        *)
(* segments have what is left over, one each.                              *)
Edge(total, n, i) ==
  (i - 1) * (total \div n) + (IF i - 1 <= total % n THEN i - 1 ELSE total % n)

LEMMA EdgesAre ==
  ASSUME NEW total \in Nat, NEW n \in Nat \ {0}
  PROVE  /\ Edge(total, n, 1) = 0 /\ Edge(total, n, n + 1) = total
         /\ \A i \in 1 .. n + 1 : Edge(total, n, i) \in Nat
         /\ \A i \in 1 .. n : Edge(total, n, i) + Share(total, n, i) = Edge(total, n, i + 1)
         /\ \A i \in 1 .. n : Begin(total, n, i) = Edge(total, n, i)
<1> DEFINE q == total \div n
           r == total % n
           E(i) == Edge(total, n, i)
           S(i) == Share(total, n, i)
<1>1. q \in Nat /\ r \in 0 .. n - 1 /\ total = n * q + r
  OBVIOUS
<1>2. /\ \A i : E(i) = (i - 1) * q + (IF i - 1 <= r THEN i - 1 ELSE r)
      /\ \A i : S(i) = q + (IF i <= r THEN 1 ELSE 0)
  BY DEF Edge, Share
<1> HIDE DEF q, r, E, S
<1>3. E(1) = 0
  BY <1>1, <1>2
<1>4. E(n + 1) = total
  <2>1. E(n + 1) = n * q + r
    BY <1>1, <1>2
  <2> QED BY <1>1, <2>1
<1>5. ASSUME NEW i \in 1 .. n + 1 PROVE E(i) \in Nat
  <2>1. i - 1 \in Nat /\ (i - 1) * q \in Nat
    BY <1>1
  <2> QED BY <1>1, <1>2, <2>1
<1>6. ASSUME NEW i \in 1 .. n PROVE E(i) + S(i) = E(i + 1) /\ S(i) \in Nat
  <2>1. (i - 1) * q + q = ((i + 1) - 1) * q /\ (i - 1) * q \in Nat
    BY <1>1
  <2> HIDE <1>3, <1>4, <1>5
  <2>2. E(i) = (i - 1) * q + (IF i - 1 <= r THEN i - 1 ELSE r) /\ S(i) = q + (IF i <= r THEN 1 ELSE 0)
    BY <1>2
  <2>3. E(i + 1) = (i - 1) * q + q + (IF i <= r THEN i ELSE r)
    BY <1>1, <1>2, <2>1
  <2> QED BY <1>1, <2>1, <2>2, <2>3
<1>7. ASSUME NEW i \in 1 .. n PROVE Begin(total, n, i) = E(i)
  <2> DEFINE Step(f, j) == IF j = 1 THEN 0 ELSE f[j - 1] + S(j - 1)
             Whole(f) == [j \in 1 .. n |-> Step(f, j)]
  <2>1. \E f : f = Whole(f)
    <3> DEFINE g == [j \in 1 .. n |-> E(j)]
    <3>1. ASSUME NEW j \in 1 .. n PROVE E(j) = Step(g, j)
      <4>1. CASE j = 1
        BY <1>3, <4>1
      <4>2. CASE j # 1
        <5>1. j - 1 \in 1 .. n /\ g[j - 1] = E(j - 1) /\ (j - 1) + 1 = j
          BY <4>2
        <5>2. E(j - 1) + S(j - 1) = E(j)
          BY <1>6, <5>1
        <5> QED BY <4>2, <5>1, <5>2
      <4> QED BY <4>1, <4>2
    <3> HIDE DEF Step
    <3>2. g = Whole(g)
      BY <3>1
    <3> QED BY <3>2
  <2>2. PICK sum : sum = Whole(sum) /\ Begin(total, n, i) = sum[i]
    BY <2>1 DEF Begin, S
  <2>3. \A j \in 1 .. n : sum[j] = Step(sum, j)
    <3> DEFINE h == Whole(sum)
    <3> HIDE DEF Step
    <3>1. \A j \in 1 .. n : h[j] = Step(sum, j)
      OBVIOUS
    <3>2. sum = h
      BY <2>2
    <3> HIDE DEF h
    <3> QED BY <3>1, <3>2
  <2> DEFINE T == {k \in Nat : k + 1 <= n => sum[k + 1] = E(k + 1)}
  <2>4. 0 \in T
    BY <1>3, <2>3
  <2>5. ASSUME NEW k \in 1 .. n - 1, k - 1 \in T PROVE k \in T
    <3>1. sum[k] = E(k)
      BY <2>5
    <3>2. k + 1 \in 1 .. n /\ k + 1 # 1 /\ (k + 1) - 1 = k /\ k \in 1 .. n
      OBVIOUS
    <3>3. sum[k + 1] = sum[k] + S(k)
      BY <2>3, <3>2
    <3>4. E(k) + S(k) = E(k + 1)
      BY <1>6, <3>2
    <3> QED BY <3>1, <3>3, <3>4
  <2>6. i - 1 \in T
    <3>1. n - 1 \in Nat /\ i - 1 \in 0 .. n - 1
      OBVIOUS
    <3> HIDE DEF T
    <3> QED BY <2>4, <2>5, <3>1, Induction
  <2> QED BY <2>2, <2>6
<1> QED BY <1>3, <1>4, <1>5, <1>6, <1>7 DEF E, S

(* Segments do not overlap: each begins behind the shares of those before. *)
LEMMA EdgesGrow ==
  ASSUME NEW total \in Nat, NEW n \in Nat \ {0}, NEW k \in Nat, total >= k * n,
         NEW i \in 1 .. n + 1, NEW j \in i .. n + 1
  PROVE  /\ Edge(total, n, i) <= Edge(total, n, j)
         /\ i < j => Edge(total, n, i) + k <= Edge(total, n, j)
         /\ total > 0 /\ j > 1 => Edge(total, n, j) >= 1
<1> DEFINE q == total \div n
           r == total % n
           E(a) == Edge(total, n, a)
<1>1. q \in Nat /\ r \in 0 .. n - 1 /\ total = n * q + r
  OBVIOUS
<1>2. \A a : E(a) = (a - 1) * q + (IF a - 1 <= r THEN a - 1 ELSE r)
  BY DEF Edge
<1> HIDE DEF q, r, E
<1>3. k <= q
  <2> SUFFICES ASSUME q + 1 <= k PROVE FALSE
    BY <1>1
  <2>1. (q + 1) * n <= k * n
    BY <1>1
  <2>2. (q + 1) * n = n * q + n
    BY <1>1
  <2>3. n * q \in Nat /\ k * n \in Nat
    BY <1>1
  <2> QED BY <1>1, <2>1, <2>2, <2>3
<1>4. (j - 1) * q = (i - 1) * q + (j - i) * q /\ (i - 1) * q \in Nat /\ (j - i) * q \in Nat
  BY <1>1
<1>5. i < j => (j - i) * q >= q
  BY <1>1
<1>6. E(i) <= E(j) /\ (i < j => E(i) + k <= E(j))
  <2>1. /\ E(i) = (i - 1) * q + (IF i - 1 <= r THEN i - 1 ELSE r)
        /\ E(j) = (j - 1) * q + (IF j - 1 <= r THEN j - 1 ELSE r)
    BY <1>2
  <2> QED BY <1>1, <1>3, <1>4, <1>5, <2>1
<1>7. total > 0 /\ j > 1 => E(j) >= 1
  <2>1. q = 0 => r = total
    BY <1>1
  <2>2. j > 1 => (j - 1) * q >= q /\ (j - 1) * q \in Nat
    BY <1>1
  <2>3. E(j) = (j - 1) * q + (IF j - 1 <= r THEN j - 1 ELSE r)
    BY <1>2
  <2> QED BY <1>1, <2>1, <2>2, <2>3
<1> QED BY <1>6, <1>7 DEF E

(* Every row or column of the screen is in a segment.                      *)
LEMMA SegmentsCover ==
  ASSUME NEW total \in Nat, NEW n \in Nat \ {0}, NEW a \in 0 .. total - 1
  PROVE  \E i \in 1 .. n : Edge(total, n, i) <= a /\ a < Edge(total, n, i + 1)
<1> DEFINE behind == {i \in 1 .. n : a < Edge(total, n, i + 1)}
<1>1. Edge(total, n, 1) = 0 /\ Edge(total, n, n + 1) = total
  BY EdgesAre
<1>2. n \in behind
  BY <1>1
<1>3. PICK i \in behind : \A j \in behind : i <= j
  <2>1. behind \in SUBSET Nat
    OBVIOUS
  <2> HIDE DEF behind
  <2> QED BY <1>2, <2>1, LeastNumber
<1>4. i \in 1 .. n /\ a < Edge(total, n, i + 1)
  OBVIOUS
<1>5. Edge(total, n, i) <= a
  <2>1. CASE i = 1
    BY <1>1, <2>1
  <2>2. CASE i # 1
    <3>1. i - 1 \in 1 .. n /\ i - 1 \notin behind /\ (i - 1) + 1 = i
      <4>1. i - 1 \in 1 .. n /\ (i - 1) + 1 = i /\ ~(i <= i - 1)
        BY <1>4, <2>2
      <4> HIDE DEF behind
      <4> QED BY <1>3, <4>1
    <3>2. ~(a < Edge(total, n, i))
      BY <3>1
    <3>3. Edge(total, n, i) \in Nat
      <4>1. \A b \in 1 .. n + 1 : Edge(total, n, b) \in Nat
        BY EdgesAre
      <4> QED BY <1>4, <4>1
    <3> QED BY <3>2, <3>3
  <2> QED BY <2>1, <2>2
<1> QED BY <1>4, <1>5

(* The rows or columns of a window whose key fills the segments i .. j: it *)
(* begins on the border of its neighbour before it.                        *)
Low(total, n, i) == Edge(total, n, i) - (IF i > 1 THEN 1 ELSE 0)
High(total, n, j) == Edge(total, n, j + 1) - 1
Span(total, n, i, j) == Low(total, n, i) .. High(total, n, j)

(* It stays on the screen and takes all of its segments.                   *)
LEMMA SpansFit ==
  ASSUME NEW total \in Nat \ {0}, NEW n \in Nat \ {0}, NEW i \in 1 .. n, NEW j \in i .. n
  PROVE  /\ Low(total, n, i) \in Nat /\ High(total, n, j) \in Nat /\ High(total, n, j) < total
         /\ \A k \in i .. j, a \in 0 .. total - 1 :
              Edge(total, n, k) <= a /\ a < Edge(total, n, k + 1) => a \in Span(total, n, i, j)
<1> DEFINE E(a) == Edge(total, n, a)
<1>1. \A a \in 1 .. n + 1 : E(a) \in Nat
  BY EdgesAre
<1>2. E(n + 1) = total
  BY EdgesAre
<1>3. \A a \in 1 .. n + 1, b \in 1 .. n + 1 : a <= b => E(a) <= E(b)
  <2>1. ASSUME NEW a \in 1 .. n + 1, NEW b \in 1 .. n + 1, a <= b PROVE E(a) <= E(b)
    <3>1. b \in a .. n + 1 /\ total >= 0 * n
      BY <2>1
    <3> QED BY <3>1, EdgesGrow
  <2> QED BY <2>1
<1>4. \A a \in 2 .. n + 1 : E(a) >= 1
  <2>1. ASSUME NEW a \in 2 .. n + 1 PROVE E(a) >= 1
    <3>1. a \in 1 .. n + 1 /\ a \in a .. n + 1 /\ total >= 0 * n /\ a > 1 /\ total > 0
      OBVIOUS
    <3> QED BY <3>1, EdgesGrow
  <2> QED BY <2>1
<1> HIDE DEF E
<1>5. /\ Low(total, n, i) = E(i) - (IF i > 1 THEN 1 ELSE 0)
      /\ High(total, n, j) = E(j + 1) - 1
  BY DEF Low, High, E
<1>6. i \in 1 .. n + 1 /\ j + 1 \in 2 .. n + 1 /\ j + 1 \in 1 .. n + 1 /\ n + 1 \in 1 .. n + 1
  OBVIOUS
<1>7. Low(total, n, i) \in Nat
  BY <1>1, <1>4, <1>5, <1>6
<1>8. High(total, n, j) \in Nat /\ High(total, n, j) < total
  <2>1. E(j + 1) <= total /\ E(j + 1) >= 1 /\ E(j + 1) \in Nat
    BY <1>1, <1>2, <1>3, <1>4, <1>6
  <2> QED BY <1>5, <2>1
<1>9. ASSUME NEW k \in i .. j, NEW a \in 0 .. total - 1, E(k) <= a, a < E(k + 1)
      PROVE  a \in Span(total, n, i, j)
  <2>1. k \in 1 .. n + 1 /\ k + 1 \in 1 .. n + 1 /\ i <= k /\ k + 1 <= j + 1
    OBVIOUS
  <2>2. E(i) <= E(k) /\ E(k + 1) <= E(j + 1) /\ E(i) \in Nat /\ E(k) \in Nat /\ E(k + 1) \in Nat
        /\ E(j + 1) \in Nat
    BY <1>1, <1>3, <1>6, <2>1
  <2>3. Low(total, n, i) <= E(i) /\ Low(total, n, i) \in Int
    BY <1>5, <2>2
  <2>4. Low(total, n, i) <= a /\ a <= High(total, n, j) /\ High(total, n, j) \in Int
    BY <1>5, <1>9, <2>2, <2>3
  <2> QED BY <2>3, <2>4 DEF Span
<1> QED BY <1>7, <1>8, <1>9 DEF E

(* Inside it no window of other segments has a row or column, and where it *)
(* meets one that begins behind it they share a border.                    *)
LEMMA SpansMeet ==
  ASSUME NEW total \in Nat \ {0}, NEW n \in Nat \ {0}, NEW i \in 1 .. n, NEW j \in i .. n,
         NEW k \in 1 .. n, NEW l \in k .. n
  PROVE  /\ j < k \/ l < i =>
              (Low(total, n, i) + 1 .. High(total, n, j) - 1) \cap Span(total, n, k, l) = {}
         /\ total >= 2 * n => \A a \in Span(total, n, i, j) :
              a \notin Span(total, n, k, l) /\ a + 1 \in Span(total, n, k, l) => a + 1 \in Span(total, n, i, j)
<1> DEFINE E(a) == Edge(total, n, a)
<1>1. \A a \in 1 .. n + 1 : E(a) \in Nat
  BY EdgesAre
<1>2. E(1) = 0
  BY EdgesAre
<1>3. \A a \in 1 .. n + 1, b \in 1 .. n + 1 : a <= b => E(a) <= E(b)
  <2>1. ASSUME NEW a \in 1 .. n + 1, NEW b \in 1 .. n + 1, a <= b PROVE E(a) <= E(b)
    <3>1. b \in a .. n + 1 /\ total >= 0 * n
      BY <2>1
    <3> QED BY <3>1, EdgesGrow
  <2> QED BY <2>1
<1>4. total >= 2 * n => \A a \in 1 .. n + 1, b \in 1 .. n + 1 : a < b => E(a) + 2 <= E(b)
  <2>1. ASSUME total >= 2 * n, NEW a \in 1 .. n + 1, NEW b \in 1 .. n + 1, a < b PROVE E(a) + 2 <= E(b)
    <3>1. b \in a .. n + 1
      BY <2>1
    <3> QED BY <2>1, <3>1, EdgesGrow
  <2> QED BY <2>1
<1> HIDE DEF E
<1>5. /\ \A a : Low(total, n, a) = E(a) - (IF a > 1 THEN 1 ELSE 0)
      /\ \A a : High(total, n, a) = E(a + 1) - 1
  BY DEF Low, High, E
<1>6. /\ i \in 1 .. n + 1 /\ j \in 1 .. n + 1 /\ k \in 1 .. n + 1 /\ l \in 1 .. n + 1
      /\ j + 1 \in 1 .. n + 1 /\ l + 1 \in 1 .. n + 1
  OBVIOUS
<1>7. E(i) \in Nat /\ E(j + 1) \in Nat /\ E(k) \in Nat /\ E(l + 1) \in Nat
  BY <1>1, <1>6
<1>8. ASSUME j < k \/ l < i
      PROVE  (Low(total, n, i) + 1 .. High(total, n, j) - 1) \cap Span(total, n, k, l) = {}
  <2>1. CASE j < k
    <3>1. E(j + 1) <= E(k)
      BY <1>3, <1>6, <2>1
    <3>2. High(total, n, j) - 1 < Low(total, n, k)
      BY <1>5, <1>7, <3>1
    <3> QED BY <1>5, <1>7, <3>2 DEF Span
  <2>2. CASE l < i
    <3>1. E(l + 1) <= E(i) /\ i > 1
      BY <1>3, <1>6, <2>2
    <3>2. High(total, n, l) < Low(total, n, i) + 1
      BY <1>5, <1>7, <3>1
    <3> QED BY <1>5, <1>7, <3>2 DEF Span
  <2> QED BY <1>8, <2>1, <2>2
<1>9. ASSUME total >= 2 * n, NEW a \in Span(total, n, i, j),
             a \notin Span(total, n, k, l), a + 1 \in Span(total, n, k, l)
      PROVE  a + 1 \in Span(total, n, i, j)
  <2> SUFFICES ASSUME a + 1 \notin Span(total, n, i, j) PROVE FALSE
    OBVIOUS
  <2>1. /\ a \in Int /\ Low(total, n, i) <= a /\ a <= High(total, n, j)
        /\ Low(total, n, k) <= a + 1 /\ a + 1 <= High(total, n, l)
    BY <1>5, <1>7, <1>9 DEF Span
  <2>2. a + 1 = Low(total, n, k)
    BY <1>5, <1>7, <1>9, <2>1 DEF Span
  <2>3. a = High(total, n, j)
    BY <1>5, <1>7, <1>9, <2>1 DEF Span
  <2>4. E(j + 1) = Low(total, n, k)
    BY <1>5, <1>7, <2>2, <2>3
  <2>5. k # 1
    <3>1. Low(total, n, i) >= -1
      BY <1>5, <1>7
    <3>2. j + 1 > 1 => E(j + 1) >= E(1) + 2
      BY <1>4, <1>6, <1>9
    <3> QED BY <1>2, <1>5, <1>6, <1>7, <2>4, <3>2
  <2>6. E(j + 1) = E(k) - 1
    BY <1>5, <2>4, <2>5
  <2>7. CASE k <= j + 1
    BY <1>3, <1>6, <1>7, <2>6, <2>7
  <2>8. CASE k > j + 1
    <3>1. E(j + 1) + 2 <= E(k)
      BY <1>4, <1>6, <1>9, <2>8
    <3> QED BY <1>7, <2>6, <3>1
  <2> QED BY <2>7, <2>8
<1> QED BY <1>8, <1>9

-----------------------------------------------------------------------------
(* The tiling                                                              *)

(* Every window on the screen is the one of a cell of its plugin, measured *)
(* on the screen as it was then.                                           *)
Placed ==
  /\ screen \in Screens
  /\ Calculated =>
       /\ scr.rows \in Nat \ {0} /\ scr.cols \in Nat \ {0} /\ scr.offset \in Nat
       /\ \A c \in CellsIn(Art) : Bound(Art[c[1]][c[2]])
       /\ \A p \in Shown : \E d \in WindowCells(Art) \cap CellsOf(p) :
            win[p] = WindowAt(Art, Area(scr), d[1], d[2])

(* Of some cells one is the last in the scan.                              *)
LEMMA LastCellIs ==
  ASSUME NEW m, Len(m) \in Nat, Len(m[1]) \in Nat, NEW S \in SUBSET CellsIn(m), S # {}
  PROVE  \E c \in S : \A d \in S \ {c} : Behind(c, d)
<1>1. PICK h \in Nat, w \in Nat : h = Len(m) /\ w = Len(m[1])
  OBVIOUS
<1>2. \A c \in S : c[1] \in 1 .. h /\ c[2] \in 1 .. w /\ c = <<c[1], c[2]>>
  BY <1>1 DEF CellsIn
<1> DEFINE rows == {h - c[1] : c \in S}
<1>3. PICK r \in rows : \A i \in rows : r <= i
  <2>1. rows \in SUBSET Nat /\ rows # {}
    BY <1>2
  <2> HIDE DEF rows
  <2> QED BY <2>1, LeastNumber
<1>4. PICK b \in S : r = h - b[1]
  OBVIOUS
<1>5. \A c \in S : c[1] <= b[1]
  <2>1. ASSUME NEW c \in S PROVE c[1] <= b[1]
    <3>1. h - b[1] <= h - c[1]
      BY <1>3, <1>4
    <3> QED BY <1>2, <3>1
  <2> QED BY <2>1
<1> HIDE DEF rows
<1> DEFINE cols == {w - c[2] : c \in {d \in S : d[1] = b[1]}}
<1>6. PICK k \in cols : \A i \in cols : k <= i
  <2>1. cols \in SUBSET Nat /\ cols # {}
    BY <1>2
  <2> HIDE DEF cols
  <2> QED BY <2>1, LeastNumber
<1>7. PICK c \in S : c[1] = b[1] /\ k = w - c[2]
  OBVIOUS
<1>8. \A d \in S : d[1] = b[1] => d[2] <= c[2]
  <2>1. ASSUME NEW d \in S, d[1] = b[1] PROVE d[2] <= c[2]
    <3>1. w - c[2] <= w - d[2]
      BY <1>6, <1>7, <2>1
    <3> QED BY <1>2, <3>1
  <2> QED BY <2>1
<1> HIDE DEF cols
<1>9. ASSUME NEW d \in S \ {c} PROVE Behind(c, d)
  <2>1. d[1] <= c[1] /\ (d[1] = c[1] => d[2] <= c[2])
    BY <1>5, <1>7, <1>8
  <2>2. d[1] # c[1] \/ d[2] # c[2]
    BY <1>2, <1>9
  <2> QED BY <1>2, <2>1, <2>2 DEF Behind
<1> QED BY <1>9

(* calculate_layout() puts every plugin's window at one of its cells.      *)
LEMMA CalculatePlaces ==
  ASSUME LayoutsAreRead, Choice, Placed, Calculate, phase' = "header"
  PROVE  Placed'
<1> DEFINE m == Art
           of(c) == plugin_key_index[m[c[1]][c[2]]]
           mine(p) == {c \in WindowCells(m) : of(c) = p}
           last(p) == CHOOSE c \in mine(p) : \A d \in mine(p) \ {c} : Behind(c, d)
<1>1. UNCHANGED <<plugin_key_index, layouts, curr_layout, screen>> /\ scr' = Measured /\ phase = "calculate"
  BY DEF Calculate, parsing
<1>2. curr_layout \in 1 .. Len(layouts) /\ layouts \in Seq(Records) /\ Rectangular(m)
  BY <1>1 DEF Choice, LayoutsAreRead, Art
<1>3. layouts[curr_layout] \in Records
  BY <1>2, ElementOfSeq
<1>4. m \in Seq(Seq(Cells)) /\ layouts[curr_layout].header_rows \in Nat
  BY <1>3 DEF Art, Records
<1>5. scr'.rows \in Nat \ {0} /\ scr'.cols \in Nat \ {0} /\ scr'.offset \in Nat
  <2>1. screen.rows \in Nat \ {0} /\ screen.cols \in Nat \ {0}
    BY LayoutsAssumption DEF Placed
  <2> QED BY <1>1, <1>4, <2>1 DEF Measured
<1>6. /\ \A c \in CellsIn(m) : Bound(m[c[1]][c[2]])
      /\ has_window' = [p \in Plugins |-> mine(p) # {}]
      /\ win' = [p \in WinPlugins |-> IF mine(p) = {} THEN win[p]
                                     ELSE WindowAt(m, Area(Measured), last(p)[1], last(p)[2])]
  BY DEF Calculate, Art
<1>7. Art' = Art /\ \A p : CellsOf(p)' = CellsOf(p)
  BY <1>1 DEF CellsOf, Art
<1>8. ASSUME NEW p \in Shown'
      PROVE  \E d \in WindowCells(Art) \cap CellsOf(p) : win'[p] = WindowAt(Art, Area(scr'), d[1], d[2])
  <2>1. p \in WinPlugins /\ mine(p) # {}
    <3>1. p \in WinPlugins /\ has_window'[p]
      BY DEF Shown
    <3> QED BY <1>6, <3>1, LayoutsAssumption
  <2>2. WindowCells(m) \subseteq CellsIn(m)
    BY <1>2, <1>4, WindowsTakeAllCells
  <2>3. Len(m) \in Nat /\ Len(m[1]) \in Nat
    BY <1>2, <1>4, SizesAre
  <2>4. mine(p) \in SUBSET CellsIn(m)
    BY <2>2
  <2>5. last(p) \in mine(p)
    <3>1. \E c \in mine(p) : \A d \in mine(p) \ {c} : Behind(c, d)
      <4> HIDE DEF mine, m
      <4> QED BY <2>1, <2>3, <2>4, LastCellIs
    <3> QED BY <3>1
  <2>6. win'[p] = WindowAt(m, Area(Measured), last(p)[1], last(p)[2])
    BY <1>6, <2>1
  <2> HIDE DEF last
  <2>7. last(p) \in WindowCells(Art) \cap CellsOf(p)
    BY <2>2, <2>5 DEF CellsOf
  <2> QED BY <1>1, <2>6, <2>7
<1>9. (\A c \in CellsIn(Art) : Bound(Art[c[1]][c[2]]))'
  BY <1>1, <1>6, <1>7 DEF Bound
<1>10. (\A p \in Shown : \E d \in WindowCells(Art) \cap CellsOf(p) :
          win[p] = WindowAt(Art, Area(scr), d[1], d[2]))'
  BY <1>7, <1>8
<1>11. screen' \in Screens
  BY <1>1 DEF Placed
<1> QED BY <1>5, <1>9, <1>10, <1>11 DEF Placed

(* Nothing moves before the next layout.                                   *)
LEMMA NextPlaces == LayoutsAreRead /\ Choice /\ Placed /\ [Next]_vars => Placed'
<1> SUFFICES ASSUME LayoutsAreRead, Choice, Placed, [Next]_vars PROVE Placed'
  OBVIOUS
<1> USE DEF Calculated
<1>1. ASSUME phase' \notin {"header", "windows", "run", "choose"}, UNCHANGED screen PROVE Placed'
  BY <1>1 DEF Placed
<1>2. ASSUME UNCHANGED <<layouts, plugin_key_index, curr_layout, has_window, win, scr>>, screen' \in Screens,
             phase \in {"header", "windows", "run", "choose"}
      PROVE  Placed'
  <2>1. \A p : CellsOf(p)' = CellsOf(p)
    BY <1>2 DEF CellsOf, Art
  <2>2. Shown' = Shown /\ Art' = Art
    BY <1>2 DEF Shown, Art
  <2>3. (\A c \in CellsIn(Art) : Bound(Art[c[1]][c[2]]))'
    BY <1>2, <2>2 DEF Placed, Bound
  <2>4. (\A p \in Shown : \E d \in WindowCells(Art) \cap CellsOf(p) :
           win[p] = WindowAt(Art, Area(scr), d[1], d[2]))'
    BY <1>2, <2>1, <2>2 DEF Placed
  <2> QED BY <1>2, <2>3, <2>4 DEF Placed
<1>3. CASE ReadCommand \/ ReadBinding \/ Probe \/ NotFound \/ ReadLayout \/ Start \/ Free \/ Find \/ CleanUp
  <2>1. phase' \notin {"header", "windows", "run", "choose"} /\ UNCHANGED screen
    BY <1>3 DEF ReadCommand, ReadBinding, Probe, NotFound, ReadLayout, Start, Free, Find, CleanUp, Reading,
                FreeNcWindowData
  <2> QED BY <1>1, <2>1
<1>4. CASE Calculate
  <2>1. phase' \in {"header", "undefined"} /\ UNCHANGED screen
    BY <1>4 DEF Calculate
  <2>2. CASE phase' = "undefined"
    BY <1>1, <2>1, <2>2
  <2>3. CASE phase' = "header"
    BY <1>4, <2>3, CalculatePlaces
  <2> QED BY <2>1, <2>2, <2>3
<1>5. CASE RenderHeader \/ RenderWindows \/ RunPlugin \/ OpenPopup \/ Highlight \/ Leave \/ Restart \/ Resize
  <2>1. screen' \in Screens
    BY <1>5 DEF RenderHeader, RenderWindows, RunPlugin, SendCommand, SelectWindow, FindTitle, OpenPopup,
                Highlight, Leave, Restart, Resize, Placed
  <2> QED BY <1>2, <1>5, <2>1 DEF RenderHeader, RenderWindows, RunPlugin, SendCommand, SelectWindow, FindTitle,
                    OpenPopup, Highlight, Leave, Restart, Resize, geometry, parsing
<1>6. CASE Enter
  <2>1. UNCHANGED <<screen, layouts, plugin_key_index, has_window, win, scr>> /\ phase = "choose"
    BY <1>6 DEF Enter, parsing
  <2>2. CASE curr_option <= Len(layouts)
    <3>1. phase' = "render"
      BY <1>6, <2>2 DEF Enter
    <3> QED BY <1>1, <2>1, <3>1
  <2>3. CASE ~(curr_option <= Len(layouts))
    <3>1. UNCHANGED curr_layout
      BY <1>6, <2>3 DEF Enter
    <3> QED BY <1>2, <2>1, <3>1 DEF Placed
  <2> QED BY <2>2, <2>3
<1>7. CASE UNCHANGED vars
  <2>1. UNCHANGED <<layouts, plugin_key_index, curr_layout, has_window, win, scr, phase, screen>>
    BY <1>7 DEF vars, parsing, geometry
  <2>2. CASE phase \in {"header", "windows", "run", "choose"}
    BY <1>2, <2>1, <2>2 DEF Placed
  <2>3. CASE phase \notin {"header", "windows", "run", "choose"}
    BY <1>1, <2>1, <2>3
  <2> QED BY <2>2, <2>3
<1> QED BY <1>3, <1>4, <1>5, <1>6, <1>7 DEF Next

(* Where a window begins and how large it is, in terms of the edges.       *)
LEMMA SpansMeasure ==
  ASSUME NEW total \in Nat, NEW n \in Nat \ {0}, NEW i \in 1 .. n, NEW j \in i .. n
  PROVE  /\ Low(total, n, i) \in Int /\ High(total, n, j) \in Int
         /\ Begin(total, n, i) - (IF i > 1 THEN 1 ELSE 0) = Low(total, n, i)
         /\ Begin(total, n, j) + Share(total, n, j) - Begin(total, n, i) + (IF i > 1 THEN 1 ELSE 0)
              = High(total, n, j) - Low(total, n, i) + 1
<1>1. i \in 1 .. n + 1 /\ j \in 1 .. n + 1 /\ j \in 1 .. n /\ j + 1 \in 1 .. n + 1
  OBVIOUS
<1>2. \A k \in 1 .. n + 1 : Edge(total, n, k) \in Nat
  BY EdgesAre
<1>3. \A k \in 1 .. n : Edge(total, n, k) + Share(total, n, k) = Edge(total, n, k + 1)
  BY EdgesAre
<1>4. \A k \in 1 .. n : Begin(total, n, k) = Edge(total, n, k)
  BY EdgesAre
<1>5. PICK a \in Nat, b \in Nat, c \in Nat :
        a = Edge(total, n, i) /\ b = Edge(total, n, j) /\ c = Edge(total, n, j + 1)
  BY <1>1, <1>2
<1>6. PICK share \in Int : share = Share(total, n, j)
  BY DEF Share
<1>7. PICK up \in 0 .. 1 : up = IF i > 1 THEN 1 ELSE 0
  OBVIOUS
<1>8. b + share = c /\ Begin(total, n, i) = a /\ Begin(total, n, j) = b
  BY <1>1, <1>3, <1>4, <1>5, <1>6
<1>9. Low(total, n, i) = a - up /\ High(total, n, j) = c - 1
  BY <1>5, <1>7 DEF Low, High
<1> QED BY <1>6, <1>7, <1>8, <1>9

(* The rows and columns of a window are a span of segments.                *)
LEMMA PlacesAreSpans ==
  ASSUME Placed, Calculated, Art \in Seq(Seq(Cells)), Rectangular(Art), scr.rows > scr.offset,
         NEW p \in Shown
  PROVE  \E d \in WindowCells(Art) \cap CellsOf(p) :
           LET rows == Area(scr).rows  h == Len(Art)    R == LastRow(Art, d[1], d[2])
               cols == scr.cols        w == Len(Art[1]) C == LastCol(Art, d[1], d[2])
           IN /\ Place(p) = Span(rows, h, d[1], R) \X Span(cols, w, d[2], C)
              /\ Inside(p) = (Low(rows, h, d[1]) + 1 .. High(rows, h, R) - 1)
                               \X (Low(cols, w, d[2]) + 1 .. High(cols, w, C) - 1)
              /\ win[p].rows = High(rows, h, R) - Low(rows, h, d[1]) + 1
              /\ win[p].cols = High(cols, w, C) - Low(cols, w, d[2]) + 1
<1>1. PICK d \in WindowCells(Art) \cap CellsOf(p) : win[p] = WindowAt(Art, Area(scr), d[1], d[2])
  BY DEF Placed
<1>2. PICK h \in Nat \ {0}, w \in Nat \ {0}, rows \in Nat \ {0}, cols \in Nat \ {0} :
        h = Len(Art) /\ w = Len(Art[1]) /\ rows = Area(scr).rows /\ cols = scr.cols
  <2>1. scr.rows \in Nat \ {0} /\ scr.cols \in Nat \ {0} /\ scr.offset \in Nat
    BY DEF Placed
  <2>2. Area(scr).rows \in Nat \ {0}
    BY <2>1 DEF Area
  <2> QED BY <2>1, <2>2, SizesAre
<1>3. PICK y \in 1 .. h, x \in 1 .. w : y = d[1] /\ x = d[2]
  BY <1>2 DEF CellsOf, CellsIn
<1>4. PICK R \in y .. h, C \in x .. w : R = LastRow(Art, y, x) /\ C = LastCol(Art, y, x)
  BY <1>2, <1>3, LastRowIs, LastColIs
<1>5. PICK wy, wx, wrows, wcols :
        /\ wy = Begin(rows, h, y) - (IF y > 1 THEN 1 ELSE 0)
        /\ wx = Begin(cols, w, x) - (IF x > 1 THEN 1 ELSE 0)
        /\ wrows = Begin(rows, h, R) + Share(rows, h, R) - Begin(rows, h, y) + (IF y > 1 THEN 1 ELSE 0)
        /\ wcols = Begin(cols, w, C) + Share(cols, w, C) - Begin(cols, w, x) + (IF x > 1 THEN 1 ELSE 0)
  OBVIOUS
<1>6. win[p] = [y |-> wy, x |-> wx, rows |-> wrows, cols |-> wcols]
  <2>1. Area(scr).cols = cols
    BY <1>2 DEF Area
  <2> QED BY <1>1, <1>2, <1>3, <1>4, <1>5, <2>1 DEF WindowAt
<1>7. /\ wy = Low(rows, h, y) /\ wrows = High(rows, h, R) - wy + 1
      /\ wy + wrows - 1 = High(rows, h, R) /\ wy + wrows - 2 = High(rows, h, R) - 1
  <2>1. rows \in Nat /\ h \in Nat \ {0} /\ y \in 1 .. h /\ R \in y .. h
    OBVIOUS
  <2>2. /\ Low(rows, h, y) \in Int /\ High(rows, h, R) \in Int
        /\ Begin(rows, h, y) - (IF y > 1 THEN 1 ELSE 0) = Low(rows, h, y)
        /\ Begin(rows, h, R) + Share(rows, h, R) - Begin(rows, h, y) + (IF y > 1 THEN 1 ELSE 0)
             = High(rows, h, R) - Low(rows, h, y) + 1
    BY ONLY <2>1, SpansMeasure
  <2>3. PICK a \in Int, b \in Int : a = Low(rows, h, y) /\ b = High(rows, h, R)
    BY <2>2
  <2>4. wy = a /\ wrows = b - a + 1
    BY <1>5, <2>2, <2>3
  <2> QED BY SMTT(30), <2>3, <2>4
<1>8. /\ wx = Low(cols, w, x) /\ wcols = High(cols, w, C) - wx + 1
      /\ wx + wcols - 1 = High(cols, w, C) /\ wx + wcols - 2 = High(cols, w, C) - 1
  <2>1. cols \in Nat /\ w \in Nat \ {0} /\ x \in 1 .. w /\ C \in x .. w
    OBVIOUS
  <2>2. /\ Low(cols, w, x) \in Int /\ High(cols, w, C) \in Int
        /\ Begin(cols, w, x) - (IF x > 1 THEN 1 ELSE 0) = Low(cols, w, x)
        /\ Begin(cols, w, C) + Share(cols, w, C) - Begin(cols, w, x) + (IF x > 1 THEN 1 ELSE 0)
             = High(cols, w, C) - Low(cols, w, x) + 1
    BY ONLY <2>1, SpansMeasure
  <2>3. PICK a \in Int, b \in Int : a = Low(cols, w, x) /\ b = High(cols, w, C)
    BY <2>2
  <2>4. wx = a /\ wcols = b - a + 1
    BY <1>5, <2>2, <2>3
  <2> QED BY SMTT(30), <2>3, <2>4
<1>9. win[p].y = wy /\ win[p].x = wx /\ win[p].rows = wrows /\ win[p].cols = wcols
  BY <1>6
<1>10. /\ Place(p) = Span(rows, h, y, R) \X Span(cols, w, x, C)
       /\ Inside(p) = (Low(rows, h, y) + 1 .. High(rows, h, R) - 1)
                        \X (Low(cols, w, x) + 1 .. High(cols, w, C) - 1)
  BY <1>7, <1>8, <1>9 DEF Place, Inside, Span
<1> QED BY <1>2, <1>3, <1>4, <1>7, <1>8, <1>9, <1>10

(* A key that is drawn as a rectangle has one window, with all its cells.  *)
LEMMA WindowIsRectangle ==
  ASSUME Placed, Calculated, Art \in Seq(Seq(Cells)), Rectangular(Art), Blocks, OneKeyEach,
         ShownAreDrawn, NEW p \in Shown, NEW d \in WindowCells(Art) \cap CellsOf(p)
  PROVE  CellsOf(p) = Block(Art, d)
<1> DEFINE m == Art
           of(c) == plugin_key_index[m[c[1]][c[2]]]
<1>1. PICK h \in Nat \ {0}, w \in Nat \ {0} : h = Len(m) /\ w = Len(m[1])
  BY SizesAre
<1>2. \A c \in CellsIn(m) : m[c[1]][c[2]] \in Keys /\ of(c) \in WinPlugins
  BY DEF Placed, Bound
<1>3. /\ \A q : CellsOf(q) = {c \in CellsIn(m) : of(c) = q}
      /\ p \in WinPlugins /\ \A q \in WinPlugins : CellsOf(q) # {} => q \in Shown
  BY DEF CellsOf, Shown, ShownAreDrawn, Calculated
<1>4. \A c \in CellsIn(m) : c[1] \in 1 .. h /\ c[2] \in 1 .. w /\ c = <<c[1], c[2]>>
  BY <1>1 DEF CellsIn
<1>5. ASSUME NEW c \in CellsOf(p), NEW e \in CellsOf(p) PROVE m[c[1]][c[2]] = m[e[1]][e[2]]
  <2>1. /\ m[c[1]][c[2]] \in Keys /\ m[e[1]][e[2]] \in Keys
        /\ plugin_key_index[m[c[1]][c[2]]] = p /\ plugin_key_index[m[e[1]][e[2]]] = p 
    BY <1>2, <1>3
  <2>2. p # 0
    <3>1. WinPlugins \subseteq Plugins
      BY LayoutsAssumption
    <3>2. 0 \notin Plugins
      BY TableIs DEF Plugins
    <3> QED BY <1>3, <3>1, <3>2
  <2> HIDE DEF m
  <2> QED BY <2>1, <2>2 DEF OneKeyEach
<1>6. ASSUME NEW q, NEW c \in CellsOf(q), NEW e \in CellsIn(m), m[c[1]][c[2]] = m[e[1]][e[2]]
      PROVE  e \in CellsOf(q)
  BY <1>3, <1>6
<1> HIDE DEF of, m
<1>7. ASSUME NEW q \in Shown, NEW c \in CellsOf(q), NEW e \in CellsOf(q)
      PROVE  /\ <<c[1], e[2]>> \in CellsOf(q)
             /\ \A k \in c[1] .. e[1] : <<k, c[2]>> \in CellsOf(q)
             /\ \A k \in c[2] .. e[2] : <<c[1], k>> \in CellsOf(q)
  BY DEF Blocks
<1>8. \A q : CellsOf(q) \subseteq CellsIn(m)
  BY <1>3
(* From a cell of the plugin its window goes to every other below and to   *)
(* the right of it.                                                        *)
<1>9. ASSUME NEW c \in CellsOf(p), NEW e \in CellsOf(p), c[1] <= e[1], c[2] <= e[2]
      PROVE  e \in Block(m, c)
  <2>1. /\ c[1] \in 1 .. h /\ c[2] \in 1 .. w /\ e[1] \in c[1] .. h /\ e[2] \in c[2] .. w
        /\ e = <<e[1], e[2]>>
    BY <1>4, <1>8, <1>9
  <2>2. \A k \in c[1] .. e[1] : m[k][c[2]] = m[c[1]][c[2]]
    <3>1. ASSUME NEW k \in c[1] .. e[1] PROVE m[k][c[2]] = m[c[1]][c[2]]
      <4>1. <<k, c[2]>> \in CellsOf(p)
        BY <1>7
      <4> QED BY <1>5, <4>1
    <3> QED BY <3>1
  <2>3. \A k \in c[2] .. e[2] : m[c[1]][k] = m[c[1]][c[2]]
    <3>1. ASSUME NEW k \in c[2] .. e[2] PROVE m[c[1]][k] = m[c[1]][c[2]]
      <4>1. <<c[1], k>> \in CellsOf(p)
        BY <1>7
      <4> QED BY <1>5, <4>1
    <3> QED BY <3>1
  <2>4. e[1] <= LastRow(m, c[1], c[2]) /\ LastRow(m, c[1], c[2]) \in Nat
    <3>1. Len(m) \in Nat /\ c[1] \in 1 .. Len(m) /\ e[1] \in c[1] .. Len(m)
      BY <1>1, <2>1
    <3>2. \A r \in c[1] .. Len(m) : (\A k \in c[1] .. r : m[k][c[2]] = m[c[1]][c[2]]) => r <= LastRow(m, c[1], c[2])
      BY <3>1, LastRowIs
    <3>3. LastRow(m, c[1], c[2]) \in c[1] .. Len(m)
      BY <3>1, LastRowIs
    <3> QED BY <1>1, <2>2, <3>1, <3>2, <3>3
  <2>5. e[2] <= LastCol(m, c[1], c[2]) /\ LastCol(m, c[1], c[2]) \in Nat
    <3>1. Len(m[1]) \in Nat /\ c[2] \in 1 .. Len(m[1]) /\ e[2] \in c[2] .. Len(m[1])
      BY <1>1, <2>1
    <3>2. \A r \in c[2] .. Len(m[1]) : (\A k \in c[2] .. r : m[c[1]][k] = m[c[1]][c[2]]) => r <= LastCol(m, c[1], c[2])
      BY <3>1, LastColIs
    <3>3. LastCol(m, c[1], c[2]) \in c[2] .. Len(m[1])
      BY <3>1, LastColIs
    <3> QED BY <1>1, <2>3, <3>1, <3>2, <3>3
  <2> QED BY <2>1, <2>4, <2>5 DEF Block
<1>10. ASSUME NEW q \in Shown, NEW e \in CellsOf(q) PROVE Block(m, e) \subseteq CellsOf(q)
  <2> SUFFICES ASSUME NEW c \in Block(m, e) PROVE c \in CellsOf(q)
    OBVIOUS
  <2>1. e \in CellsIn(m) /\ c \in CellsIn(m)
    <3>1. e \in CellsIn(m)
      BY <1>8
    <3> QED BY <3>1, BlockIs DEF m
  <2>2. c[1] \in e[1] .. LastRow(m, e[1], e[2]) /\ c[2] \in e[2] .. LastCol(m, e[1], e[2]) /\ c = <<c[1], c[2]>>
    BY DEF Block
  <2>3. e[1] \in 1 .. h /\ e[2] \in 1 .. w /\ c[1] \in 1 .. h /\ c[2] \in 1 .. w
    BY <1>4, <2>1
  <2> DEFINE down == <<c[1], e[2]>>
             along == <<e[1], c[2]>>
  <2>4. down \in CellsIn(m) /\ along \in CellsIn(m)
    BY <1>1, <2>3 DEF CellsIn
  <2>5. /\ Len(m) \in Nat /\ Len(m[1]) \in Nat
        /\ e[1] \in 1 .. Len(m) /\ e[2] \in 1 .. Len(m[1])
    BY <1>1, <2>3
  <2>6. m[c[1]][e[2]] = m[e[1]][e[2]]
    <3>1. \A k \in e[1] .. LastRow(m, e[1], e[2]) : m[k][e[2]] = m[e[1]][e[2]]
      BY <2>5, LastRowIs
    <3> QED BY <2>2, <3>1
  <2>7. m[e[1]][c[2]] = m[e[1]][e[2]]
    <3>1. \A k \in e[2] .. LastCol(m, e[1], e[2]) : m[e[1]][k] = m[e[1]][e[2]]
      BY <2>5, LastColIs
    <3> QED BY <2>2, <3>1
  <2>8. down \in CellsOf(q) /\ along \in CellsOf(q)
    BY <1>6, <2>1, <2>4, <2>6, <2>7
  <2>9. <<down[1], along[2]>> \in CellsOf(q)
    BY <1>7, <2>8
  <2> QED BY <2>2, <2>9
(* No cell of the plugin is above its window or to the left of it.         *)
<1>11. ASSUME NEW c \in CellsOf(p) PROVE d[1] <= c[1] /\ d[2] <= c[2]
  <2> DEFINE top == IF d[1] <= c[1] THEN d[1] ELSE c[1]
             side == IF d[2] <= c[2] THEN d[2] ELSE c[2]
             corner == <<top, side>>
  <2>1. d[1] \in 1 .. h /\ d[2] \in 1 .. w /\ c[1] \in 1 .. h /\ c[2] \in 1 .. w
        /\ d = <<d[1], d[2]>> /\ c = <<c[1], c[2]>>
    BY <1>4, <1>8
  <2>2. corner \in CellsOf(p)
    <3>1. <<d[1], c[2]>> \in CellsOf(p) /\ <<c[1], d[2]>> \in CellsOf(p)
      BY <1>7
    <3> QED BY <2>1, <3>1
  <2>3. PICK e \in WindowCells(m) : corner \in Block(m, e)
    BY <1>8, <2>2, WindowsTakeAllCells DEF m
  <2>4. e \in CellsIn(m)
    BY <2>3, WindowsTakeAllCells DEF m
  <2>5. /\ e[1] \in 1 .. h /\ e[2] \in 1 .. w
        /\ top \in e[1] .. LastRow(m, e[1], e[2]) /\ side \in e[2] .. LastCol(m, e[1], e[2])
    BY <1>4, <2>3, <2>4 DEF Block
  <2>6. LastRow(m, e[1], e[2]) \in Nat /\ LastCol(m, e[1], e[2]) \in Nat
    <3>1. /\ Len(m) \in Nat /\ Len(m[1]) \in Nat
          /\ e[1] \in 1 .. Len(m) /\ e[2] \in 1 .. Len(m[1])
      BY <1>1, <2>5
    <3>2. LastRow(m, e[1], e[2]) \in e[1] .. Len(m)
      BY <3>1, LastRowIs
    <3>3. LastCol(m, e[1], e[2]) \in e[2] .. Len(m[1])
      BY <3>1, LastColIs
    <3> QED BY <1>1, <2>5, <3>2, <3>3
  <2>7. e \in CellsOf(p)
    <3>1. PICK q \in WinPlugins : q = of(e)
      BY <1>2, <2>4
    <3>2. e \in CellsOf(q) /\ q \in Shown
      BY <1>3, <2>4, <3>1
    <3>3. corner \in CellsOf(q)
      BY <1>10, <2>3, <3>2
    <3>4. q = p
      <4> HIDE DEF corner
      <4> QED BY <1>3, <2>2, <3>3
    <3> QED BY <3>2, <3>4
  <2>8. d \in Block(m, e)
    <3>1. e[1] <= d[1] /\ e[2] <= d[2]
      BY <2>1, <2>5, <2>6
    <3> QED BY <1>9, <2>7, <3>1
  <2>9. d = e
    BY <2>3, <2>8, WindowsTakeAllCells DEF m
  <2> QED BY <2>1, <2>5, <2>6, <2>9
<1> QED BY <1>4, <1>8, <1>9, <1>10, <1>11 DEF m


(* Where a window stands: it has the cells of some rows and columns of the *)
(* drawing, and takes their segments.                                      *)
StandsOn(p, y, R, x, C) ==
  LET rows == Area(scr).rows  h == Len(Art)
      cols == scr.cols        w == Len(Art[1])
  IN /\ y \in 1 .. h /\ R \in y .. h /\ x \in 1 .. w /\ C \in x .. w
     /\ CellsOf(p) = (y .. R) \X (x .. C)
     /\ Place(p) = Span(rows, h, y, R) \X Span(cols, w, x, C)
     /\ Inside(p) = (Low(rows, h, y) + 1 .. High(rows, h, R) - 1)
                      \X (Low(cols, w, x) + 1 .. High(cols, w, C) - 1)

LEMMA WindowsStand ==
  ASSUME Placed, Calculated, Art \in Seq(Seq(Cells)), Rectangular(Art), Blocks, OneKeyEach,
         ShownAreDrawn, scr.rows > scr.offset, NEW p \in Shown
  PROVE  \E y, R, x, C \in Nat : StandsOn(p, y, R, x, C)
<1>1. PICK d \in WindowCells(Art) \cap CellsOf(p) :
        LET rows == Area(scr).rows  h == Len(Art)    R == LastRow(Art, d[1], d[2])
            cols == scr.cols        w == Len(Art[1]) C == LastCol(Art, d[1], d[2])
        IN /\ Place(p) = Span(rows, h, d[1], R) \X Span(cols, w, d[2], C)
           /\ Inside(p) = (Low(rows, h, d[1]) + 1 .. High(rows, h, R) - 1)
                            \X (Low(cols, w, d[2]) + 1 .. High(cols, w, C) - 1)
  <2> HIDE DEF Placed, Calculated, Shown, Art, Area, Place, Inside, CellsOf
  <2> QED BY PlacesAreSpans
<1>2. CellsOf(p) = Block(Art, d)
  BY WindowIsRectangle
<1>3. Len(Art) \in Nat /\ Len(Art[1]) \in Nat /\ d[1] \in 1 .. Len(Art) /\ d[2] \in 1 .. Len(Art[1])
  BY SizesAre DEF CellsOf, CellsIn
<1>4. LastRow(Art, d[1], d[2]) \in d[1] .. Len(Art)
  BY <1>3, LastRowIs
<1>5. LastCol(Art, d[1], d[2]) \in d[2] .. Len(Art[1])
  BY <1>3, LastColIs
<1>6. StandsOn(p, d[1], LastRow(Art, d[1], d[2]), d[2], LastCol(Art, d[1], d[2]))
  BY <1>1, <1>2, <1>3, <1>4, <1>5 DEF StandsOn, Block
<1> QED BY <1>3, <1>4, <1>5, <1>6

(* Spans of whole segments are as long as they.                            *)
LEMMA SpansAreLong ==
  ASSUME NEW total \in Nat, NEW n \in Nat \ {0}, NEW k \in Nat, total >= k * n,
         NEW i \in 1 .. n, NEW j \in i .. n
  PROVE  High(total, n, j) - Low(total, n, i) + 1 >= k
<1>1. \A a \in 1 .. n + 1 : Edge(total, n, a) \in Nat
  BY EdgesAre
<1>2. i \in 1 .. n + 1 /\ j + 1 \in 1 .. n + 1 /\ j + 1 \in i .. n + 1 /\ i < j + 1
  OBVIOUS
<1>3. Edge(total, n, i) + k <= Edge(total, n, j + 1)
  BY <1>2, EdgesGrow
<1>4. PICK a \in Nat, b \in Nat : a = Edge(total, n, i) /\ b = Edge(total, n, j + 1)
  BY <1>1, <1>2
<1> QED BY <1>3, <1>4 DEF High, Low

(* Where every segment has four rows and three columns there is room for a *)
(* row and a column of data.                                               *)
LEMMA DataHasRoom ==
  ASSUME Placed, Calculated, Art \in Seq(Seq(Cells)), Rectangular(Art),
         Area(scr).rows >= 4 * Len(Art), scr.cols >= 3 * Len(Art[1]), NEW p \in Shown
  PROVE  DataRows(p) >= 1 /\ DataCols(p) >= 1
<1>1. PICK h \in Nat \ {0}, w \in Nat \ {0} : h = Len(Art) /\ w = Len(Art[1])
  BY SizesAre
<1>2. /\ scr.rows \in Nat \ {0} /\ scr.cols \in Nat \ {0} /\ scr.offset \in Nat
      /\ Area(scr).rows = scr.rows - scr.offset
  BY DEF Placed, Area
<1>3. scr.rows > scr.offset
  BY <1>1, <1>2
<1>4. PICK rows \in Nat, cols \in Nat : rows = Area(scr).rows /\ cols = scr.cols
  BY <1>2, <1>3
<1>5. PICK d \in WindowCells(Art) \cap CellsOf(p) :
        LET R == LastRow(Art, d[1], d[2])
            C == LastCol(Art, d[1], d[2])
        IN /\ win[p].rows = High(rows, h, R) - Low(rows, h, d[1]) + 1
           /\ win[p].cols = High(cols, w, C) - Low(cols, w, d[2]) + 1
  BY <1>1, <1>3, <1>4, PlacesAreSpans
<1>6. PICK y \in 1 .. h, x \in 1 .. w : y = d[1] /\ x = d[2]
  BY <1>1 DEF CellsOf, CellsIn
<1>7. PICK R \in y .. h, C \in x .. w : R = LastRow(Art, y, x) /\ C = LastCol(Art, y, x)
  BY <1>1, <1>6, LastRowIs, LastColIs
<1>8. High(rows, h, R) - Low(rows, h, y) + 1 >= 4
  <2>1. rows >= 4 * h /\ y \in 1 .. h /\ R \in y .. h /\ 4 \in Nat
    BY <1>1, <1>4
  <2> QED BY ONLY <2>1, SpansAreLong
<1>9. High(cols, w, C) - Low(cols, w, x) + 1 >= 3
  <2>1. cols >= 3 * w /\ x \in 1 .. w /\ C \in x .. w /\ 3 \in Nat
    BY <1>1, <1>4
  <2> QED BY ONLY <2>1, SpansAreLong
<1>10. PICK r \in Int, c \in Int : r = win[p].rows /\ c = win[p].cols
  <2>1. Low(rows, h, y) \in Int /\ High(rows, h, R) \in Int
    BY SpansMeasure
  <2>2. Low(cols, w, x) \in Int /\ High(cols, w, C) \in Int
    BY SpansMeasure
  <2> QED BY <1>5, <1>6, <1>7, <2>1, <2>2
<1>11. r >= 4 /\ c >= 3
  BY <1>5, <1>6, <1>7, <1>8, <1>9, <1>10
<1> QED BY <1>10, <1>11 DEF DataRows, DataCols, TopbarRows


(* Two windows stand on different rows of segments or different columns.   *)
LEMMA WindowsStandApart ==
  ASSUME NEW p, NEW q, p # q,
         NEW y \in Nat, NEW R \in Nat, NEW x \in Nat, NEW C \in Nat, StandsOn(p, y, R, x, C),
         NEW v \in Nat, NEW S \in Nat, NEW u \in Nat, NEW D \in Nat, StandsOn(q, v, S, u, D),
         Len(Art) \in Nat, Len(Art[1]) \in Nat
  PROVE  R < v \/ S < y \/ C < u \/ D < x
<1> SUFFICES ASSUME ~(R < v), ~(S < y), ~(C < u), ~(D < x) PROVE FALSE
  OBVIOUS
<1>1. /\ y \in Nat /\ R \in Nat /\ y <= R /\ x \in Nat /\ C \in Nat /\ x <= C
      /\ CellsOf(p) = (y .. R) \X (x .. C)
  BY DEF StandsOn
<1>2. /\ v \in Nat /\ S \in Nat /\ v <= S /\ u \in Nat /\ D \in Nat /\ u <= D
      /\ CellsOf(q) = (v .. S) \X (u .. D)
  BY DEF StandsOn
<1>3. PICK i \in Nat : y <= i /\ i <= R /\ v <= i /\ i <= S
  <2>1. CASE y <= v
    BY SMTT(30), <1>1, <1>2, <2>1
  <2>2. CASE v <= y
    BY <1>1, <1>2, <2>2
  <2> QED BY <1>1, <1>2, <2>1, <2>2
<1>4. PICK j \in Nat : x <= j /\ j <= C /\ u <= j /\ j <= D
  <2>1. CASE x <= u
    <3>1. u <= C /\ u <= u /\ u <= D
      BY <1>1, <1>2
    <3> QED BY <2>1, <3>1
  <2>2. CASE u <= x
    BY <1>1, <1>2, <2>2
  <2> QED BY <1>1, <1>2, <2>1, <2>2
<1>5. <<i, j>> \in CellsOf(p) /\ <<i, j>> \in CellsOf(q)
  BY <1>1, <1>2, <1>3, <1>4
<1> QED BY <1>5 DEF CellsOf

(* Neither reaches inside the other, and where they meet they share a      *)
(* border.                                                                 *)
LEMMA WindowsMeet ==
  ASSUME NEW p, NEW q, p # q,
         NEW y \in Nat, NEW R \in Nat, NEW x \in Nat, NEW C \in Nat, StandsOn(p, y, R, x, C),
         NEW v \in Nat, NEW S \in Nat, NEW u \in Nat, NEW D \in Nat, StandsOn(q, v, S, u, D),
         Len(Art) \in Nat \ {0}, Len(Art[1]) \in Nat \ {0},
         Area(scr).rows \in Nat \ {0}, scr.cols \in Nat \ {0}
  PROVE  /\ Inside(p) \cap Place(q) = {}
         /\ Roomy(2) => \A c \in Place(p) \ Place(q) :
              {<<c[1], c[2] + 1>>, <<c[1] + 1, c[2]>>} \cap Place(q) \subseteq Place(p)
<1>1. PICK h \in Nat \ {0}, w \in Nat \ {0}, rows \in Nat \ {0}, cols \in Nat \ {0} :
        h = Len(Art) /\ w = Len(Art[1]) /\ rows = Area(scr).rows /\ cols = scr.cols
  OBVIOUS
<1>2. /\ y \in 1 .. h /\ R \in y .. h /\ x \in 1 .. w /\ C \in x .. w
      /\ Place(p) = Span(rows, h, y, R) \X Span(cols, w, x, C)
      /\ Inside(p) = (Low(rows, h, y) + 1 .. High(rows, h, R) - 1)
                       \X (Low(cols, w, x) + 1 .. High(cols, w, C) - 1)
  BY <1>1 DEF StandsOn
<1>3. /\ v \in 1 .. h /\ S \in v .. h /\ u \in 1 .. w /\ D \in u .. w
      /\ Place(q) = Span(rows, h, v, S) \X Span(cols, w, u, D)
  BY <1>1 DEF StandsOn
<1>4. /\ R < v \/ S < y => (Low(rows, h, y) + 1 .. High(rows, h, R) - 1) \cap Span(rows, h, v, S) = {}
      /\ rows >= 2 * h => \A a \in Span(rows, h, y, R) :
           a \notin Span(rows, h, v, S) /\ a + 1 \in Span(rows, h, v, S) => a + 1 \in Span(rows, h, y, R)
  <2>1. y \in 1 .. h /\ R \in y .. h /\ v \in 1 .. h /\ S \in v .. h
    BY <1>2, <1>3
  <2> QED BY <2>1, SpansMeet
<1>5. /\ C < u \/ D < x => (Low(cols, w, x) + 1 .. High(cols, w, C) - 1) \cap Span(cols, w, u, D) = {}
      /\ cols >= 2 * w => \A a \in Span(cols, w, x, C) :
           a \notin Span(cols, w, u, D) /\ a + 1 \in Span(cols, w, u, D) => a + 1 \in Span(cols, w, x, C)
  <2>1. x \in 1 .. w /\ C \in x .. w /\ u \in 1 .. w /\ D \in u .. w
    BY <1>2, <1>3
  <2> QED BY <2>1, SpansMeet
<1>6. Inside(p) \cap Place(q) = {}
  <2>1. R < v \/ S < y \/ C < u \/ D < x
    BY WindowsStandApart
  <2>2. CASE R < v \/ S < y
    BY <1>2, <1>3, <1>4, <2>2
  <2>3. CASE C < u \/ D < x
    BY <1>2, <1>3, <1>5, <2>3
  <2> QED BY <2>1, <2>2, <2>3
<1>7. ASSUME Roomy(2), NEW c \in Place(p) \ Place(q)
      PROVE  {<<c[1], c[2] + 1>>, <<c[1] + 1, c[2]>>} \cap Place(q) \subseteq Place(p)
  <2>1. rows >= 2 * h /\ cols >= 2 * w
    BY <1>1, <1>7 DEF Roomy
  <2>2. PICK a \in Span(rows, h, y, R), b \in Span(cols, w, x, C) : c = <<a, b>>
    BY <1>2
  <2>3. ~(a \in Span(rows, h, v, S) /\ b \in Span(cols, w, u, D))
    BY <1>3, <2>2
  <2>4. ASSUME <<a, b + 1>> \in Place(q) PROVE <<a, b + 1>> \in Place(p)
    <3>1. a \in Span(rows, h, v, S) /\ b + 1 \in Span(cols, w, u, D)
      BY <1>3, <2>4
    <3>2. b + 1 \in Span(cols, w, x, C)
      BY <1>5, <2>1, <2>3, <3>1
    <3> QED BY <1>2, <3>2
  <2>5. ASSUME <<a + 1, b>> \in Place(q) PROVE <<a + 1, b>> \in Place(p)
    <3>1. a + 1 \in Span(rows, h, v, S) /\ b \in Span(cols, w, u, D)
      BY <1>3, <2>5
    <3>2. a + 1 \in Span(rows, h, y, R)
      BY <1>4, <2>1, <2>3, <3>1
    <3> QED BY <1>2, <3>2
  <2>6. c[1] = a /\ c[2] = b
    BY <2>2
  <2> QED BY <2>4, <2>5, <2>6
<1> QED BY <1>6, <1>7

(* Together they cover the area below the header.                          *)
LEMMA WindowsCover ==
  ASSUME Placed, Calculated, Art \in Seq(Seq(Cells)), Rectangular(Art), Blocks, OneKeyEach,
         ShownAreDrawn, scr.rows > scr.offset
  PROVE  UNION {Place(p) : p \in Shown} = (0 .. Area(scr).rows - 1) \X (0 .. scr.cols - 1)
<1>1. PICK h \in Nat \ {0}, w \in Nat \ {0}, rows \in Nat \ {0}, cols \in Nat \ {0} :
        h = Len(Art) /\ w = Len(Art[1]) /\ rows = Area(scr).rows /\ cols = scr.cols
  <2>1. scr.rows \in Nat \ {0} /\ scr.cols \in Nat \ {0} /\ scr.offset \in Nat
    BY DEF Placed
  <2>2. Area(scr).rows \in Nat \ {0}
    BY <2>1 DEF Area
  <2> QED BY <2>1, <2>2, SizesAre
<1>2. ASSUME NEW p \in Shown PROVE Place(p) \subseteq (0 .. rows - 1) \X (0 .. cols - 1)
  <2>1. PICK y \in Nat, R \in Nat, x \in Nat, C \in Nat : StandsOn(p, y, R, x, C)
    BY WindowsStand
  <2>2. /\ y \in 1 .. h /\ R \in y .. h /\ x \in 1 .. w /\ C \in x .. w
        /\ Place(p) = Span(rows, h, y, R) \X Span(cols, w, x, C)
    BY <1>1, <2>1 DEF StandsOn
  <2>3. Low(rows, h, y) \in Nat /\ High(rows, h, R) \in Nat /\ High(rows, h, R) < rows
    BY <2>2, SpansFit
  <2>4. Low(cols, w, x) \in Nat /\ High(cols, w, C) \in Nat /\ High(cols, w, C) < cols
    BY <2>2, SpansFit
  <2> QED BY <2>2, <2>3, <2>4 DEF Span
<1>3. ASSUME NEW a \in 0 .. rows - 1, NEW b \in 0 .. cols - 1
      PROVE  \E p \in Shown : <<a, b>> \in Place(p)
  <2>1. PICK i \in 1 .. h : Edge(rows, h, i) <= a /\ a < Edge(rows, h, i + 1)
    BY SegmentsCover
  <2>2. PICK j \in 1 .. w : Edge(cols, w, j) <= b /\ b < Edge(cols, w, j + 1)
    BY SegmentsCover
  <2>3. <<i, j>> \in CellsIn(Art)
    BY <1>1 DEF CellsIn
  <2>4. PICK p \in WinPlugins : p = plugin_key_index[Art[i][j]]
    BY <2>3 DEF Placed, Bound
  <2>5. <<i, j>> \in CellsOf(p)
    BY <2>3, <2>4 DEF CellsOf
  <2>6. p \in Shown
    BY <2>5 DEF Shown, ShownAreDrawn, Calculated
  <2>7. PICK y \in Nat, R \in Nat, x \in Nat, C \in Nat : StandsOn(p, y, R, x, C)
    BY <2>6, WindowsStand
  <2>8. /\ y \in 1 .. h /\ R \in y .. h /\ x \in 1 .. w /\ C \in x .. w
        /\ Place(p) = Span(rows, h, y, R) \X Span(cols, w, x, C)
        /\ CellsOf(p) = (y .. R) \X (x .. C)
    BY <1>1, <2>7 DEF StandsOn
  <2>9. i \in y .. R /\ j \in x .. C
    BY <2>5, <2>8
  <2>10. a \in Span(rows, h, y, R)
    BY <2>1, <2>8, <2>9, SpansFit
  <2>11. b \in Span(cols, w, x, C)
    BY <2>2, <2>8, <2>9, SpansFit
  <2> QED BY <2>6, <2>8, <2>10, <2>11
<1>4. UNION {Place(p) : p \in Shown} \subseteq (0 .. rows - 1) \X (0 .. cols - 1)
  BY <1>2
<1>5. (0 .. rows - 1) \X (0 .. cols - 1) \subseteq UNION {Place(p) : p \in Shown}
  <2>1. ASSUME NEW c \in (0 .. rows - 1) \X (0 .. cols - 1) PROVE c \in UNION {Place(p) : p \in Shown}
    <3>1. PICK a \in 0 .. rows - 1, b \in 0 .. cols - 1 : c = <<a, b>>
      OBVIOUS
    <3> QED BY <1>3, <3>1
  <2> QED BY <2>1
<1> QED BY <1>1, <1>4, <1>5

(* For every window put where calculate_layout() puts it.                  *)
THEOREM PlacedInvariant == Spec => []Placed
<1>1. Init => Placed
  BY DEF Init, Placed, Calculated
<1>2. ScreenInv /\ Placed /\ [Next]_vars => Placed'
  BY NextPlaces DEF ScreenInv
<1> QED BY <1>1, <1>2, ScreenInvariant, PTL DEF Spec

(* Whatever is configured, and whatever the size of the terminal: windows  *)
(* drawn as rectangles tile the area below the header, and have room for   *)
(* data where the segments have.                                           *)
THEOREM WindowsTile == Spec => []Tiling
<1>1. ScreenInv /\ Placed => Tiling
  <2> SUFFICES ASSUME ScreenInv, Placed PROVE Tiling
    OBVIOUS
  <2>1. Calculated => Art \in Seq(Seq(Cells)) /\ Rectangular(Art)
    <3>1. Calculated => curr_layout \in 1 .. Len(layouts)
      BY DEF Calculated, ScreenInv, Choice
    <3>2. layouts \in Seq(Records) /\ \A i \in 1 .. Len(layouts) : Rectangular(layouts[i].matrix)
      BY DEF ScreenInv, LayoutsAreRead
    <3>3. Calculated => layouts[curr_layout] \in Records
      BY <3>1, <3>2, ElementOfSeq
    <3> QED BY <3>1, <3>2, <3>3 DEF Art, Records
  <2>2. ASSUME Calculated, Blocks, OneKeyEach, scr.rows > scr.offset
        PROVE  /\ UNION {Place(p) : p \in Shown} = (0 .. Area(scr).rows - 1) \X (0 .. scr.cols - 1)
               /\ \A p \in Shown : \A q \in Shown \ {p} :
                    /\ Inside(p) \cap Place(q) = {}
                    /\ Roomy(2) => \A c \in Place(p) \ Place(q) :
                         {<<c[1], c[2] + 1>>, <<c[1] + 1, c[2]>>} \cap Place(q) \subseteq Place(p)
    <3>1. ShownAreDrawn
      BY DEF ScreenInv
    <3>2. UNION {Place(p) : p \in Shown} = (0 .. Area(scr).rows - 1) \X (0 .. scr.cols - 1)
      BY <2>1, <2>2, <3>1, WindowsCover
    <3>3. /\ Len(Art) \in Nat \ {0} /\ Len(Art[1]) \in Nat \ {0}
          /\ Area(scr).rows \in Nat \ {0} /\ scr.cols \in Nat \ {0}
      <4>1. scr.rows \in Nat \ {0} /\ scr.cols \in Nat \ {0} /\ scr.offset \in Nat
        BY <2>2 DEF Placed
      <4>2. Area(scr).rows \in Nat \ {0}
        BY <2>2, <4>1 DEF Area
      <4> QED BY <2>1, <2>2, <4>1, <4>2, SizesAre
    <3>4. ASSUME NEW p \in Shown, NEW q \in Shown \ {p}
          PROVE  /\ Inside(p) \cap Place(q) = {}
                 /\ Roomy(2) => \A c \in Place(p) \ Place(q) :
                      {<<c[1], c[2] + 1>>, <<c[1] + 1, c[2]>>} \cap Place(q) \subseteq Place(p)
      <4>1. PICK y \in Nat, R \in Nat, x \in Nat, C \in Nat : StandsOn(p, y, R, x, C)
        BY <2>1, <2>2, <3>1, WindowsStand
      <4>2. PICK v \in Nat, S \in Nat, u \in Nat, D \in Nat : StandsOn(q, v, S, u, D)
        BY <2>1, <2>2, <3>1, WindowsStand
      <4> QED BY <3>3, <4>1, <4>2, WindowsMeet
    <3> QED BY <3>2, <3>4
  <2>3. ASSUME phase = "run", Area(scr).rows >= 4 * Len(Art), scr.cols >= 3 * Len(Art[1]), NEW p \in Shown
        PROVE  DataRows(p) >= 1 /\ DataCols(p) >= 1
    <3>1. Calculated
      BY <2>3 DEF Calculated
    <3> QED BY <2>1, <2>3, <3>1, DataHasRoom
  <2> QED BY <2>2, <2>3 DEF Tiling
<1> QED BY <1>1, ScreenInvariant, PlacedInvariant, PTL


-----------------------------------------------------------------------------
(* The titles                                                              *)

(* Two recurrences over the keys of a header that start again at every     *)
(* newline: what is left of the room, forwards, and what the titles of a   *)
(* row take from one of them on, backwards.                                *)
Leaves(left, room, W, Breaks, n) ==
  /\ left \in [0 .. n -> Int] /\ left[0] = room
  /\ \A i \in 1 .. n : left[i] = IF i \in Breaks THEN room ELSE left[i - 1] - W[i]
Takes(width, W, Breaks, n) ==
  /\ width \in [1 .. n + 1 -> Int] /\ width[n + 1] = 0
  /\ \A i \in 1 .. n : width[i] = IF i \in Breaks THEN 0 ELSE W[i] + width[i + 1]
HasLeft(left, Breaks, n) == \A i \in 1 .. n : i \in Breaks \/ left[i] >= 1

(* Where something is always left, the titles take less than the room.     *)
LEMMA RowsFit ==
  ASSUME NEW n \in Nat, NEW room \in Int, NEW Breaks, NEW W \in [1 .. n -> Nat], NEW left, NEW width,
         Leaves(left, room, W, Breaks, n), Takes(width, W, Breaks, n), HasLeft(left, Breaks, n)
  PROVE  \A i \in 1 .. n : width[i] >= 0 /\ width[i + 1] >= 0 /\ (width[i] = 0 \/ width[i] <= room - 1)
<1> USE DEF Leaves, Takes, HasLeft
<1> DEFINE T == {k \in Nat : k <= n => left[k] <= room}
           S == {k \in Nat : k <= n => /\ width[n + 1 - k] >= 0
                                       /\ width[n + 1 - k] = 0 \/ (n - k >= 0 /\ width[n + 1 - k] <= left[n - k] - 1)}
<1>1. 0 \in T
  OBVIOUS
<1>2. ASSUME NEW i \in 1 .. n, i - 1 \in T PROVE i \in T
  <2>1. i - 1 \in 0 .. n /\ left[i - 1] <= room
    BY <1>2
  <2>2. PICK a \in Int, w \in Nat : a = left[i - 1] /\ w = W[i]
    BY <2>1
  <2>3. left[i] = room \/ left[i] = a - w
    BY <2>2
  <2> QED BY <2>1, <2>2, <2>3
<1>3. \A i \in 0 .. n : left[i] <= room
  <2> HIDE DEF T
  <2>1. 0 .. n \subseteq T
    BY <1>1, <1>2, Induction
  <2> QED BY <2>1 DEF T
<1>4. 0 \in S
  OBVIOUS
<1>5. ASSUME NEW k \in 1 .. n, k - 1 \in S PROVE k \in S
  <2>1. PICK i \in 1 .. n : i = n + 1 - k
    <3>1. n + 1 - k \in 1 .. n
      OBVIOUS
    <3> QED BY <3>1
  <2>2. n + 1 - (k - 1) = i + 1 /\ n - (k - 1) = i /\ n - k = i - 1
    BY <2>1
  <2>3. i + 1 \in 1 .. n + 1 /\ i \in 1 .. n + 1 /\ i - 1 \in 0 .. n /\ i \in 0 .. n
    OBVIOUS
  <2>4. width[i + 1] >= 0 /\ (width[i + 1] = 0 \/ width[i + 1] <= left[i] - 1)
    BY SMTT(30), <1>5, <2>2
  <2>5. PICK a \in Int, l \in Int, w \in Nat, s \in Int :
          a = left[i - 1] /\ l = left[i] /\ w = W[i] /\ s = width[i + 1]
    BY <2>3
  <2>6. CASE i \in Breaks
    <3>1. width[i] = 0
      BY <2>6
    <3> QED BY <2>1, <2>2, <3>1
  <2>7. CASE i \notin Breaks
    <3>1. l = a - w /\ width[i] = w + s /\ l >= 1
      BY <2>5, <2>7
    <3>2. s >= 0 /\ (s = 0 \/ s <= l - 1)
      BY <2>4, <2>5
    <3>3. width[i] >= 0 /\ width[i] <= a - 1
      BY <3>1, <3>2
    <3> QED BY <2>1, <2>2, <2>5, <3>3
  <2> QED BY <2>6, <2>7
<1>6. 0 .. n \subseteq S
  <2> HIDE DEF S
  <2> QED BY <1>4, <1>5, Induction
<1>7. \A j \in 1 .. n + 1 : width[j] >= 0 /\ (width[j] = 0 \/ (j - 1 >= 0 /\ width[j] <= left[j - 1] - 1))
  <2>1. ASSUME NEW j \in 1 .. n + 1
        PROVE  width[j] >= 0 /\ (width[j] = 0 \/ (j - 1 >= 0 /\ width[j] <= left[j - 1] - 1))
    <3>1. n + 1 - j \in 0 .. n /\ n + 1 - (n + 1 - j) = j /\ n - (n + 1 - j) = j - 1
      OBVIOUS
    <3>2. n + 1 - j \in S
      BY <1>6, <3>1
    <3> QED BY <3>1, <3>2
  <2> QED BY <2>1
<1> HIDE DEF S, T
<1> TAKE i \in 1 .. n
<1>8. i + 1 \in 1 .. n + 1 /\ i \in 1 .. n + 1 /\ i - 1 \in 0 .. n
  OBVIOUS
<1>9. left[i - 1] <= room /\ left[i - 1] \in Int /\ width[i] \in Int
  BY <1>3, <1>8
<1> QED BY SMTT(30), <1>7, <1>8, <1>9

(* Where the titles of a header fit, each of them is printed.              *)
LEMMA TitlesArePrinted ==
  ASSUME NEW keys \in Seq(Keys \cup {Newline}), NEW cols \in Int, cols = scr.cols,
         HeaderFits(keys, cols),
         \A i \in 1 .. Len(keys) : keys[i] \in Keys => plugin_key_index[keys[i]] \in Plugins,
         NEW i \in 1 .. Len(keys), keys[i] # Newline
  PROVE  Printed(HeaderColumn(keys, i), TitleLength[plugin_key_index[keys[i]]], cols)
<1> DEFINE n == Len(keys)
           room == cols - NameWidth
           Breaks == {j \in 1 .. n : keys[j] = Newline}
           Title(j) == TitleLength[plugin_key_index[keys[j]]]
           W == [j \in 1 .. n |-> IF j \in Breaks THEN 0 ELSE Title(j) + 2]
           WholeLeft(f) == [j \in 0 .. n |-> IF j = 0 \/ keys[j] = Newline THEN room
                                             ELSE f[j - 1] - (Title(j) + 2)]
           WholeWidth(f) == [j \in 1 .. n + 1 |-> IF j > n \/ keys[j] = Newline THEN 0
                                                  ELSE Title(j) + 2 + f[j + 1]]
<1>1. n \in Nat /\ \A j \in 1 .. n : keys[j] \in Keys \cup {Newline}
  BY LenProperties, ElementOfSeq
<1>2. NameWidth \in Nat \ {0} /\ room \in Int /\ room <= cols - 1
  <2>1. NameWidth \in Nat /\ NameWidth > 0
    BY LayoutsAssumption
  <2> QED BY <2>1
<1>3. ASSUME NEW j \in 1 .. n, keys[j] # Newline PROVE Title(j) \in Nat
  <2>1. keys[j] \in Keys
    BY <1>1, <1>3
  <2>2. plugin_key_index[keys[j]] \in Plugins
    BY <2>1
  <2> QED BY <2>2, LayoutsAssumption
<1>4. W \in [1 .. n -> Nat] /\ \A j \in 1 .. n : W[j] = IF j \in Breaks THEN 0 ELSE Title(j) + 2
  <2>1. \A j \in 1 .. n : (IF j \in Breaks THEN 0 ELSE Title(j) + 2) \in Nat
    <3> HIDE DEF Title, n
    <3> QED BY <1>3
  <2> QED BY <2>1
<1> HIDE DEF W, Title
<1>5. PICK left : left = WholeLeft(left) /\ room + 1 >= 0 /\ \A j \in 1 .. n : keys[j] = Newline \/ left[j] >= 1
  <2>1. \E f : f = WholeLeft(f)
    <3> DEFINE step == [x \in (1 .. n) \X Int |-> IF x[1] \in Breaks THEN room ELSE x[2] - W[x[1]]]
    <3>1. IsStep(step, n, Int)
      BY <1>2, <1>4 DEF IsStep
    <3>2. \A j \in 1 .. n, a \in Int : step[<<j, a>>] = IF j \in Breaks THEN room ELSE a - W[j]
      OBVIOUS
    <3> HIDE DEF step, room, n
    <3>3. PICK f : Iterates(f, room, step, n, Int)
      BY <1>1, <1>2, <3>1, Iteration
    <3>4. f \in [0 .. n -> Int] /\ f[0] = room /\ \A j \in 1 .. n : f[j] = step[<<j, f[j - 1]>>]
      BY <3>3 DEF Iterates
    <3>5. ASSUME NEW j \in 1 .. n PROVE f[j] = IF keys[j] = Newline THEN room ELSE f[j - 1] - (Title(j) + 2)
      <4>1. j - 1 \in 0 .. n
        BY <1>1
      <4>2. f[j - 1] \in Int
        BY <3>4, <4>1
      <4> QED BY <1>4, <3>2, <3>4, <4>2
    <3>6. \A j \in 0 .. n : j = 0 \/ j \in 1 .. n
      BY <1>1
    <3>7. f = WholeLeft(f)
      BY <1>1, <3>4, <3>5, <3>6
    <3> QED BY <3>7
  <2> QED BY <2>1 DEF HeaderFits, Title
<1>6. PICK width : width = WholeWidth(width) /\ HeaderColumn(keys, i) = cols - 2 - width[i]
  <2>1. \E f : f = WholeWidth(f)
    <3> DEFINE step == [x \in (1 .. n) \X Int |-> IF n + 1 - x[1] \in Breaks THEN 0 ELSE W[n + 1 - x[1]] + x[2]]
    <3>1. \A j \in 1 .. n : n + 1 - j \in 1 .. n
      BY <1>1
    <3>2. IsStep(step, n, Int)
      BY <1>4, <3>1 DEF IsStep
    <3>3. \A j \in 1 .. n, a \in Int :
            step[<<j, a>>] = IF n + 1 - j \in Breaks THEN 0 ELSE W[n + 1 - j] + a
      OBVIOUS
    <3> HIDE DEF step, n
    <3>4. PICK g : Iterates(g, 0, step, n, Int)
      <4>1. 0 \in Int
        OBVIOUS
      <4> QED BY <1>1, <3>2, <4>1, Iteration
    <3>5. g \in [0 .. n -> Int] /\ g[0] = 0 /\ \A j \in 1 .. n : g[j] = step[<<j, g[j - 1]>>]
      BY <3>4 DEF Iterates
    <3> DEFINE f == [j \in 1 .. n + 1 |-> g[n + 1 - j]]
    <3>6. \A j \in 1 .. n + 1 : f[j] = g[n + 1 - j]
      OBVIOUS
    <3>7. f[n + 1] = 0
      BY <1>1, <3>5, <3>6
    <3>8. ASSUME NEW j \in 1 .. n PROVE f[j] = IF keys[j] = Newline THEN 0 ELSE Title(j) + 2 + f[j + 1]
      <4>1. PICK k \in 1 .. n : k = n + 1 - j
        BY <3>1
      <4>2. k - 1 \in 0 .. n /\ n + 1 - k = j /\ n + 1 - (j + 1) = k - 1 /\ j + 1 \in 1 .. n + 1 /\ j \in 1 .. n + 1
        BY <1>1, <4>1
      <4>3. g[k - 1] \in Int /\ f[j] = g[k] /\ f[j + 1] = g[k - 1]
        BY <3>5, <3>6, <4>1, <4>2
      <4>4. g[k] = IF j \in Breaks THEN 0 ELSE W[j] + g[k - 1]
        BY <3>3, <3>5, <4>2, <4>3
      <4> HIDE DEF f
      <4> QED BY <1>4, <4>3, <4>4
    <3>9. \A j \in 1 .. n + 1 : (j > n /\ j = n + 1) \/ (j \in 1 .. n /\ ~(j > n))
      BY <1>1
    <3>10. DOMAIN f = 1 .. n + 1 /\ f = [j \in 1 .. n + 1 |-> f[j]]
      OBVIOUS
    <3> HIDE DEF f
    <3>11. f = WholeWidth(f)
      BY <3>7, <3>8, <3>9, <3>10
    <3> QED BY <3>11
  <2> QED BY <2>1 DEF HeaderColumn, Title
<1>7. Leaves(left, room, W, Breaks, n)
  <2>1. \A j \in 0 .. n : left[j] = IF j = 0 \/ keys[j] = Newline THEN room ELSE left[j - 1] - (Title(j) + 2)
    <3> DEFINE h == WholeLeft(left)
    <3>1. \A j \in 0 .. n : h[j] = IF j = 0 \/ keys[j] = Newline THEN room ELSE left[j - 1] - (Title(j) + 2)
      OBVIOUS
    <3>2. left = h
      BY <1>5
    <3> HIDE DEF h
    <3> QED BY <3>1, <3>2
  <2>2. DOMAIN left = 0 .. n /\ left = [j \in 0 .. n |-> left[j]]
    <3> DEFINE h == WholeLeft(left)
    <3>1. DOMAIN h = 0 .. n /\ h = [j \in 0 .. n |-> h[j]]
      OBVIOUS
    <3>2. left = h
      BY <1>5
    <3> HIDE DEF h
    <3> QED BY <3>1, <3>2
  <2>3. left[0] = room /\ \A j \in 1 .. n : left[j] = IF j \in Breaks THEN room ELSE left[j - 1] - W[j]
    <3>1. \A j \in 1 .. n : j \in 0 .. n /\ j # 0
      BY <1>1
    <3>2. 0 \in 0 .. n
      BY <1>1
    <3> HIDE DEF room, n
    <3> QED BY <1>4, <2>1, <3>1, <3>2
  <2> DEFINE T == {k \in Nat : left[k] \in Int}
  <2>4. 0 .. n \subseteq T
    <3>1. 0 \in T
      BY <1>2, <2>3
    <3>2. ASSUME NEW j \in 1 .. n, j - 1 \in T PROVE j \in T
      <4>1. left[j - 1] \in Int /\ W[j] \in Nat /\ j \in Nat
        BY <1>1, <1>4, <3>2
      <4>2. left[j] = room \/ left[j] = left[j - 1] - W[j]
        BY <2>3
      <4> HIDE DEF room, n
      <4> QED BY <1>2, <4>1, <4>2
    <3> HIDE DEF T
    <3> QED BY <1>1, <3>1, <3>2, Induction
  <2>5. left \in [0 .. n -> Int]
    BY <2>2, <2>4
  <2> HIDE DEF room, n, Breaks
  <2> QED BY <2>3, <2>5 DEF Leaves
<1>8. Takes(width, W, Breaks, n)
  <2>1. \A j \in 1 .. n + 1 : width[j] = IF j > n \/ keys[j] = Newline THEN 0 ELSE Title(j) + 2 + width[j + 1]
    <3> DEFINE h == WholeWidth(width)
    <3>1. \A j \in 1 .. n + 1 : h[j] = IF j > n \/ keys[j] = Newline THEN 0 ELSE Title(j) + 2 + width[j + 1]
      OBVIOUS
    <3>2. width = h
      BY <1>6
    <3> HIDE DEF h
    <3> QED BY <3>1, <3>2
  <2>2. DOMAIN width = 1 .. n + 1 /\ width = [j \in 1 .. n + 1 |-> width[j]]
    <3> DEFINE h == WholeWidth(width)
    <3>1. DOMAIN h = 1 .. n + 1 /\ h = [j \in 1 .. n + 1 |-> h[j]]
      OBVIOUS
    <3>2. width = h
      BY <1>6
    <3> HIDE DEF h
    <3> QED BY <3>1, <3>2
  <2>3. width[n + 1] = 0 /\ \A j \in 1 .. n : width[j] = IF j \in Breaks THEN 0 ELSE W[j] + width[j + 1]
    <3>1. \A j \in 1 .. n : j \in 1 .. n + 1 /\ ~(j > n)
      BY <1>1
    <3>2. n + 1 \in 1 .. n + 1 /\ n + 1 > n
      BY <1>1
    <3> HIDE DEF n
    <3> QED BY <1>4, <2>1, <3>1, <3>2
  <2> DEFINE T == {k \in Nat : width[n + 1 - k] \in Int}
  <2>4. 0 .. n \subseteq T
    <3>1. 0 \in T
      BY <1>1, <2>3
    <3>2. ASSUME NEW k \in 1 .. n, k - 1 \in T PROVE k \in T
      <4>1. PICK j \in 1 .. n : j = n + 1 - k
        <5>1. n + 1 - k \in 1 .. n
          BY <1>1
        <5> QED BY <5>1
      <4>2. n + 1 - (k - 1) = j + 1
        BY <1>1, <4>1
      <4>3. width[j + 1] \in Int
        BY <3>2, <4>2
      <4>4. width[j] \in Int
        BY <1>4, <2>3, <4>3
      <4> QED BY <4>1, <4>4
    <3> HIDE DEF T
    <3> QED BY <1>1, <3>1, <3>2, Induction
  <2>5. ASSUME NEW j \in 1 .. n + 1 PROVE width[j] \in Int
    <3>1. n + 1 - j \in 0 .. n /\ n + 1 - (n + 1 - j) = j
      BY <1>1
    <3>2. n + 1 - j \in T
      BY <2>4, <3>1
    <3> QED BY <3>1, <3>2
  <2>6. width \in [1 .. n + 1 -> Int]
    BY <2>2, <2>5
  <2> HIDE DEF n, Breaks
  <2> QED BY <2>3, <2>6 DEF Takes
<1>9. HasLeft(left, Breaks, n)
  BY <1>5 DEF HasLeft
<1> HIDE DEF n, room, Breaks
<1>10. \A j \in 1 .. n : width[j] >= 0 /\ width[j + 1] >= 0 /\ (width[j] = 0 \/ width[j] <= room - 1)
  <2>1. n \in Nat /\ room \in Int /\ W \in [1 .. n -> Nat]
    BY <1>1, <1>2, <1>4
  <2> QED BY ONLY <1>7, <1>8, <1>9, <2>1, RowsFit
<1>11. i \in 1 .. n /\ i \notin Breaks
  BY DEF n, Breaks
<1>12. PICK t \in Nat : t = Title(i)
  BY <1>3, <1>11 DEF n
<1>13. PICK a \in Int, c \in Int : a = width[i] /\ c = width[i + 1]
  <2>1. i \in 1 .. n + 1 /\ i + 1 \in 1 .. n + 1
    BY <1>1, <1>11
  <2> QED BY <1>8, <2>1 DEF Takes
<1>14. a = t + 2 + c /\ c >= 0 /\ a <= room - 1
  <2>1. a = t + 2 + c
    BY <1>4, <1>8, <1>11, <1>12, <1>13 DEF Takes
  <2>2. c >= 0 /\ (a = 0 \/ a <= room - 1)
    BY <1>10, <1>11, <1>13
  <2> QED BY <2>1, <2>2
<1>15. 0 <= cols - 2 - a /\ cols - 2 - a + t <= cols
  BY <1>2, <1>14
<1> QED BY <1>6, <1>12, <1>13, <1>15 DEF Printed, Title

(* So is the title of a window that is two columns wider.                  *)
LEMMA BorderHasRoom ==
  ASSUME NEW p \in WinPlugins, win[p].cols \in Int, win[p].cols >= TitleLength[p] + 2
  PROVE  OnBorder(p)
<1>1. PICK t \in Nat, c \in Int : t = TitleLength[p] /\ c = win[p].cols
  <2>1. p \in Plugins
    BY LayoutsAssumption
  <2> QED BY <2>1, LayoutsAssumption
<1>2. PICK half \in Int : half = (c - t) \div 2
  OBVIOUS
<1>3. 0 <= half - 1 /\ half - 1 + t <= c /\ ~(c - t < 0)
  BY <1>1, <1>2
<1>4. HalfTowardsZero(c - t) = half
  BY <1>2, <1>3 DEF HalfTowardsZero
<1> QED BY <1>1, <1>3, <1>4 DEF OnBorder, Printed

(* The windows of a layout have a number of columns.                       *)
LEMMA WindowHasColumns ==
  ASSUME Placed, Calculated, Art \in Seq(Seq(Cells)), Rectangular(Art), NEW p \in Shown
  PROVE  win[p].cols \in Int
<1>1. PICK d \in WindowCells(Art) \cap CellsOf(p) : win[p] = WindowAt(Art, Area(scr), d[1], d[2])
  BY DEF Placed
<1>2. PICK h \in Nat \ {0}, w \in Nat \ {0}, cols \in Nat : h = Len(Art) /\ w = Len(Art[1]) /\ cols = scr.cols
  BY SizesAre DEF Placed
<1>3. PICK y \in 1 .. h, x \in 1 .. w : y = d[1] /\ x = d[2]
  BY <1>2 DEF CellsOf, CellsIn
<1>4. PICK C \in x .. w : C = LastCol(Art, y, x)
  BY <1>2, <1>3, LastColIs
<1>5. win[p].cols = Begin(cols, w, C) + Share(cols, w, C) - Begin(cols, w, x) + (IF x > 1 THEN 1 ELSE 0)
  BY <1>1, <1>2, <1>3, <1>4 DEF WindowAt, Area
<1>6. /\ Low(cols, w, x) \in Int /\ High(cols, w, C) \in Int
      /\ Begin(cols, w, C) + Share(cols, w, C) - Begin(cols, w, x) + (IF x > 1 THEN 1 ELSE 0)
           = High(cols, w, C) - Low(cols, w, x) + 1
  <2>1. cols \in Nat /\ w \in Nat \ {0} /\ x \in 1 .. w /\ C \in x .. w
    OBVIOUS
  <2> QED BY ONLY <2>1, SpansMeasure
<1>7. PICK a \in Int, b \in Int : a = Low(cols, w, x) /\ b = High(cols, w, C)
  BY <1>6
<1> QED BY <1>5, <1>6, <1>7

(* The header of a layout that is on the screen names plugins, whose titles*)
(* fit; and the plugin that ended the session is one the property allows.  *)
HeaderNames ==
  LET keys == layouts[curr_layout].header
  IN \A i \in 1 .. Len(keys) : keys[i] \in Keys => plugin_key_index[keys[i]] \in Plugins
HeaderIsWritten ==
  phase \in {"windows", "run", "choose"} => HeaderNames /\ HeaderFits(layouts[curr_layout].header, scr.cols)
MissingIsAllowed ==
  missing # 0 => phase \in {"failed", "closed", "dirty", "undefined"} /\ TitlesFound

LEMMA HeaderStays ==
  ASSUME HeaderIsWritten, phase \in {"windows", "run", "choose"},
         UNCHANGED <<layouts, plugin_key_index, curr_layout, scr>>
  PROVE  HeaderIsWritten'
<1>1. HeaderNames' <=> HeaderNames
  BY DEF HeaderNames
<1>2. HeaderFits(layouts[curr_layout].header, scr.cols)' <=> HeaderFits(layouts[curr_layout].header, scr.cols)
  BY DEF HeaderFits
<1> QED BY <1>1, <1>2 DEF HeaderIsWritten

LEMMA NextWritesHeader ==
  BindingInv /\ LayoutsAreRead /\ Choice /\ HeaderIsWritten /\ [Next]_vars => HeaderIsWritten'
<1> SUFFICES ASSUME BindingInv, LayoutsAreRead, Choice, HeaderIsWritten, [Next]_vars
             PROVE  HeaderIsWritten'
  OBVIOUS
<1>1. ASSUME phase' \notin {"windows", "run", "choose"} PROVE HeaderIsWritten'
  BY <1>1 DEF HeaderIsWritten
<1>2. CASE ReadCommand \/ ReadBinding \/ Probe \/ NotFound \/ ReadLayout \/ Start \/ Free \/ Find \/ Calculate
           \/ Restart \/ CleanUp
  <2>1. phase' \notin {"windows", "run", "choose"}
    BY <1>2 DEF ReadCommand, ReadBinding, Probe, NotFound, ReadLayout, Start, Free, Find, Calculate, Restart,
                CleanUp, Reading, FreeNcWindowData
  <2> QED BY <1>1, <2>1
<1>3. CASE RenderHeader
  <2> DEFINE keys == layouts[curr_layout].header
  <2>1. /\ phase = "header" /\ UNCHANGED <<layouts, plugin_key_index, curr_layout, scr>>
        /\ phase' = "windows" => /\ HeaderFits(keys, scr.cols)
                                 /\ \A i \in 1 .. Len(keys) : keys[i] \in Keys => plugin_key_index[keys[i]] # 0
        /\ phase' \in {"windows", "failed", "undefined"}
    BY <1>3 DEF RenderHeader, parsing, geometry
  <2>2. CASE phase' = "windows"
    <3>1. HeaderNames
      <4>1. plugin_key_index \in [Keys -> 0 .. Len(Table)]
        BY DEF BindingInv
      <4> QED BY <2>1, <2>2, <4>1, TableIs DEF HeaderNames, Plugins
    <3>2. HeaderNames' <=> HeaderNames
      BY <2>1 DEF HeaderNames
    <3>3. HeaderFits(layouts[curr_layout].header, scr.cols)'
      BY <2>1, <2>2 DEF HeaderFits
    <3> QED BY <3>1, <3>2, <3>3 DEF HeaderIsWritten
  <2>3. CASE phase' # "windows"
    BY <1>1, <2>1, <2>3
  <2> QED BY <2>2, <2>3
<1>4. CASE RenderWindows \/ RunPlugin \/ OpenPopup \/ Highlight \/ Leave \/ Resize
  <2>1. phase \in {"windows", "run", "choose"} /\ UNCHANGED <<layouts, plugin_key_index, curr_layout, scr>>
    BY <1>4 DEF RenderWindows, RunPlugin, SendCommand, SelectWindow, FindTitle, OpenPopup, Highlight, Leave,
                Resize, geometry, parsing
  <2> QED BY <2>1, HeaderStays
<1>5. CASE Enter
  <2>1. phase = "choose" /\ UNCHANGED <<layouts, plugin_key_index, scr>>
    BY <1>5 DEF Enter, parsing
  <2>2. CASE curr_option <= Len(layouts)
    BY <1>1, <1>5, <2>2 DEF Enter
  <2>3. CASE ~(curr_option <= Len(layouts))
    <3>1. UNCHANGED curr_layout
      BY <1>5, <2>3 DEF Enter
    <3> QED BY <2>1, <3>1, HeaderStays
  <2> QED BY <2>2, <2>3
<1>6. CASE UNCHANGED vars
  <2>1. UNCHANGED <<layouts, plugin_key_index, curr_layout, scr, phase>>
    BY <1>6 DEF vars, parsing, geometry
  <2> QED BY <1>1, <2>1, HeaderStays
<1> QED BY <1>2, <1>3, <1>4, <1>5, <1>6 DEF Next

(* A title that is not found is one that the property allows for.          *)
LEMMA FindTitleIsRight ==
  ASSUME BindingInv, LayoutsAreRead, Choice, Placed, HeaderIsWritten, RunPlugin, missing' # 0
  PROVE  missing' = missing \/ TitlesFound'
<1> SUFFICES ASSUME missing' # missing PROVE TitlesFound'
  OBVIOUS
<1>1. PICK k \in Keys : LET p == plugin_key_index[k] IN p # 0 /\ (SendCommand(p) \/ SelectWindow(p))
  BY DEF RunPlugin
<1> DEFINE p == plugin_key_index[k]
           keys == layouts[curr_layout].header
<1>2. p \in Plugins /\ phase = "run"
  BY <1>1, TableIs DEF BindingInv, Plugins, SendCommand, SelectWindow
<1>3. /\ UNCHANGED <<plugin_key_index, layouts, curr_layout, cut, win>> /\ missing' = p
      /\ \/ cut \/ p \in Elusive
         \/ p \notin WinPlugins /\ ~InHeader(p)
         \/ p \in WinPlugins /\ has_window[p] /\ ~OnBorder(p)
  BY <1>1 DEF SendCommand, SelectWindow, FindTitle, parsing, geometry
<1> HIDE DEF p
<1>4. Calculated /\ curr_layout \in 1 .. Len(layouts)
  BY <1>2 DEF Calculated, Choice
<1>5. layouts[curr_layout] \in Records /\ Rectangular(Art)
  BY <1>4, ElementOfSeq DEF LayoutsAreRead, Art
<1>6. keys \in Seq(Keys \cup {Newline}) /\ Art \in Seq(Seq(Cells))
  BY <1>5 DEF Records, Art
<1>7. CASE cut \/ p \in Elusive
  BY <1>3, <1>7 DEF TitlesFound
<1>8. CASE p \in WinPlugins /\ has_window[p] /\ ~OnBorder(p)
  <2>1. p \in Shown
    BY <1>8 DEF Shown
  <2>2. win[p].cols \in Int
    BY <1>4, <1>5, <1>6, <2>1, WindowHasColumns
  <2>3. TitleLength[p] \in Nat
    BY <1>2, LayoutsAssumption
  <2>4. win[p].cols < TitleLength[p] + 2
    <3>1. ~(win[p].cols >= TitleLength[p] + 2)
      BY <1>8, <2>2, BorderHasRoom
    <3> QED BY <2>2, <2>3, <3>1
  <2> QED BY <1>3, <1>8, <2>4 DEF TitlesFound
<1>9. CASE p \notin WinPlugins /\ ~InHeader(p)
  <2>1. ASSUME NEW i \in 1 .. Len(keys), NEW n \in 1 .. Len(keys),
               i < n, keys[n] = Newline, keys[i] \in Keys, plugin_key_index[keys[i]] = p
        PROVE  FALSE
    <3>1. i \in Titles(keys)
      BY <2>1 DEF Titles, Newlines
    <3>2. keys[i] # Newline
      BY <2>1, LayoutsAssumption
    <3>3. /\ HeaderFits(keys, scr.cols)
          /\ \A j \in 1 .. Len(keys) : keys[j] \in Keys => plugin_key_index[keys[j]] \in Plugins
      BY <1>2 DEF HeaderIsWritten, HeaderNames
    <3>4. scr.cols \in Int
      BY <1>4 DEF Placed
    <3> HIDE DEF keys
    <3>5. Printed(HeaderColumn(keys, i), TitleLength[plugin_key_index[keys[i]]], scr.cols)
      BY <1>6, <3>2, <3>3, <3>4, TitlesArePrinted
    <3>6. Printed(HeaderColumn(keys, i), TitleLength[p], scr.cols)
      BY <2>1, <3>5
    <3> QED BY <1>9, <2>1, <3>1, <3>6 DEF InHeader, keys
  <2>2. \A i, n \in 1 .. Len(keys) :
          i < n /\ keys[n] = Newline /\ keys[i] \in Keys => plugin_key_index[keys[i]] # p
    BY <2>1
  <2> QED BY <1>3, <1>9, <2>2 DEF TitlesFound
<1> QED BY <1>3, <1>7, <1>8, <1>9

(* Nothing but clean_up() follows, which moves nothing.                    *)
LEMMA NextMissing ==
  /\ BindingInv /\ LayoutsAreRead /\ Choice /\ Placed /\ HeaderIsWritten /\ MissingIsAllowed
  /\ [Next]_vars
  => MissingIsAllowed'
<1> SUFFICES ASSUME BindingInv, LayoutsAreRead, Choice, Placed, HeaderIsWritten, MissingIsAllowed,
                    [Next]_vars, missing' # 0
             PROVE  phase' \in {"failed", "closed", "dirty", "undefined"} /\ TitlesFound'
  BY DEF MissingIsAllowed
<1>1. CASE missing # 0 /\ CleanUp
  <2>1. phase' \in {"closed", "dirty", "undefined"}
    BY <1>1 DEF CleanUp, FreeNcWindowData
  <2>2. UNCHANGED <<missing, plugin_key_index, layouts, curr_layout, cut, win>> /\ TitlesFound
    BY <1>1 DEF CleanUp, parsing, geometry, MissingIsAllowed
  <2> QED BY <2>1, <2>2 DEF TitlesFound
<1>2. CASE missing # 0 /\ UNCHANGED vars
  <2>1. UNCHANGED <<phase, missing, plugin_key_index, layouts, curr_layout, cut, win>>
    BY <1>2 DEF vars, parsing, geometry, history
  <2>2. phase \in {"failed", "closed", "dirty", "undefined"} /\ TitlesFound
    BY <1>2 DEF MissingIsAllowed
  <2> QED BY <2>1, <2>2 DEF TitlesFound
<1>3. CASE missing # 0 /\ Next /\ ~CleanUp
  <2>1. phase \in {"failed", "closed", "dirty", "undefined"}
    BY <1>3 DEF MissingIsAllowed
  <2>2. FALSE
    BY <1>3, <2>1 DEF Next, ReadCommand, ReadBinding, Probe, NotFound, ReadLayout, Start, Free, Find, Calculate,
                      RenderHeader, RenderWindows, RunPlugin, SendCommand, SelectWindow, OpenPopup, Highlight,
                      Enter, Leave, Restart, Resize, Reading
  <2> QED BY <2>2
<1>4. CASE missing = 0 /\ RunPlugin
  <2>1. TitlesFound'
    BY <1>4, FindTitleIsRight
  <2>2. phase' = "failed"
    BY <1>4 DEF RunPlugin, SendCommand, SelectWindow, FindTitle
  <2> QED BY <2>1, <2>2
<1>5. CASE missing = 0 /\ ~RunPlugin
  <2>1. UNCHANGED missing
    BY <1>5 DEF Next, vars, history, ReadCommand, ReadBinding, Probe, NotFound, ReadLayout, Start, Free, Find,
                Calculate, RenderHeader, RenderWindows, OpenPopup, Highlight, Enter, Leave, Restart, Resize,
                CleanUp
  <2> QED BY <1>5, <2>1
<1> QED BY <1>1, <1>2, <1>3, <1>4, <1>5

(* Whatever is configured: as long as the terminal has not been smaller    *)
(* than the layout on it, a key ends the session only for a title that is  *)
(* not printed whole, or that the search can miss where it is printed.  The*)
(* title of a command that is in an ended row of the header is printed     *)
(* whole, since the header was checked to have room for it.                *)
THEOREM NamedTitlesAreFound == Spec => []TitlesFound
<1>1. Init => HeaderIsWritten /\ MissingIsAllowed
  BY DEF Init, HeaderIsWritten, MissingIsAllowed
<1>2. BindingInv /\ ScreenInv /\ HeaderIsWritten /\ [Next]_vars => HeaderIsWritten'
  BY NextWritesHeader DEF ScreenInv
<1>3. BindingInv /\ ScreenInv /\ Placed /\ HeaderIsWritten /\ MissingIsAllowed /\ [Next]_vars
        => MissingIsAllowed'
  BY NextMissing DEF ScreenInv
<1>4. MissingIsAllowed => TitlesFound
  BY DEF MissingIsAllowed, TitlesFound
<1> QED BY <1>1, <1>2, <1>3, <1>4, BindingInvariant, ScreenInvariant, PlacedInvariant, PTL DEF Spec

-----------------------------------------------------------------------------
(* The command                                                             *)

(* The words of a line, counted from left to right.                        *)
LEMMA WordsAreCounted ==
  ASSUME NEW line \in Seq(STRING)
  PROVE  /\ \A k : Nth(line, k) \in Nat
         /\ Nth(line, 0) = 0
         /\ \A k \in 1 .. Len(line) :
              Nth(line, k) = IF k \in Begins(line) THEN Nth(line, k - 1) + 1 ELSE Nth(line, k - 1)
<1> DEFINE B(k) == {j \in Begins(line) : j <= k}
<1>1. Len(line) \in Nat
  BY LenProperties
<1>2. ASSUME NEW k PROVE IsFiniteSet(B(k)) /\ Cardinality(B(k)) \in Nat
  <2>1. B(k) \subseteq 1 .. Len(line)
    BY DEF Begins
  <2>2. IsFiniteSet(1 .. Len(line))
    BY <1>1, FS_Interval
  <2> HIDE DEF B
  <2> QED BY <2>1, <2>2, FS_Subset, FS_CardinalityType
<1>3. Cardinality(B(0)) = 0
  <2>1. B(0) = {}
    BY DEF Begins
  <2> QED BY <2>1, FS_EmptySet
<1>4. ASSUME NEW k \in 1 .. Len(line)
      PROVE  Cardinality(B(k)) = IF k \in Begins(line) THEN Cardinality(B(k - 1)) + 1 ELSE Cardinality(B(k - 1))
  <2>1. \A j \in Begins(line) : j \in Int
    BY DEF Begins
  <2>2. CASE k \in Begins(line)
    <3>1. k \in Int /\ ~(k <= k - 1) /\ \A j \in Begins(line) : j <= k <=> j <= k - 1 \/ j = k
      BY <2>1
    <3>2. B(k) = B(k - 1) \cup {k} /\ k \notin B(k - 1)
      BY <2>2, <3>1
    <3> HIDE DEF B
    <3> QED BY <1>2, <2>2, <3>2, FS_AddElement
  <2>3. CASE k \notin Begins(line)
    <3>1. B(k) = B(k - 1)
      BY <2>1, <2>3
    <3> QED BY <2>3, <3>1
  <2> QED BY <2>2, <2>3
<1> QED BY <1>2, <1>3, <1>4 DEF Nth

(* Later words have higher numbers.                                        *)
LEMMA WordsAreInOrder ==
  ASSUME NEW line \in Seq(STRING), NEW j \in 0 .. Len(line), NEW k \in j .. Len(line)
  PROVE  /\ Nth(line, j) <= Nth(line, k)
         /\ j < k /\ k \in Begins(line) => Nth(line, j) < Nth(line, k)
<1>1. Len(line) \in Nat
  BY LenProperties
<1>2. ASSUME NEW m \in j .. Len(line) PROVE Nth(line, j) <= Nth(line, m)
  <2>1. {i \in Begins(line) : i <= j} \subseteq {i \in Begins(line) : i <= m}
    BY <1>1 DEF Begins
  <2>2. IsFiniteSet({i \in Begins(line) : i <= m})
    <3>1. {i \in Begins(line) : i <= m} \subseteq 1 .. Len(line)
      BY DEF Begins
    <3>2. IsFiniteSet(1 .. Len(line))
      BY <1>1, FS_Interval
    <3> QED BY <3>1, <3>2, FS_Subset
  <2> QED BY <2>1, <2>2, FS_Subset DEF Nth
<1>3. ASSUME j < k, k \in Begins(line) PROVE Nth(line, j) < Nth(line, k)
  <2>1. k - 1 \in j .. Len(line) /\ k \in 1 .. Len(line)
    BY <1>1, <1>3
  <2>2. Nth(line, j) <= Nth(line, k - 1) /\ Nth(line, k) = Nth(line, k - 1) + 1
    BY <1>2, <1>3, <2>1, WordsAreCounted
  <2> QED BY <2>2, WordsAreCounted
<1> QED BY <1>2, <1>3

(* Every other character than a blank is in a word, and in one only.       *)
LEMMA WordHasBeginning ==
  ASSUME NEW line \in Seq(STRING), NEW k \in 1 .. Len(line), line[k] # Blank
  PROVE  \E b \in Begins(line) :
           /\ b <= k /\ Nth(line, b) = Nth(line, k)
           /\ \A j \in Begins(line) : Nth(line, j) = Nth(line, b) => j = b
<1>1. PICK n \in Nat : n = Len(line)
  BY LenProperties
<1> DEFINE Has(m) == \E b \in Begins(line) : b <= m /\ Nth(line, b) = Nth(line, m)
           T == {m \in Nat : m \in 1 .. n /\ line[m] # Blank => Has(m)}
<1>2. 0 \in T
  OBVIOUS
<1>3. ASSUME NEW m \in 1 .. n, m - 1 \in T PROVE m \in T
  <2> SUFFICES ASSUME line[m] # Blank PROVE Has(m)
    OBVIOUS
  <2>1. CASE m \in Begins(line)
    BY <2>1
  <2>2. CASE m \notin Begins(line)
    <3>1. m > 1 /\ line[m - 1] # Blank
      BY <1>1, <2>2 DEF Begins
    <3>2. PICK b \in Begins(line) : b <= m - 1 /\ Nth(line, b) = Nth(line, m - 1)
      BY <1>3, <3>1
    <3>3. Nth(line, m) = Nth(line, m - 1)
      BY <1>1, <2>2, WordsAreCounted
    <3>4. b \in Int
      BY DEF Begins
    <3> QED BY <3>2, <3>3, <3>4
  <2> QED BY <2>1, <2>2
<1>4. k \in T
  <2>1. 0 .. n \subseteq T
    <3> HIDE DEF T
    <3> QED BY <1>2, <1>3, Induction
  <2>2. k \in 0 .. n
    BY <1>1
  <2> QED BY <2>1, <2>2
<1>5. PICK b \in Begins(line) : b <= k /\ Nth(line, b) = Nth(line, k)
  BY <1>1, <1>4
<1>6. ASSUME NEW i \in Begins(line), NEW j \in Begins(line), i < j PROVE Nth(line, i) # Nth(line, j)
  <2>1. i \in 0 .. Len(line) /\ j \in i .. Len(line)
    BY <1>1, <1>6 DEF Begins
  <2>2. Nth(line, i) < Nth(line, j)
    BY <1>6, <2>1, WordsAreInOrder
  <2> QED BY <2>2, WordsAreCounted
<1>7. \A j \in Begins(line) : Nth(line, j) = Nth(line, b) => j = b
  <2>1. \A j \in Begins(line) : j \in Int
    BY DEF Begins
  <2> QED BY <1>6, <2>1
<1> QED BY <1>5, <1>7

(* There is at most one word more than there are blanks.                   *)
LEMMA BlanksDivideWords ==
  ASSUME NEW line \in Seq(STRING)
  PROVE  Blanks(line) \in Nat /\ Nth(line, Len(line)) <= Blanks(line) + 1
<1>1. PICK n \in Nat : n = Len(line)
  BY LenProperties
<1> DEFINE B(k) == {i \in 1 .. k : line[i] = Blank}
           Z(k) == Cardinality(B(k))
           T == {k \in Nat : k <= n =>
                   /\ Nth(line, k) <= Z(k) + 1
                   /\ k = 0 \/ line[k] = Blank => Nth(line, k) <= Z(k)}
<1>2. ASSUME NEW k \in Nat PROVE IsFiniteSet(B(k)) /\ Z(k) \in Nat
  <2>1. B(k) \subseteq 1 .. k /\ IsFiniteSet(1 .. k)
    BY FS_Interval
  <2> HIDE DEF B
  <2> QED BY <2>1, FS_Subset, FS_CardinalityType
<1>3. Z(0) = 0
  <2>1. B(0) = {}
    OBVIOUS
  <2> QED BY <2>1, FS_EmptySet
<1>4. ASSUME NEW k \in 1 .. n PROVE Z(k) = IF line[k] = Blank THEN Z(k - 1) + 1 ELSE Z(k - 1)
  <2>1. CASE line[k] = Blank
    <3>1. B(k) = B(k - 1) \cup {k} /\ k \notin B(k - 1) /\ k - 1 \in Nat
      BY <2>1
    <3> HIDE DEF B
    <3> QED BY <1>2, <2>1, <3>1, FS_AddElement
  <2>2. CASE line[k] # Blank
    <3>1. B(k) = B(k - 1)
      BY <2>2
    <3> QED BY <2>2, <3>1
  <2> QED BY <2>1, <2>2
<1> HIDE DEF Z
<1>5. 0 \in T
  BY <1>3, WordsAreCounted
<1>6. ASSUME NEW k \in 1 .. n, k - 1 \in T PROVE k \in T
  <2>1. PICK z \in Nat, y \in Nat, a \in Nat, b \in Nat :
          z = Z(k) /\ y = Z(k - 1) /\ a = Nth(line, k) /\ b = Nth(line, k - 1)
    <3>1. Z(k) \in Nat /\ Z(k - 1) \in Nat
      <4>1. k \in Nat /\ k - 1 \in Nat
        OBVIOUS
      <4> QED BY <1>2, <4>1
    <3>2. Nth(line, k) \in Nat /\ Nth(line, k - 1) \in Nat
      BY WordsAreCounted
    <3> QED BY <3>1, <3>2
  <2>2. b <= y + 1 /\ (k - 1 = 0 \/ line[k - 1] = Blank => b <= y)
    BY <1>6, <2>1
  <2>3. a = IF k \in Begins(line) THEN b + 1 ELSE b
    BY <1>1, <2>1, WordsAreCounted
  <2>4. k \in Begins(line) => line[k] # Blank /\ (k - 1 = 0 \/ line[k - 1] = Blank)
    BY DEF Begins
  <2>5. a <= z + 1 /\ (line[k] = Blank => a <= z)
    BY <1>4, <2>1, <2>2, <2>3, <2>4
  <2> QED BY <2>1, <2>5
<1>7. n \in T
  <2>1. 0 .. n \subseteq T
    <3> HIDE DEF T
    <3> QED BY <1>5, <1>6, Induction
  <2> QED BY <2>1
<1>8. Blanks(line) = Z(n) /\ Z(n) \in Nat
  BY <1>1, <1>2 DEF Blanks, Z
<1>9. Nth(line, n) <= Z(n) + 1
  BY <1>7
<1> QED BY <1>1, <1>8, <1>9

(* What has been read of a line: the word that is being read and the words *)
(* that are done.                                                          *)
ReadSoFar(read, line) ==
  /\ read \in [0 .. Len(line) -> [word : Seq(STRING), done : Seq(Seq(STRING))]]
  /\ read[0].word = <<>> /\ read[0].done = <<>>
  /\ \A i \in 1 .. Len(line) :
       /\ line[i] = Blank => /\ read[i].word = <<>>
                             /\ read[i].done = Closed(read[i - 1].word, read[i - 1].done)
       /\ line[i] # Blank => /\ read[i].word = Append(read[i - 1].word, line[i])
                             /\ read[i].done = read[i - 1].done
  /\ Words(line) = Closed(read[Len(line)].word, read[Len(line)].done)

LEMMA AppendIs ==
  ASSUME NEW D, NEW s \in Seq(D), NEW x \in D
  PROVE  /\ Append(s, x) # <<>> /\ Len(Append(s, x)) = Len(s) + 1 /\ Append(s, x)[Len(s) + 1] = x
         /\ \A m \in 1 .. Len(s) : Append(s, x)[m] = s[m]
BY AppendProperties, LenProperties

LEMMA ClosedIs ==
  ASSUME NEW word \in Seq(STRING), NEW done \in Seq(Seq(STRING))
  PROVE  /\ Closed(word, done) \in Seq(Seq(STRING))
         /\ word = <<>> => Closed(word, done) = done
         /\ word # <<>> => /\ Len(Closed(word, done)) = Len(done) + 1
                           /\ Closed(word, done)[Len(done) + 1] = word
                           /\ \A m \in 1 .. Len(done) : Closed(word, done)[m] = done[m]
<1>1. CASE word = <<>>
  BY <1>1 DEF Closed
<1>2. CASE word # <<>>
  <2>1. Closed(word, done) = Append(done, word)
    BY <1>2 DEF Closed
  <2>2. Append(done, word) \in Seq(Seq(STRING))
    BY AppendProperties
  <2> QED BY <1>2, <2>1, <2>2, AppendIs
<1> QED BY <1>1, <1>2

LEMMA LineIsRead ==
  ASSUME NEW line \in Seq(STRING)
  PROVE  \E read : ReadSoFar(read, line)
<1> DEFINE n == Len(line)
           D == [word : Seq(STRING), done : Seq(Seq(STRING))]
           start == [word |-> <<>>, done |-> <<>>]
           Step(before, i) ==
             IF line[i] = Blank THEN [word |-> <<>>, done |-> Closed(before.word, before.done)]
             ELSE [before EXCEPT !.word = Append(@, line[i])]
           Whole(f) == [i \in 0 .. n |-> IF i = 0 THEN start ELSE Step(f[i - 1], i)]
<1>1. n \in Nat /\ \A i \in 1 .. n : line[i] \in STRING
  BY LenProperties, ElementOfSeq
<1>2. ASSUME NEW before \in D, NEW i \in 1 .. n
      PROVE  /\ Step(before, i) \in D
             /\ line[i] = Blank => /\ Step(before, i).word = <<>>
                                   /\ Step(before, i).done = Closed(before.word, before.done)
             /\ line[i] # Blank => /\ Step(before, i).word = Append(before.word, line[i])
                                   /\ Step(before, i).done = before.done
  <2>1. before.word \in Seq(STRING) /\ before.done \in Seq(Seq(STRING))
    OBVIOUS
  <2>2. Closed(before.word, before.done) \in Seq(Seq(STRING)) /\ Append(before.word, line[i]) \in Seq(STRING)
    BY <1>1, <2>1, ClosedIs, AppendProperties
  <2>3. CASE line[i] = Blank
    BY <2>2, <2>3
  <2>4. CASE line[i] # Blank
    BY <2>1, <2>2, <2>4
  <2> QED BY <2>3, <2>4
<1>3. start \in D /\ start.word = <<>> /\ start.done = <<>>
  OBVIOUS
<1>4. \E f : f = Whole(f) /\ f \in [0 .. n -> D]
  <2> DEFINE step == [x \in (1 .. n) \X D |-> Step(x[2], x[1])]
  <2> HIDE DEF n, D, Step, start
  <2>1. IsStep(step, n, D)
    BY <1>2 DEF IsStep
  <2>2. \A i \in 1 .. n, d \in D : step[<<i, d>>] = Step(d, i)
    OBVIOUS
  <2> HIDE DEF step
  <2>3. PICK f : Iterates(f, start, step, n, D)
    BY <1>1, <1>3, <2>1, Iteration
  <2>4. f \in [0 .. n -> D] /\ f[0] = start /\ \A i \in 1 .. n : f[i] = step[<<i, f[i - 1]>>]
    BY <2>3 DEF Iterates
  <2>5. ASSUME NEW i \in 1 .. n PROVE f[i] = Step(f[i - 1], i)
    <3>1. f[i - 1] \in D
      BY <1>1, <2>4
    <3> QED BY <2>2, <2>4, <3>1
  <2>6. \A i \in 0 .. n : i = 0 \/ (i \in 1 .. n /\ i # 0)
    BY <1>1
  <2>7. f = Whole(f)
    BY <2>4, <2>5, <2>6
  <2> QED BY <2>4, <2>7
<1>5. PICK read : read = Whole(read) /\ Words(line) = Closed(read[n].word, read[n].done)
  BY <1>4 DEF Words
<1> HIDE DEF n, D, Step, start
<1>6. DOMAIN read = 0 .. n /\ read = [i \in 0 .. n |-> read[i]]
      /\ \A i \in 0 .. n : read[i] = IF i = 0 THEN start ELSE Step(read[i - 1], i)
  <2> DEFINE h == Whole(read)
  <2>1. DOMAIN h = 0 .. n /\ h = [i \in 0 .. n |-> h[i]]
        /\ \A i \in 0 .. n : h[i] = IF i = 0 THEN start ELSE Step(read[i - 1], i)
    OBVIOUS
  <2>2. read = h
    BY <1>5
  <2> HIDE DEF h
  <2> QED BY <2>1, <2>2
<1>7. read[0] = start /\ \A i \in 1 .. n : read[i] = Step(read[i - 1], i)
  <2>1. 0 \in 0 .. n /\ \A i \in 1 .. n : i \in 0 .. n /\ i # 0
    BY <1>1
  <2> QED BY <1>6, <2>1
<1>8. read \in [0 .. n -> D]
  <2> DEFINE T == {k \in Nat : read[k] \in D}
  <2>1. 0 .. n \subseteq T
    <3>1. 0 \in T
      BY <1>3, <1>7
    <3>2. ASSUME NEW k \in 1 .. n, k - 1 \in T PROVE k \in T
      BY <1>1, <1>2, <1>7, <3>2
    <3> HIDE DEF T
    <3> QED BY <1>1, <3>1, <3>2, Induction
  <2> QED BY <1>6, <2>1
<1>9. \A i \in 1 .. n :
        /\ line[i] = Blank => /\ read[i].word = <<>>
                              /\ read[i].done = Closed(read[i - 1].word, read[i - 1].done)
        /\ line[i] # Blank => /\ read[i].word = Append(read[i - 1].word, line[i])
                              /\ read[i].done = read[i - 1].done
  <2> TAKE i \in 1 .. n
  <2>1. PICK before \in D : before = read[i - 1]
    BY <1>1, <1>8
  <2>2. read[i] = Step(before, i)
    BY <1>7, <2>1
  <2> QED BY <1>2, <2>1, <2>2
<1> QED BY <1>3, <1>5, <1>7, <1>8, <1>9 DEF ReadSoFar, n, D

(* The words of a line are as many as begin in it, and each has the        *)
(* characters that stand behind its beginning.                             *)
WordsStand(words, line, n) ==
  /\ Len(words) = Nth(line, n)
  /\ \A k \in 1 .. n : line[k] # Blank =>
       \A b \in Begins(line) : b <= k /\ Nth(line, b) = Nth(line, k) =>
         words[Nth(line, k)][k - b + 1] = line[k]

LEMMA WordsAreRight ==
  ASSUME NEW line \in Seq(STRING)
  PROVE  Words(line) \in Seq(Seq(STRING)) /\ WordsStand(Words(line), line, Len(line))
<1>1. PICK n \in Nat : n = Len(line)
  BY LenProperties
<1>2. PICK read : ReadSoFar(read, line)
  BY LineIsRead
<1> DEFINE word(i) == read[i].word
           done(i) == read[i].done
           all(i) == Closed(word(i), done(i))
           Good(i) ==
             /\ WordsStand(all(i), line, i)
             /\ word(i) = <<>> <=> (i = 0 \/ line[i] = Blank)
             /\ \A b \in Begins(line) : word(i) # <<>> /\ b <= i /\ Nth(line, b) = Nth(line, i) =>
                  Len(word(i)) = i - b + 1
           T == {i \in Nat : i <= n => Good(i)}
<1>3. ASSUME NEW i \in 0 .. n
      PROVE  word(i) \in Seq(STRING) /\ done(i) \in Seq(Seq(STRING)) /\ all(i) \in Seq(Seq(STRING))
  <2>1. read[i] \in [word : Seq(STRING), done : Seq(Seq(STRING))]
    BY <1>1, <1>2 DEF ReadSoFar
  <2>2. word(i) \in Seq(STRING) /\ done(i) \in Seq(Seq(STRING))
    BY <2>1
  <2> QED BY <2>2, ClosedIs
<1>4. word(0) = <<>> /\ done(0) = <<>> /\ Words(line) = all(n)
  BY <1>1, <1>2 DEF ReadSoFar
<1>5. ASSUME NEW i \in 1 .. n
      PROVE  /\ line[i] = Blank => word(i) = <<>> /\ done(i) = all(i - 1)
             /\ line[i] # Blank => word(i) = Append(word(i - 1), line[i]) /\ done(i) = done(i - 1)
  BY <1>1, <1>2 DEF ReadSoFar
<1> HIDE DEF word, done
<1>6. Begins(line) \subseteq 1 .. n
  BY <1>1 DEF Begins
<1>7. 0 \in T
  <2>1. 0 \in 0 .. n
    OBVIOUS
  <2>2. all(0) = <<>>
    BY <1>3, <1>4, <2>1, ClosedIs
  <2>3. Len(all(0)) = Nth(line, 0)
    BY <2>2, WordsAreCounted
  <2> HIDE DEF all
  <2> QED BY <1>4, <2>3 DEF WordsStand
<1>8. ASSUME NEW i \in 1 .. n, Good(i - 1) PROVE Good(i)
  <2> DEFINE N(k) == Nth(line, k)
  <2>1. i - 1 \in 0 .. n /\ i \in 0 .. n
    OBVIOUS
  <2>2. /\ word(i) \in Seq(STRING) /\ done(i) \in Seq(Seq(STRING)) /\ all(i) \in Seq(Seq(STRING))
        /\ word(i - 1) \in Seq(STRING) /\ done(i - 1) \in Seq(Seq(STRING)) /\ all(i - 1) \in Seq(Seq(STRING))
    BY <1>3, <2>1
  <2>3. /\ Len(all(i - 1)) = N(i - 1)
        /\ \A k \in 1 .. i - 1 : line[k] # Blank =>
             \A b \in Begins(line) : b <= k /\ N(b) = N(k) => all(i - 1)[N(k)][k - b + 1] = line[k]
        /\ word(i - 1) = <<>> <=> (i - 1 = 0 \/ line[i - 1] = Blank)
        /\ \A b \in Begins(line) : word(i - 1) # <<>> /\ b <= i - 1 /\ N(b) = N(i - 1) =>
             Len(word(i - 1)) = (i - 1) - b + 1
    BY <1>8 DEF WordsStand
  <2>4. N(i) = IF i \in Begins(line) THEN N(i - 1) + 1 ELSE N(i - 1)
    BY <1>1, WordsAreCounted
  <2>5. \A k : N(k) \in Nat
    BY WordsAreCounted
  <2> HIDE DEF N
  <2>6. CASE line[i] = Blank
    <3>1. word(i) = <<>> /\ all(i) = all(i - 1)
      BY <1>5, <2>2, <2>6, ClosedIs
    <3>2. N(i) = N(i - 1)
      BY <2>4, <2>6 DEF Begins
    <3>3. \A k \in 1 .. i : line[k] # Blank => k \in 1 .. i - 1
      BY <2>6
    <3>4. WordsStand(all(i), line, i)
      <4> HIDE DEF all
      <4> QED BY <2>3, <3>1, <3>2, <3>3 DEF WordsStand, N
    <3> QED BY <2>6, <3>1, <3>4
  <2>7. CASE line[i] # Blank
    <3>1. word(i) = Append(word(i - 1), line[i]) /\ done(i) = done(i - 1)
      BY <1>5, <2>7
    <3>2. line[i] \in STRING
      BY <1>1, ElementOfSeq
    <3>3. word(i) # <<>> /\ Len(word(i)) = Len(word(i - 1)) + 1 /\ word(i)[Len(word(i - 1)) + 1] = line[i]
          /\ \A m \in 1 .. Len(word(i - 1)) : word(i)[m] = word(i - 1)[m]
      <4>1. PICK v \in Seq(STRING), x \in STRING : v = word(i - 1) /\ x = line[i]
        BY <2>2, <3>2
      <4>2. /\ Append(v, x) # <<>> /\ Len(Append(v, x)) = Len(v) + 1 /\ Append(v, x)[Len(v) + 1] = x
            /\ \A m \in 1 .. Len(v) : Append(v, x)[m] = v[m]
        BY AppendIs
      <4> QED BY <3>1, <4>1, <4>2
    <3>4. /\ Len(all(i)) = Len(done(i - 1)) + 1 /\ all(i)[Len(done(i - 1)) + 1] = word(i)
          /\ \A m \in 1 .. Len(done(i - 1)) : all(i)[m] = done(i - 1)[m]
      <4>1. PICK v \in Seq(STRING), d \in Seq(Seq(STRING)) : v = word(i) /\ d = done(i)
        BY <2>2
      <4>2. v # <<>> /\ d = done(i - 1) /\ all(i) = Closed(v, d)
        BY <3>1, <3>3, <4>1
      <4>3. /\ Len(Closed(v, d)) = Len(d) + 1 /\ Closed(v, d)[Len(d) + 1] = v
            /\ \A m \in 1 .. Len(d) : Closed(v, d)[m] = d[m]
        BY <4>2, ClosedIs
      <4> HIDE DEF all
      <4> QED BY <4>1, <4>2, <4>3
    <3>5. /\ word(i - 1) = <<>> => all(i - 1) = done(i - 1)
          /\ word(i - 1) # <<>> => /\ Len(all(i - 1)) = Len(done(i - 1)) + 1
                                   /\ all(i - 1)[Len(done(i - 1)) + 1] = word(i - 1)
                                   /\ \A m \in 1 .. Len(done(i - 1)) : all(i - 1)[m] = done(i - 1)[m]
      BY <2>2, ClosedIs
    <3>6. PICK l \in Nat, w \in Nat : l = Len(done(i - 1)) /\ w = Len(word(i - 1))
      BY <2>2, LenProperties
    <3>7. i \in Begins(line) <=> word(i - 1) = <<>>
      BY <1>1, <2>3, <2>7 DEF Begins
    <3>8. N(i) = l + 1 /\ (word(i - 1) = <<>> => N(i - 1) = l) /\ (word(i - 1) # <<>> => N(i - 1) = l + 1)
      <4> HIDE DEF all
      <4> QED BY <2>3, <2>4, <2>5, <3>5, <3>6, <3>7
    <3> HIDE DEF all
    <3>9. \A b \in Begins(line) : b <= i /\ N(b) = N(i) => w + 1 = i - b + 1
      <4> TAKE b \in Begins(line)
      <4> HAVE b <= i /\ N(b) = N(i)
      <4>1. b \in 1 .. n
        BY <1>6
      <4>2. CASE word(i - 1) = <<>>
        <5>1. w = 0
          BY <3>6, <4>2
        <5>2. PICK c \in Begins(line) : c <= i /\ N(c) = N(i) /\ \A j \in Begins(line) : N(j) = N(c) => j = c
          BY <1>1, <2>7, WordHasBeginning DEF N
        <5>3. b = c /\ i = c
          BY <3>7, <4>2, <5>2
        <5> QED BY <5>1, <5>3
      <4>3. CASE word(i - 1) # <<>>
        <5>1. b # i
          BY <3>7, <4>3
        <5>2. b <= i - 1
          BY <4>1, <5>1
        <5>3. w = (i - 1) - b + 1
          BY <2>3, <3>6, <3>8, <4>3, <5>2
        <5> QED BY <4>1, <5>3
      <4> QED BY <4>2, <4>3
    <3>10. ASSUME NEW k \in 1 .. i, line[k] # Blank, NEW b \in Begins(line), b <= k, N(b) = N(k)
           PROVE  all(i)[N(k)][k - b + 1] = line[k]
      <4>1. b \in 1 .. n
        BY <1>6
      <4>2. CASE k = i
        <5>1. k - b + 1 = w + 1 /\ all(i)[N(k)] = word(i)
          BY <3>4, <3>6, <3>8, <3>9, <3>10, <4>2
        <5> QED BY <3>3, <3>6, <4>2, <5>1
      <4>3. CASE k # i
        <5>1. k \in 1 .. i - 1
          BY <4>3
        <5>2. all(i - 1)[N(k)][k - b + 1] = line[k]
          BY <2>3, <3>10, <5>1
        <5>3. N(k) <= N(i - 1) /\ N(k) >= 1
          <6>1. k \in 0 .. Len(line) /\ i - 1 \in k .. Len(line)
            BY <1>1, <5>1
          <6>2. N(k) <= N(i - 1)
            BY <6>1, WordsAreInOrder DEF N
          <6>3. N(b) = N(b - 1) + 1
            BY <1>1, <4>1, WordsAreCounted DEF N
          <6> QED BY <2>5, <3>10, <6>2, <6>3
        <5>4. CASE N(k) <= l
          <6>1. N(k) \in 1 .. l
            BY <2>5, <5>3, <5>4
          <6>2. all(i)[N(k)] = done(i - 1)[N(k)] /\ all(i - 1)[N(k)] = done(i - 1)[N(k)]
            BY <3>4, <3>5, <3>6, <6>1
          <6> QED BY <5>2, <6>2
        <5>5. CASE N(k) > l
          <6>1. N(k) = l + 1 /\ word(i - 1) # <<>>
            BY <2>5, <3>8, <5>3, <5>5
          <6>2. all(i)[N(k)] = word(i) /\ all(i - 1)[N(k)] = word(i - 1)
            BY <3>4, <3>5, <3>6, <6>1
          <6>3. b <= i - 1 /\ N(b) = N(i - 1)
            BY <3>8, <3>10, <4>1, <5>1, <6>1
          <6>4. w = (i - 1) - b + 1
            BY <2>3, <3>6, <6>1, <6>3
          <6>5. k - b + 1 \in 1 .. w
            BY <3>10, <4>1, <5>1, <6>4
          <6>6. word(i)[k - b + 1] = word(i - 1)[k - b + 1]
            BY <3>3, <3>6, <6>5
          <6> QED BY <5>2, <6>2, <6>6
        <5> QED BY <2>5, <5>4, <5>5
      <4> QED BY <4>2, <4>3
    <3>11. WordsStand(all(i), line, i)
      BY <3>4, <3>6, <3>8, <3>10 DEF WordsStand, N
    <3>12. \A b \in Begins(line) : word(i) # <<>> /\ b <= i /\ N(b) = N(i) => Len(word(i)) = i - b + 1
      BY <3>3, <3>6, <3>9
    <3>13. word(i) = <<>> <=> (i = 0 \/ line[i] = Blank)
      BY <2>7, <3>3
    <3> QED BY <3>11, <3>12, <3>13 DEF N
  <2> QED BY <2>6, <2>7
<1> HIDE DEF Good, all
<1>9. Good(n)
  <2>1. \A i \in 1 .. n : i - 1 \in T => i \in T
    BY <1>8
  <2>2. 0 .. n \subseteq T
    <3> HIDE DEF T
    <3> QED BY <1>7, <2>1, Induction
  <2> QED BY <2>2
<1>10. n \in 0 .. n
  OBVIOUS
<1> QED BY <1>1, <1>3, <1>4, <1>9, <1>10 DEF Good

(* The line that is the command is a part of the text.                     *)
LEMMA CommandLineIs ==
  ASSUME NEW text \in Seq(STRING), Ends(text) # {}
  PROVE  CommandLine(text) \in Seq(STRING)
<1>1. PICK n \in Nat : n = Len(text)
  BY LenProperties
<1>2. ASSUME NEW S \in SUBSET (1 .. n), S # {}
      PROVE  First(S) \in S /\ \A j \in S : First(S) <= j
  <2>1. \E i \in S : \A j \in S : i <= j
    <3>1. S \in SUBSET Nat
      OBVIOUS
    <3> QED BY <1>2, <3>1, LeastNumber
  <2> QED BY <2>1 DEF First
<1>3. Starts(text) \in SUBSET (1 .. n) /\ Ends(text) \in SUBSET (1 .. n) /\ Starts(text) # {}
  BY <1>1 DEF Starts, Ends
<1>4. PICK a \in 1 .. n, b \in 1 .. n : a = First(Starts(text)) /\ b = First(Ends(text))
  BY <1>2, <1>3
<1>5. CommandLine(text) = [i \in 1 .. (b - 1) - a + 1 |-> text[a + i - 1]]
  <2>1. CommandLine(text) = SubSeq(text, a, b - 1)
    BY <1>4 DEF CommandLine
  <2> QED BY <2>1, <1>4
<1>6. PICK l \in Nat : 1 .. (b - 1) - a + 1 = 1 .. l /\ l <= n - a + 1
  <2>1. CASE (b - 1) - a + 1 >= 0
    BY <2>1
  <2>2. CASE ~((b - 1) - a + 1 >= 0)
    <3>1. 1 .. (b - 1) - a + 1 = 1 .. 0 /\ 0 <= n - a + 1
      BY <2>2
    <3> QED BY <3>1
  <2> QED BY <2>1, <2>2
<1>7. \A i \in 1 .. l : text[a + i - 1] \in STRING
  <2>1. ASSUME NEW i \in 1 .. l PROVE text[a + i - 1] \in STRING
    <3>1. a + i - 1 \in 1 .. n
      BY <1>6
    <3> QED BY <1>1, <3>1, ElementOfSeq
  <2> QED BY <2>1
<1>8. CommandLine(text) = [i \in 1 .. l |-> text[a + i - 1]]
  BY <1>5, <1>6
<1> QED BY <1>7, <1>8, IsASeq

(* What create_command() returns.                                          *)
LEMMA CommandIsRead ==
  ASSUME file \in Files, at \in [section : Nat \ {0}, line : Nat \ {0}], ReadCommand, phase' = "parse",
         NEW line, line = CommandLine(Section.text)
  PROVE  /\ CommandIs(line)'
         /\ command' \in [words : Seq(Seq(STRING)), size : Nat, debugger : 1 .. Len(Debuggers)]
<1> DEFINE words == Words(line)
           supported == Supported(words)
           chosen == CHOOSE d \in 1 .. Len(Debuggers) : Debuggers[d] = words[First(supported)]
<1>1. /\ phase = "parse" /\ at.section \in 1 .. Len(file) /\ Section.section = "command"
      /\ Ends(Section.text) # {} /\ supported # {}
      /\ command' = [words |-> words, size |-> Room(line), debugger |-> chosen]
  <2>1. phase = "parse" /\ at.section \in 1 .. Len(file) /\ Section.section = "command"
    BY SectionsAre DEF ReadCommand, Reading, Section
  <2> QED BY <2>1 DEF ReadCommand
<1>2. Section.text \in Seq(STRING)
  <2>1. Section \in Sections
    BY <1>1, LayoutsAssumption, ElementOfSeq DEF Section
  <2> QED BY <1>1, <2>1 DEF Sections
<1>3. line \in Seq(STRING)
  BY <1>1, <1>2, CommandLineIs
<1>4. words \in Seq(Seq(STRING)) /\ WordsStand(words, line, Len(line))
  BY <1>3, WordsAreRight
<1> HIDE DEF words
<1>5. PICK n \in Nat : n = Len(words)
  BY <1>4, LenProperties
<1>6. First(supported) \in supported /\ \A j \in supported : First(supported) <= j
  <2>1. supported \in SUBSET Nat
    BY <1>5 DEF Supported
  <2>2. \E i \in supported : \A j \in supported : i <= j
    <3> HIDE DEF supported
    <3> QED BY <1>1, <2>1, LeastNumber
  <2> QED BY <2>2 DEF First
<1>7. PICK first \in 1 .. n : first = First(supported) /\ first \in supported
  BY <1>5, <1>6 DEF Supported
<1>8. chosen \in 1 .. Len(Debuggers) /\ Debuggers[chosen] = words[first]
  <2>1. \E d \in 1 .. Len(Debuggers) : Debuggers[d] = words[first]
    BY <1>7 DEF Supported
  <2> QED BY <1>7, <2>1
<1> HIDE DEF chosen
<1>9. \A m \in 1 .. first - 1 : \A d \in 1 .. Len(Debuggers) : words[m] # Debuggers[d]
  <2>1. ASSUME NEW m \in 1 .. first - 1, NEW d \in 1 .. Len(Debuggers), words[m] = Debuggers[d] PROVE FALSE
    <3>1. m \in supported
      BY <1>5, <2>1 DEF Supported
    <3>2. first <= m
      BY <1>6, <1>7, <3>1
    <3> QED BY <3>2
  <2> QED BY <2>1
<1> HIDE DEF supported
<1>10. PICK blanks \in Nat : blanks = Blanks(line) /\ Nth(line, Len(line)) <= blanks + 1
  BY <1>3, BlanksDivideWords
<1>11. Room(line) = blanks + 2
  BY <1>10 DEF Room
<1>12. n = Nth(line, Len(line)) /\ Nth(line, Len(line)) = Cardinality(Begins(line))
  <2>1. {j \in Begins(line) : j <= Len(line)} = Begins(line)
    BY <1>3, LenProperties DEF Begins
  <2> QED BY <1>4, <1>5, <2>1 DEF WordsStand, Nth
<1>13. ASSUME NEW k \in 1 .. Len(line), line[k] # Blank
       PROVE  LET b == CHOOSE j \in Begins(line) : j <= k /\ Nth(line, j) = Nth(line, k)
              IN words[Nth(line, k)][k - b + 1] = line[k]
  <2>1. \E j \in Begins(line) : j <= k /\ Nth(line, j) = Nth(line, k)
    BY <1>3, <1>13, WordHasBeginning
  <2> QED BY <1>4, <1>13, <2>1 DEF WordsStand
<1>14. command'.words = words /\ command'.size = blanks + 2 /\ command'.debugger = chosen
  BY <1>1, <1>11
<1>15. \E m \in 1 .. Len(command'.words) :
         /\ command'.words[m] = Debuggers[command'.debugger]
         /\ \A i \in 1 .. m - 1 : \A d \in 1 .. Len(Debuggers) : command'.words[i] # Debuggers[d]
  BY <1>5, <1>7, <1>8, <1>9, <1>14
<1>16. CommandIs(line)'
  <2>1. Len(command'.words) + 1 <= command'.size
    <3>1. n <= blanks + 1 /\ Len(command'.words) = n
      BY <1>5, <1>10, <1>12, <1>14
    <3> QED BY <1>14, <3>1
  <2>2. Len(command'.words) = Cardinality(Begins(line))
    BY <1>5, <1>12, <1>14
  <2>3. \A k \in 1 .. Len(line) : line[k] # Blank =>
          LET b == CHOOSE j \in Begins(line) : j <= k /\ Nth(line, j) = Nth(line, k)
          IN command'.words[Nth(line, k)][k - b + 1] = line[k]
    BY <1>13, <1>14
  <2> QED BY <1>15, <2>1, <2>2, <2>3 DEF CommandIs
<1> QED BY <1>1, <1>4, <1>8, <1>11, <1>16

(* Until the next section is read, and while a code is searched, the       *)
(* command is what was read.                                               *)
CommandRead ==
  phase \in {"parse", "search"} =>
    \A i \in {at.section - 1} \ {0} :
      file[i].section = "command" => CommandIs(CommandLine(file[i].text))

LEMMA NextReadsCommand == BindingInv /\ CommandRead /\ [Next]_vars => CommandRead'
<1> SUFFICES ASSUME BindingInv, CommandRead, [Next]_vars, phase' \in {"parse", "search"} PROVE CommandRead'
  BY DEF CommandRead
<1>1. file \in Files /\ at \in [section : Nat \ {0}, line : Nat \ {0}]
  BY DEF BindingInv
<1>2. ASSUME phase \in {"parse", "search"}, UNCHANGED <<file, command>>, at'.section = at.section
      PROVE  CommandRead'
  <2>1. ASSUME NEW line PROVE CommandIs(line)' <=> CommandIs(line)
    BY <1>2 DEF CommandIs
  <2>2. ASSUME NEW i \in {at'.section - 1} \ {0}, file'[i].section = "command"
        PROVE  CommandIs(CommandLine(file[i].text))
    BY <1>2, <2>2 DEF CommandRead
  <2>3. \A i \in {at'.section - 1} \ {0} : file'[i].section = "command" =>
          CommandIs(CommandLine(file[i].text))'
    BY <1>2, <2>2 DEF CommandIs
  <2> QED BY <1>2, <2>3 DEF CommandRead
<1>3. ASSUME NextSection, UNCHANGED file, Section.section # "command" PROVE CommandRead'
  <2>1. at'.section - 1 = at.section
    BY <1>1, <1>3 DEF NextSection
  <2> QED BY <1>3, <2>1 DEF CommandRead, Section
<1>4. CASE ReadCommand
  <2>1. phase' = "parse" /\ NextSection /\ UNCHANGED file
    BY <1>4 DEF ReadCommand, Reading
  <2>2. at'.section - 1 = at.section
    BY <1>1, <2>1 DEF NextSection
  <2>3. PICK line : line = CommandLine(Section.text)
    OBVIOUS
  <2>4. CommandIs(line)'
    BY <1>1, <1>4, <2>1, <2>3, CommandIsRead
  <2> QED BY <2>1, <2>2, <2>3, <2>4 DEF CommandRead, Section
<1>5. CASE ReadBinding
  <2>1. phase = "parse" /\ UNCHANGED <<file, command>> /\ Section.section = "plugins"
    BY <1>5 DEF ReadBinding, Reading, Section
  <2>2. NextSection \/ at' = at
    BY <1>5 DEF ReadBinding
  <2> QED BY <1>2, <1>3, <2>1, <2>2
<1>6. CASE Probe
  <2>1. phase = "search" /\ UNCHANGED <<file, command>> /\ at'.section = at.section
    BY <1>1, <1>6 DEF Probe
  <2> QED BY <1>2, <2>1
<1>7. CASE ReadLayout
  <2>1. NextSection /\ UNCHANGED file /\ Section.section = "layout"
    BY <1>7 DEF ReadLayout, Reading, Section
  <2> QED BY <1>3, <2>1
<1>8. CASE UNCHANGED vars
  BY <1>2, <1>8 DEF vars, parsing
<1>9. CASE NotFound \/ Start \/ Free \/ Find \/ Calculate \/ RenderHeader \/ RenderWindows \/ RunPlugin \/ OpenPopup
           \/ Highlight \/ Enter \/ Leave \/ Restart \/ Resize \/ CleanUp
  <2>1. phase' \notin {"parse", "search"}
    BY <1>9 DEF NotFound, Start, Free, Find, Calculate, RenderHeader, RenderWindows, RunPlugin, SendCommand,
                SelectWindow, FindTitle, OpenPopup, Highlight, Enter, Leave, Restart, Resize, CleanUp,
                FreeNcWindowData
  <2> QED BY <2>1
<1> QED BY <1>4, <1>5, <1>6, <1>7, <1>8, <1>9 DEF Next

(* For every command line: execvp() is given its words, each as it stands  *)
(* there, and with their null they are inside the array, whose size is     *)
(* counted in blanks; the debugger is the first word that names one.       *)
THEOREM CommandIsTheLine == Spec => []CommandFits
<1>1. Init => CommandRead
  BY DEF Init, CommandRead
<1>2. BindingInv /\ CommandRead /\ [Next]_vars => CommandRead'
  BY NextReadsCommand
<1>3. CommandRead => CommandFits
  BY DEF CommandRead, CommandFits
<1> QED BY <1>1, <1>2, <1>3, BindingInvariant, PTL DEF Spec

-----------------------------------------------------------------------------
(* The types                                                               *)

(* Segments have a size and a place also where the header leaves no row.   *)
LEMMA SegmentsAreIntegers ==
  ASSUME NEW total \in Int, NEW n \in Nat \ {0}
  PROVE  \A i \in 1 .. n : Begin(total, n, i) \in Int /\ Share(total, n, i) \in Int
<1> DEFINE S(i) == Share(total, n, i)
<1>1. \A i \in 1 .. n : S(i) \in Int
  <2>1. total \div n \in Int
    OBVIOUS
  <2> QED BY <2>1 DEF Share
<1> HIDE DEF S
<1>2. ASSUME NEW i \in 1 .. n PROVE Begin(total, n, i) \in Int
  <2> DEFINE Step(f, j) == IF j = 1 THEN 0 ELSE f[j - 1] + S(j - 1)
             Whole(f) == [j \in 1 .. n |-> Step(f, j)]
  <2>1. \E f : f = Whole(f)
    <3> DEFINE step == [x \in (1 .. n) \X Int |-> x[2] + S(x[1])]
    <3>1. IsStep(step, n, Int)
      BY <1>1 DEF IsStep
    <3>2. \A j \in 1 .. n, a \in Int : step[<<j, a>>] = a + S(j)
      OBVIOUS
    <3> HIDE DEF step
    <3>3. PICK g : Iterates(g, 0, step, n, Int)
      <4>1. 0 \in Int
        OBVIOUS
      <4> QED BY <3>1, <4>1, Iteration
    <3>4. g \in [0 .. n -> Int] /\ g[0] = 0 /\ \A j \in 1 .. n : g[j] = step[<<j, g[j - 1]>>]
      BY <3>3 DEF Iterates
    <3> DEFINE f == [j \in 1 .. n |-> g[j - 1]]
    <3>5. ASSUME NEW j \in 1 .. n PROVE f[j] = Step(f, j)
      <4>1. f[j] = g[j - 1]
        OBVIOUS
      <4>2. CASE j = 1
        BY <3>4, <4>1, <4>2
      <4>3. CASE j # 1
        <5>1. PICK k \in 1 .. n : k = j - 1 /\ k - 1 \in 0 .. n
          <6>1. j - 1 \in 1 .. n /\ (j - 1) - 1 \in 0 .. n
            BY <4>3
          <6> QED BY <6>1
        <5>2. f[k] = g[k - 1] /\ g[k - 1] \in Int
          BY <3>4, <5>1
        <5>3. g[k] = g[k - 1] + S(k)
          BY <3>2, <3>4, <5>2
        <5> HIDE DEF f
        <5> QED BY <4>1, <4>3, <5>1, <5>2, <5>3
      <4> QED BY <4>2, <4>3
    <3>6. f = [j \in 1 .. n |-> f[j]]
      OBVIOUS
    <3> HIDE DEF f, Step
    <3>7. f = Whole(f)
      BY <3>5, <3>6
    <3> QED BY <3>7
  <2>2. PICK sum : sum = Whole(sum) /\ Begin(total, n, i) = sum[i]
    BY <2>1 DEF Begin, S
  <2>3. \A j \in 1 .. n : sum[j] = Step(sum, j)
    <3> DEFINE h == Whole(sum)
    <3> HIDE DEF Step
    <3>1. \A j \in 1 .. n : h[j] = Step(sum, j)
      OBVIOUS
    <3>2. sum = h
      BY <2>2
    <3> HIDE DEF h
    <3> QED BY <3>1, <3>2
  <2> DEFINE T == {k \in Nat : k + 1 <= n => sum[k + 1] \in Int}
  <2>4. 0 \in T
    BY <2>3
  <2>5. ASSUME NEW k \in 1 .. n - 1, k - 1 \in T PROVE k \in T
    <3>1. k + 1 \in 1 .. n /\ k + 1 # 1 /\ (k + 1) - 1 = k /\ k \in 1 .. n /\ (k - 1) + 1 = k
      OBVIOUS
    <3>2. sum[k + 1] = sum[k] + S(k)
      BY <2>3, <3>1
    <3> QED BY <1>1, <2>5, <3>1, <3>2
  <2>6. i - 1 \in T
    <3>1. n - 1 \in Nat /\ i - 1 \in 0 .. n - 1
      OBVIOUS
    <3> HIDE DEF T
    <3> QED BY <2>4, <2>5, <3>1, Induction
  <2>7. (i - 1) + 1 = i
    OBVIOUS
  <2> QED BY <2>2, <2>6, <2>7
<1> QED BY <1>1, <1>2 DEF S

LEMMA WindowIsTyped ==
  ASSUME NEW m \in Seq(Seq(Cells)), Rectangular(m), NEW d \in CellsIn(m), NEW area,
         area.rows \in Int, area.cols \in Int
  PROVE  WindowAt(m, area, d[1], d[2]) \in [y : Int, x : Int, rows : Int, cols : Int]
<1>1. PICK h \in Nat \ {0}, w \in Nat \ {0}, rows \in Int, cols \in Int :
        h = Len(m) /\ w = Len(m[1]) /\ rows = area.rows /\ cols = area.cols
  BY SizesAre
<1>2. PICK y \in 1 .. h, x \in 1 .. w : y = d[1] /\ x = d[2]
  BY <1>1 DEF CellsIn
<1>3. PICK R \in y .. h, C \in x .. w : R = LastRow(m, y, x) /\ C = LastCol(m, y, x)
  BY <1>1, <1>2, LastRowIs, LastColIs
<1>4. R \in 1 .. h /\ C \in 1 .. w
  OBVIOUS
<1>5. PICK a \in Int, b \in Int, s \in Int :
        a = Begin(rows, h, y) /\ b = Begin(rows, h, R) /\ s = Share(rows, h, R)
  BY <1>4, SegmentsAreIntegers
<1>6. PICK e \in Int, f \in Int, t \in Int :
        e = Begin(cols, w, x) /\ f = Begin(cols, w, C) /\ t = Share(cols, w, C)
  BY <1>4, SegmentsAreIntegers
<1>7. PICK up \in 0 .. 1, left \in 0 .. 1 :
        up = (IF y > 1 THEN 1 ELSE 0) /\ left = (IF x > 1 THEN 1 ELSE 0)
  OBVIOUS
<1>8. WindowAt(m, area, d[1], d[2])
        = [y |-> a - up, x |-> e - left, rows |-> b + s - a + up, cols |-> f + t - e + left]
  BY <1>1, <1>2, <1>3, <1>5, <1>6, <1>7 DEF WindowAt
<1> QED BY <1>8

(* The types of what the invariants above do not speak of.                 *)
ParserTypes ==
  /\ si \in Nat /\ ei \in 0 .. Len(Table)
  /\ command \in [words : Seq(Seq(STRING)), size : Nat, debugger : 0 .. Len(Debuggers)]
ScreenTypes ==
  /\ scr \in [rows : Nat, cols : Nat, offset : Nat]
  /\ has_window \in [Plugins -> BOOLEAN]
  /\ win \in [WinPlugins -> [y : Int, x : Int, rows : Int, cols : Int]]
SessionTypes ==
  /\ curr_layout \in 0 .. Len(layouts) /\ curr_option \in 0 .. Len(layouts) + 1
  /\ renders \in 0 .. MaxRenders /\ (phase \in Reads => renders = 0) /\ (phase = "choose" => renders < MaxRenders)
  /\ missing \in 0 .. Len(Table) /\ broken \in BOOLEAN

CutType == cut \in BOOLEAN

LEMMA NextCutType == CutType /\ [Next]_vars => CutType'
<1> SUFFICES ASSUME cut \in BOOLEAN, [Next]_vars PROVE cut' \in BOOLEAN
  BY DEF CutType
<1>1. CASE Resize
  <2>1. cut' = (cut \/ Shrunk')
    BY <1>1, Zenon DEF Resize
  <2> QED BY <2>1, Zenon
<1>2. CASE Calculate
  <2>1. cut' = FALSE
    BY <1>2, Zenon DEF Calculate
  <2> QED BY <2>1, Zenon
<1>3. CASE UNCHANGED vars
  BY <1>3 DEF vars, history
<1>4. CASE ReadCommand \/ ReadBinding \/ Probe \/ NotFound \/ ReadLayout \/ Start \/ Free \/ Find
           \/ RenderHeader \/ RenderWindows \/ RunPlugin \/ OpenPopup \/ Highlight \/ Enter \/ Leave \/ Restart
           \/ CleanUp
  <2>1. UNCHANGED cut
    BY <1>4 DEF ReadCommand, ReadBinding, Probe, NotFound, ReadLayout, Start, Free, Find, RenderHeader,
                RenderWindows, RunPlugin, SendCommand, SelectWindow, FindTitle, OpenPopup, Highlight, Enter,
                Leave, Restart, CleanUp, history
  <2> QED BY <2>1
<1> QED BY <1>1, <1>2, <1>3, <1>4 DEF Next

LEMMA NextParserTypes == BindingInv /\ ParserTypes /\ [Next]_vars => ParserTypes'
<1> SUFFICES ASSUME BindingInv, ParserTypes, [Next]_vars PROVE ParserTypes'
  OBVIOUS
<1>1. Len(Table) \in Nat /\ Len(Debuggers) \in Nat
  BY TableAssumption, LayoutsAssumption, LenProperties
<1>2. ASSUME UNCHANGED <<si, ei, command>> PROVE ParserTypes'
  BY <1>2 DEF ParserTypes
<1>3. CASE ReadCommand
  <2>1. UNCHANGED <<si, ei>> /\ phase' \in {"parse", "loops", "undefined", "failed"}
    BY <1>3 DEF ReadCommand, Reading
  <2>2. CASE phase' = "parse"
    <3>1. PICK line : line = CommandLine(Section.text)
      OBVIOUS
    <3>2. command' \in [words : Seq(Seq(STRING)), size : Nat, debugger : 1 .. Len(Debuggers)]
      BY <1>3, <2>2, <3>1, CommandIsRead DEF BindingInv
    <3>3. command' \in [words : Seq(Seq(STRING)), size : Nat, debugger : 0 .. Len(Debuggers)]
      BY <1>1, <3>2
    <3> QED BY <2>1, <3>3 DEF ParserTypes
  <2>3. CASE phase' # "parse"
    <3>1. UNCHANGED command
      BY <1>3, <2>3 DEF ReadCommand, Reading
    <3> QED BY <1>2, <2>1, <3>1
  <2> QED BY <2>2, <2>3
<1>4. CASE ReadBinding
  <2>1. UNCHANGED command /\ (UNCHANGED <<si, ei>> \/ (si' = 1 /\ ei' = Len(Table)))
    BY <1>4 DEF ReadBinding
  <2> QED BY <1>1, <2>1 DEF ParserTypes
<1>5. CASE Probe
  <2>1. /\ phase = "search" /\ si <= ei /\ UNCHANGED command
        /\ \/ UNCHANGED <<si, ei>>
           \/ Table[Middle] < Binding.code /\ si' = Middle + 1 /\ UNCHANGED ei
           \/ Table[Middle] > Binding.code /\ ei' = Middle - 1 /\ UNCHANGED si
    BY <1>5 DEF Probe
  <2>2. /\ Table[Middle] < Binding.code => Middle + 1 \in 1 .. Len(Table) + 1
        /\ Table[Middle] > Binding.code => Middle - 1 \in 0 .. Len(Table)
    BY <2>1, ProbeNarrows
  <2>3. si' \in Nat /\ ei' \in 0 .. Len(Table)
    BY <1>1, <2>1, <2>2 DEF ParserTypes
  <2> QED BY <2>1, <2>3 DEF ParserTypes
<1>6. CASE UNCHANGED vars
  BY <1>2, <1>6 DEF vars, parsing
<1>7. CASE ReadLayout \/ NotFound \/ Start \/ Free \/ Find \/ Calculate \/ RenderHeader \/ RenderWindows \/ RunPlugin
           \/ OpenPopup \/ Highlight \/ Enter \/ Leave \/ Restart \/ Resize \/ CleanUp
  <2>1. UNCHANGED <<si, ei, command>>
    BY <1>7 DEF ReadLayout, NotFound, Start, Free, Find, Calculate, RenderHeader, RenderWindows, RunPlugin,
                SendCommand, SelectWindow, FindTitle, OpenPopup, Highlight, Enter, Leave, Restart, Resize,
                CleanUp, parsing
  <2> QED BY <1>2, <2>1
<1> QED BY <1>3, <1>4, <1>5, <1>6, <1>7 DEF Next

LEMMA NextScreenTypes ==
  LayoutsAreRead /\ Choice /\ Placed /\ ScreenTypes /\ [Next]_vars => ScreenTypes'
<1> SUFFICES ASSUME LayoutsAreRead, Choice, Placed, ScreenTypes, [Next]_vars PROVE ScreenTypes'
  OBVIOUS
<1>1. ASSUME UNCHANGED <<scr, has_window, win>> PROVE ScreenTypes'
  BY <1>1 DEF ScreenTypes
<1>2. CASE Calculate
  <2> DEFINE m == Art
             mine(p) == {c \in WindowCells(m) : plugin_key_index[m[c[1]][c[2]]] = p}
             last(p) == CHOOSE c \in mine(p) : \A d \in mine(p) \ {c} : Behind(c, d)
  <2>1. phase = "calculate" /\ curr_layout \in 1 .. Len(layouts)
    BY <1>2 DEF Calculate, Choice
  <2>2. layouts[curr_layout] \in Records /\ Rectangular(m)
    BY <2>1, ElementOfSeq DEF LayoutsAreRead, Art
  <2>3. m \in Seq(Seq(Cells)) /\ layouts[curr_layout].header_rows \in Nat
    BY <2>2 DEF Records, Art
  <2>4. screen.rows \in Nat /\ screen.cols \in Nat
    BY LayoutsAssumption DEF Placed
  <2>5. /\ scr' = Measured /\ Measured \in [rows : Nat, cols : Nat, offset : Nat]
        /\ Area(Measured).rows \in Int /\ Area(Measured).cols \in Int
    <3>1. Measured \in [rows : Nat, cols : Nat, offset : Nat]
      BY <2>3, <2>4 DEF Measured
    <3>2. Area(Measured).rows \in Int /\ Area(Measured).cols \in Int
      BY <3>1 DEF Area
    <3> QED BY <1>2, <3>1, <3>2 DEF Calculate
  <2>6. CASE UNCHANGED <<has_window, win>>
    BY <2>5, <2>6 DEF ScreenTypes
  <2>7. CASE /\ has_window' = [p \in Plugins |-> mine(p) # {}]
             /\ win' = [p \in WinPlugins |-> IF mine(p) = {} THEN win[p]
                                            ELSE WindowAt(m, Area(Measured), last(p)[1], last(p)[2])]
    <3>1. ASSUME NEW p \in WinPlugins, mine(p) # {}
          PROVE  WindowAt(m, Area(Measured), last(p)[1], last(p)[2]) \in [y : Int, x : Int, rows : Int, cols : Int]
      <4>1. mine(p) \in SUBSET CellsIn(m)
        BY <2>2, <2>3, WindowsTakeAllCells
      <4>2. Len(m) \in Nat /\ Len(m[1]) \in Nat
        BY <2>2, <2>3, SizesAre
      <4>3. last(p) \in mine(p)
        <5>1. \E c \in mine(p) : \A d \in mine(p) \ {c} : Behind(c, d)
          <6> HIDE DEF mine, m
          <6> QED BY <3>1, <4>1, <4>2, LastCellIs
        <5> QED BY <5>1
      <4>4. PICK d \in CellsIn(m) : d = last(p)
        BY <4>1, <4>3
      <4> HIDE DEF last, mine, m
      <4> QED BY <2>2, <2>3, <2>5, <4>4, WindowIsTyped DEF m
    <3>2. win' \in [WinPlugins -> [y : Int, x : Int, rows : Int, cols : Int]]
      <4>1. \A p \in WinPlugins : win[p] \in [y : Int, x : Int, rows : Int, cols : Int]
        BY DEF ScreenTypes
      <4> HIDE DEF last, mine
      <4> QED BY <2>7, <3>1, <4>1
    <3>3. has_window' \in [Plugins -> BOOLEAN]
      <4> HIDE DEF mine
      <4> QED BY <2>7
    <3> QED BY <2>5, <3>2, <3>3 DEF ScreenTypes
  <2> QED BY <1>2, <2>6, <2>7 DEF Calculate, Art
<1>3. CASE UNCHANGED vars
  BY <1>1, <1>3 DEF vars, geometry
<1>4. CASE ReadCommand \/ ReadBinding \/ Probe \/ NotFound \/ ReadLayout \/ Start \/ Free \/ Find \/ RenderHeader
           \/ RenderWindows \/ RunPlugin \/ OpenPopup \/ Highlight \/ Enter \/ Leave \/ Restart \/ Resize \/ CleanUp
  <2>1. UNCHANGED <<scr, has_window, win>>
    BY <1>4 DEF ReadCommand, ReadBinding, Probe, NotFound, ReadLayout, Start, Free, Find, RenderHeader,
                RenderWindows, RunPlugin, SendCommand, SelectWindow, FindTitle, OpenPopup, Highlight, Enter,
                Leave, Restart, Resize, CleanUp, geometry
  <2> QED BY <1>1, <2>1
<1> QED BY <1>2, <1>3, <1>4 DEF Next


LEMMA NextSessionTypes ==
  ASSUME BindingInv, LayoutsAreRead, LayoutsAreRead', Choice, Choice', SessionTypes, [Next]_vars
  PROVE  SessionTypes'
<1>1. Len(layouts) \in Nat /\ Len(layouts') \in Nat
  BY LenProperties DEF LayoutsAreRead
<1>2. Len(Table) \in Nat /\ MaxRenders \in Nat \ {0}
  BY TableIs, LayoutsAssumption
<1>3. ASSUME UNCHANGED <<layouts, curr_layout, curr_option, renders, missing, broken>>,
             phase' \in Reads => phase \in Reads, phase' # "choose"
      PROVE  SessionTypes'
  BY <1>3 DEF SessionTypes
<1>4. CASE ReadLayout
  <2>1. /\ phase \in Reads /\ phase' # "choose"
        /\ UNCHANGED <<curr_layout, curr_option, renders, missing, broken>>
    BY <1>4 DEF ReadLayout, Reading, Reads, geometry, history
  <2>2. Len(layouts') >= Len(layouts)
    <3>1. CASE UNCHANGED layouts
      BY <1>1, <3>1
    <3>2. CASE layouts' # layouts
      <4>1. PICK x : layouts' = Append(layouts, x)
        BY <1>4, <3>2 DEF ReadLayout
      <4>2. Len(layouts') = Len(layouts) + 1
        BY <4>1 DEF LayoutsAreRead
      <4> QED BY <1>1, <4>2
    <3> QED BY <3>1, <3>2
  <2>3. curr_layout' \in 0 .. Len(layouts') /\ curr_option' \in 0 .. Len(layouts') + 1
    BY <1>1, <2>1, <2>2 DEF SessionTypes
  <2> QED BY <2>1, <2>3 DEF SessionTypes
<1>5. CASE Start
  <2>1. /\ phase \in Reads /\ phase' = "render" /\ renders' = renders + 1
        /\ UNCHANGED <<layouts, curr_layout, curr_option, missing, broken>>
    BY <1>5 DEF Start, Reads, parsing, geometry, history
  <2>2. renders = 0
    BY <2>1 DEF SessionTypes
  <2>3. renders' \in 0 .. MaxRenders
    BY <1>2, <2>1, <2>2
  <2> QED BY <2>1, <2>3 DEF SessionTypes, Reads
<1>6. CASE Find
  <2>1. phase' = "calculate" /\ UNCHANGED <<layouts, curr_option, renders, missing, broken>>
    BY <1>6 DEF Find, parsing, history
  <2>2. curr_layout' \in 0 .. Len(layouts')
    BY <1>1, <2>1 DEF Choice
  <2> QED BY <2>1, <2>2 DEF SessionTypes, Reads
<1>7. CASE RenderHeader \/ RenderWindows \/ CleanUp
  <2>1. /\ phase' \notin Reads \cup {"choose"}
        /\ UNCHANGED <<layouts, curr_layout, curr_option, renders, missing>>
    BY <1>7 DEF RenderHeader, RenderWindows, CleanUp, FreeNcWindowData, Reads, parsing, geometry
  <2>2. broken' \in BOOLEAN
    <3>1. broken \in BOOLEAN
      BY DEF SessionTypes
    <3>2. \E b \in BOOLEAN : broken' = b
      <4>1. CASE RenderHeader
        <5>1. broken' = (broken \/ phase' = "failed")
          BY <4>1 DEF RenderHeader
        <5> QED BY <5>1, Zenon
      <4>2. CASE RenderWindows
        <5> DEFINE shown == {p \in WinPlugins : has_window[p]}
                   done  == {p \in shown : \A q \in shown : q <= p => Renderable(q)}
        <5>1. broken' = (broken \/ done # shown)
          BY <4>2, Zenon DEF RenderWindows
        <5> QED BY <5>1, Zenon
      <4>3. CASE CleanUp
        <5>1. broken' = (broken \/ phase \in {"find", "calculate", "header", "windows"})
          BY <4>3 DEF CleanUp
        <5> QED BY <5>1, Zenon
      <4> QED BY <1>7, <4>1, <4>2, <4>3
    <3> QED BY <3>2
  <2> QED BY <2>1, <2>2 DEF SessionTypes
<1>8. CASE RunPlugin
  <2>1. PICK k \in Keys : /\ plugin_key_index[k] # 0
                          /\ SendCommand(plugin_key_index[k]) \/ SelectWindow(plugin_key_index[k])
    BY <1>8 DEF RunPlugin
  <2>2. /\ phase = "run" /\ phase' \in {"run", "failed"} /\ missing' \in {missing, plugin_key_index[k]}
        /\ UNCHANGED <<layouts, curr_layout, curr_option, renders, broken>>
    BY <2>1 DEF SendCommand, SelectWindow, FindTitle, parsing, geometry
  <2>3. plugin_key_index[k] \in 0 .. Len(Table)
    BY DEF BindingInv
  <2>4. missing' \in 0 .. Len(Table)
    BY <2>2, <2>3 DEF SessionTypes
  <2> QED BY <2>2, <2>4 DEF SessionTypes, Reads
<1>9. CASE OpenPopup \/ Highlight
  <2>1. /\ phase' = "choose" /\ UNCHANGED <<layouts, curr_layout, renders, missing, broken>>
        /\ renders < MaxRenders
    BY <1>9 DEF OpenPopup, Highlight, SessionTypes, parsing, geometry, history
  <2>2. curr_option' \in 0 .. Len(layouts') + 1
    BY <1>1, <2>1 DEF Choice
  <2> QED BY <2>1, <2>2 DEF SessionTypes, Reads
<1>10. CASE Enter
  <2>1. phase = "choose" /\ UNCHANGED <<layouts, curr_option, missing, broken>>
    BY <1>10 DEF Enter, parsing, history
  <2>2. CASE curr_option <= Len(layouts)
    <3>1. phase' = "render" /\ curr_layout' = curr_option /\ renders' = renders + 1
      BY <1>10, <2>2 DEF Enter
    <3>2. curr_layout' \in 0 .. Len(layouts')
      BY <1>1, <2>1, <3>1, <2>2 DEF SessionTypes
    <3>3. renders' \in 0 .. MaxRenders
      BY <1>2, <2>1, <3>1 DEF SessionTypes
    <3> QED BY <2>1, <3>1, <3>2, <3>3 DEF SessionTypes, Reads
  <2>3. CASE ~(curr_option <= Len(layouts))
    <3>1. phase' = "run" /\ UNCHANGED <<curr_layout, renders>>
      BY <1>10, <2>3 DEF Enter
    <3> QED BY <1>3, <2>1, <3>1 DEF Reads
  <2> QED BY <2>2, <2>3
<1>11. CASE Restart
  <2>1. /\ renders < MaxRenders /\ phase' = "render" /\ renders' = renders + 1
        /\ UNCHANGED <<layouts, curr_layout, curr_option, missing, broken>>
    BY <1>11 DEF Restart, parsing, geometry, history
  <2>2. renders' \in 0 .. MaxRenders
    BY <1>2, <2>1 DEF SessionTypes
  <2> QED BY <2>1, <2>2 DEF SessionTypes, Reads
<1>12. CASE ReadCommand \/ ReadBinding \/ Probe \/ NotFound
  <2>1. /\ UNCHANGED <<layouts, curr_layout, curr_option, renders, missing, broken>>
        /\ phase \in Reads /\ phase' # "choose"
    BY <1>12 DEF ReadCommand, ReadBinding, Probe, NotFound, Reading, Reads, geometry, history, parsing
  <2> QED BY <1>3, <2>1
<1>13. CASE Free \/ Calculate \/ Leave \/ Resize
  <2>1. /\ UNCHANGED <<layouts, curr_layout, curr_option, renders, missing, broken>>
        /\ phase' \notin Reads /\ phase' # "choose"
    BY <1>13 DEF Free, FreeNcWindowData, Calculate, Leave, Resize, Reads, geometry, history, parsing
  <2> QED BY <1>3, <2>1
<1>14. CASE UNCHANGED vars
  BY <1>14 DEF vars, parsing, geometry, history, SessionTypes
<1> QED BY <1>4, <1>5, <1>6, <1>7, <1>8, <1>9, <1>10, <1>11, <1>12, <1>13, <1>14 DEF Next

(* What the parser reads, the geometry of the windows, their pointers and  *)
(* the session: every variable has its type, the highlighted label of an   *)
(* open popup is at least the first, and a plugin that is missing is one of*)
(* the table.                                                              *)
THEOREM LayoutsTypeCorrect == Spec => []TypeOK
<1>1. Init => ParserTypes /\ ScreenTypes /\ SessionTypes /\ CutType
  <2> SUFFICES ASSUME Init PROVE ParserTypes /\ ScreenTypes /\ SessionTypes /\ CutType
    OBVIOUS
  <2>1. Len(Table) \in Nat /\ Len(Debuggers) \in Nat /\ MaxRenders \in Nat
    BY TableIs, LayoutsAssumption, LenProperties
  <2>2. ParserTypes
    BY <2>1 DEF Init, ParserTypes
  <2>3. ScreenTypes
    BY DEF Init, ScreenTypes, NoWindow
  <2>4. SessionTypes
    <3>1. /\ Len(layouts) = 0 /\ phase = "parse" /\ curr_layout = 0 /\ curr_option = 0
          /\ renders = 0 /\ missing = 0 /\ broken = FALSE
      BY DEF Init
    <3>2. broken \in BOOLEAN
      BY <3>1, Zenon
    <3>3. /\ curr_layout \in 0 .. Len(layouts) /\ curr_option \in 0 .. Len(layouts) + 1
          /\ renders \in 0 .. MaxRenders /\ missing \in 0 .. Len(Table)
      BY <2>1, <3>1
    <3>4. (phase \in Reads => renders = 0) /\ (phase = "choose" => renders < MaxRenders)
      BY <3>1
    <3> QED BY <3>2, <3>3, <3>4 DEF SessionTypes
  <2>5. CutType
    <3>1. cut = FALSE
      BY DEF Init
    <3> QED BY <3>1, Zenon DEF CutType
  <2> QED BY <2>2, <2>3, <2>4, <2>5
<1>2. BindingInv /\ ParserTypes /\ [Next]_vars => ParserTypes'
  BY NextParserTypes
<1>3. ScreenInv /\ Placed /\ ScreenTypes /\ [Next]_vars => ScreenTypes'
  BY NextScreenTypes DEF ScreenInv
<1>4. BindingInv /\ ScreenInv /\ ScreenInv' /\ SessionTypes /\ [Next]_vars => SessionTypes'
  BY NextSessionTypes DEF ScreenInv
<1>5. BindingInv /\ WindowsInv /\ ScreenInv /\ Placed /\ ParserTypes /\ ScreenTypes /\ SessionTypes
        /\ CutType => TypeOK
  <2> SUFFICES ASSUME BindingInv, WindowsInv, ScreenInv, Placed, ParserTypes, ScreenTypes, SessionTypes,
                      CutType
               PROVE  TypeOK
    OBVIOUS
  <2>1. \A i \in 1 .. Len(layouts) :
          /\ layouts[i].header \in Seq(Keys \cup {Newline}) /\ layouts[i].header_rows \in Nat
          /\ layouts[i].matrix \in Seq(Seq(Cells))
    <3>1. ASSUME NEW i \in 1 .. Len(layouts) PROVE layouts[i] \in Records
      BY <3>1, ElementOfSeq DEF ScreenInv, LayoutsAreRead
    <3> QED BY <3>1 DEF Records
  <2>2. phase = "choose" => curr_option > 0
    BY DEF ScreenInv, Choice
  <2>3. /\ at \in [section : Nat \ {0}, line : Nat \ {0}]
        /\ plugin_key_index \in [Keys -> 0 .. Len(Table)]
    BY DEF BindingInv
  <2>4. /\ screen \in Screens
        /\ pointer \in [WinPlugins -> [{"WIN", "TWIN", "DWIN"} -> {"null", "live", "dead", "garbage"}]]
    BY DEF Placed, WindowsInv, Pointers
  <2>5. phase \in {"parse", "search", "render", "find", "calculate", "header", "windows", "run",
                "choose", "failed", "loops", "closed", "dirty", "undefined"}
    BY DEF WindowsInv, Settled, Reads
  <2>6. /\ si \in Nat /\ ei \in 0 .. Len(Table)
        /\ command \in [words : Seq(Seq(STRING)), size : Nat, debugger : 0 .. Len(Debuggers)]
    BY DEF ParserTypes
  <2>7. /\ scr \in [rows : Nat, cols : Nat, offset : Nat]
        /\ has_window \in [Plugins -> BOOLEAN]
        /\ win \in [WinPlugins -> [y : Int, x : Int, rows : Int, cols : Int]]
    BY DEF ScreenTypes
  <2>8. /\ curr_layout \in 0 .. Len(layouts) /\ curr_option \in 0 .. Len(layouts) + 1
        /\ renders \in 0 .. MaxRenders /\ missing \in 0 .. Len(Table) /\ cut \in BOOLEAN /\ broken \in BOOLEAN
    BY DEF SessionTypes, CutType
  <2> QED BY <2>1, <2>2, <2>3, <2>4, <2>5, <2>6, <2>7, <2>8 DEF TypeOK
<1> QED BY <1>1, <1>2, <1>3, <1>4, <1>5, NextCutType, BindingInvariant, WindowsInvariant, ScreenInvariant,
          PlacedInvariant, PTL DEF Spec


-----------------------------------------------------------------------------
(* The matrix of an art that is well drawn                                 *)

(* How many of some places, which are among n, there are up to a place.    *)
Among(S, n) == \A i \in S : i \in 1 .. n
Number(S, k) == Cardinality({j \in S : j <= k})

LEMMA NumbersAre ==
  ASSUME NEW n \in Nat, NEW S, Among(S, n)
  PROVE  /\ \A k : Number(S, k) \in Nat
         /\ Number(S, 0) = 0 /\ Number(S, n) = Cardinality(S)
         /\ \A k \in 1 .. n : Number(S, k) = IF k \in S THEN Number(S, k - 1) + 1 ELSE Number(S, k - 1)
<1>0. \A i \in S : i \in 1 .. n
  BY DEF Among
<1> USE <1>0
<1> DEFINE B(k) == {j \in S : j <= k}
<1>1. ASSUME NEW k PROVE IsFiniteSet(B(k)) /\ Cardinality(B(k)) \in Nat
  <2>1. B(k) \subseteq 1 .. n /\ IsFiniteSet(1 .. n)
    BY FS_Interval
  <2> HIDE DEF B
  <2> QED BY <2>1, FS_Subset, FS_CardinalityType
<1>2. B(0) = {} /\ B(n) = S
  OBVIOUS
<1>3. ASSUME NEW k \in 1 .. n
      PROVE  Cardinality(B(k)) = IF k \in S THEN Cardinality(B(k - 1)) + 1 ELSE Cardinality(B(k - 1))
  <2>1. CASE k \in S
    <3>1. k \in Int /\ ~(k <= k - 1) /\ \A j \in S : j <= k <=> j <= k - 1 \/ j = k
      OBVIOUS
    <3>2. B(k) = B(k - 1) \cup {k} /\ k \notin B(k - 1)
      BY <2>1, <3>1
    <3> HIDE DEF B
    <3> QED BY <1>1, <2>1, <3>2, FS_AddElement
  <2>2. CASE k \notin S
    <3>1. B(k) = B(k - 1)
      BY <2>2
    <3> QED BY <2>2, <3>1
  <2> QED BY <2>1, <2>2
<1>4. Cardinality(B(0)) = 0 /\ Cardinality(B(n)) = Cardinality(S)
  <2> HIDE DEF B
  <2> QED BY <1>2, FS_EmptySet
<1> QED BY <1>1, <1>3, <1>4 DEF Number

LEMMA NumbersGrow ==
  ASSUME NEW n \in Nat, NEW S, Among(S, n), NEW j \in 0 .. n, NEW k \in j .. n
  PROVE  /\ Number(S, j) <= Number(S, k)
         /\ j < k /\ k \in S => Number(S, j) < Number(S, k)
<1>0. \A i \in S : i \in 1 .. n
  BY DEF Among
<1> USE <1>0
<1>1. ASSUME NEW m \in j .. n PROVE Number(S, j) <= Number(S, m)
  <2>1. {i \in S : i <= j} \subseteq {i \in S : i <= m}
    OBVIOUS
  <2>2. IsFiniteSet({i \in S : i <= m})
    <3>1. {i \in S : i <= m} \subseteq 1 .. n /\ IsFiniteSet(1 .. n)
      BY FS_Interval
    <3> QED BY <3>1, FS_Subset
  <2> QED BY <2>1, <2>2, FS_Subset DEF Number
<1>2. ASSUME j < k, k \in S PROVE Number(S, j) < Number(S, k)
  <2>1. k - 1 \in j .. n /\ k \in 1 .. n
    BY <1>2
  <2>2. Number(S, j) <= Number(S, k - 1) /\ Number(S, k) = Number(S, k - 1) + 1
    BY <1>1, <1>2, <2>1, NumbersAre
  <2>3. Number(S, j) \in Nat /\ Number(S, k - 1) \in Nat
    BY NumbersAre
  <2> QED BY <2>2, <2>3
<1> QED BY <1>1, <1>2

LEMMA NumbersAdd ==
  ASSUME NEW n \in Nat, NEW S, NEW T, Among(S, n), Among(T, n), S \cap T = {}, NEW k
  PROVE  Number(S \cup T, k) = Number(S, k) + Number(T, k)
<1>0. \A i \in S \cup T : i \in 1 .. n
  BY DEF Among
<1> USE <1>0
<1> DEFINE A == {j \in S : j <= k}
           B == {j \in T : j <= k}
           C == {j \in S \cup T : j <= k}
<1>1. IsFiniteSet(A) /\ IsFiniteSet(B) /\ Cardinality(A) \in Nat /\ Cardinality(B) \in Nat
  <2>1. A \subseteq 1 .. n /\ B \subseteq 1 .. n /\ IsFiniteSet(1 .. n)
    BY FS_Interval
  <2> HIDE DEF A, B
  <2> QED BY <2>1, FS_Subset, FS_CardinalityType
<1>2. C = A \cup B /\ A \cap B = {}
  OBVIOUS
<1> HIDE DEF A, B, C
<1>3. Cardinality(C) = Cardinality(A) + Cardinality(B)
  <2>1. Cardinality(A \cap B) = 0
    BY <1>2, FS_EmptySet
  <2>2. Cardinality(A \cup B) = Cardinality(A) + Cardinality(B) - Cardinality(A \cap B)
    BY ONLY <1>1, FS_Union
  <2> QED BY <1>1, <1>2, <2>1, <2>2
<1> QED BY <1>3 DEF Number, A, B, C

(* s holds what chars has at the places of S up to i, each at its number.  *)
Holds(s, S, chars, i) ==
  /\ Len(s) = Number(S, i)
  /\ \A k \in S : k <= i => s[Number(S, k)] = chars[k]
  /\ \A p \in 1 .. Len(s) : \E k \in S : k <= i /\ Number(S, k) = p

(* A letter stands before the end of place i, with no newline behind it.   *)
LineIsOpen(chars, i) ==
  \E j \in LettersAt(chars) : j <= i /\ \A k \in j .. i : chars[k] # Newline

LEMMA LineEndsAre ==
  ASSUME NEW chars \in Seq(Chars), NEW i \in 1 .. Len(chars)
  PROVE  /\ i \in LineEnds(chars) <=> chars[i] = Newline /\ LineIsOpen(chars, i - 1)
         /\ LineIsOpen(chars, i) <=>
              chars[i] # Newline /\ (i \in LettersAt(chars) \/ LineIsOpen(chars, i - 1))
<1>1. \A j \in LettersAt(chars) : j \in 1 .. Len(chars) /\ chars[j] \in Keys
  BY DEF LettersAt
<1>2. \A j \in LettersAt(chars) : j < i <=> j <= i - 1
  BY <1>1
<1>3. i \in LineEnds(chars) <=> chars[i] = Newline /\ LineIsOpen(chars, i - 1)
  BY <1>2 DEF LineEnds, LineIsOpen
<1>4. \A j \in LettersAt(chars) :
        (j <= i /\ \A k \in j .. i : chars[k] # Newline) <=>
          (chars[i] # Newline /\ (j = i \/ (j <= i - 1 /\ \A k \in j .. i - 1 : chars[k] # Newline)))
  <2> SUFFICES ASSUME NEW j \in LettersAt(chars)
               PROVE  (j <= i /\ \A k \in j .. i : chars[k] # Newline) <=>
                        (chars[i] # Newline /\ (j = i \/ (j <= i - 1 /\ \A k \in j .. i - 1 : chars[k] # Newline)))
    OBVIOUS
  <2>1. j \in Int
    BY <1>1
  <2>2. \A k \in j .. i : k \in j .. i - 1 \/ k = i
    BY <2>1
  <2>3. \A k \in j .. i - 1 : k \in j .. i
    BY <2>1
  <2>4. j <= i <=> j = i \/ j <= i - 1
    BY <2>1
  <2>5. j <= i => i \in j .. i
    BY <2>1
  <2> QED BY <2>2, <2>3, <2>4, <2>5
<1>5. LineIsOpen(chars, i) <=>
        chars[i] # Newline /\ (i \in LettersAt(chars) \/ LineIsOpen(chars, i - 1))
  BY <1>4 DEF LineIsOpen
<1> QED BY <1>3, <1>5


(* What is kept of an art without comments that fits the buffer: its       *)
(* letters and the newlines that end its lines, in their order.            *)
KeptPlaces(chars) == LettersAt(chars) \cup LineEnds(chars)

LEMMA KeysAreKept ==
  ASSUME NEW chars \in Seq(Chars), "#" \notin {chars[i] : i \in 1 .. Len(chars)},
         Cardinality(KeptPlaces(chars)) <= KeyStrLen
  PROVE  Holds(KeyString(chars), KeptPlaces(chars), chars, Len(chars))
<1> DEFINE K == KeptPlaces(chars)
           Num(i) == Number(K, i)
<1>1. PICK n \in Nat : n = Len(chars)
  BY LenProperties
<1>2. Among(K, n) /\ \A k \in K : k \in 1 .. n
  BY <1>1 DEF KeptPlaces, LettersAt, LineEnds, Among
<1>3. /\ \A k : Num(k) \in Nat
      /\ Num(0) = 0 /\ Num(n) = Cardinality(K)
      /\ \A k \in 1 .. n : Num(k) = IF k \in K THEN Num(k - 1) + 1 ELSE Num(k - 1)
      /\ \A i \in 0 .. n : Num(i) <= Num(n)
  <2> HIDE DEF K
  <2>1. \A i \in 0 .. n : n \in i .. n
    OBVIOUS
  <2> QED BY <1>2, <2>1, NumbersAre, NumbersGrow
<1>4. Readable(chars) = chars
  <2>1. {i \in 1 .. Len(chars) : chars[i] = "#"} = {}
    OBVIOUS
  <2> QED BY <2>1 DEF Readable
<1>5. PICK read : KeysRead(read, chars) /\ KeyString(chars) = read[n]
  BY <1>1, <1>4, KeysAreRead
<1>6. /\ read \in [0 .. n -> Seq(Keys \cup {Newline})] /\ read[0] = <<>>
      /\ \A i \in 1 .. n : read[i] = Kept(read[i - 1], chars[i])
  BY <1>1, <1>5 DEF KeysRead
<1> DEFINE LastIsKey(keys) == keys # <<>> /\ keys[Len(keys)] # Newline
           Right(i) == Holds(read[i], K, chars, i) /\ (LastIsKey(read[i]) <=> LineIsOpen(chars, i))
           T == {i \in Nat : i <= n => Right(i)}
<1>7. 0 \in T
  <2>1. ~LineIsOpen(chars, 0)
    BY DEF LineIsOpen, LettersAt
  <2>2. Len(read[0]) = 0
    BY <1>6
  <2>3. Holds(read[0], K, chars, 0)
    <3>1. \A k \in K : ~(k <= 0)
      BY <1>2
    <3> HIDE DEF K
    <3> QED BY <1>3, <2>2, <3>1 DEF Holds
  <2> QED BY <1>6, <2>1, <2>3
<1>8. ASSUME NEW i \in 1 .. n, i - 1 \in T PROVE i \in T
  <2>1. Right(i - 1) /\ i - 1 \in 0 .. n
    BY <1>8
  <2>2. PICK before \in Seq(Keys \cup {Newline}) : before = read[i - 1]
    BY <1>6, <2>1
  <2>3. PICK len \in Nat : len = Len(before) /\ len = Num(i - 1)
    BY <1>3, <2>1, <2>2 DEF Holds
  <2>4. len <= KeyStrLen
    <3>1. KeyStrLen \in Nat
      BY LayoutsAssumption
    <3>2. Num(i - 1) <= Num(n) /\ Num(n) <= KeyStrLen /\ Num(n) \in Nat
      BY <1>3, <2>1
    <3> HIDE DEF Num
    <3> QED BY <2>3, <3>1, <3>2
  <2>5. chars[i] \in Keys \cup {Newline, Blank, "#"}
    BY <1>1 DEF Chars
  <2>6. i \in LettersAt(chars) <=> chars[i] \in Keys
    BY <1>1 DEF LettersAt
  <2>7. /\ i \in LineEnds(chars) <=> chars[i] = Newline /\ LineIsOpen(chars, i - 1)
        /\ LineIsOpen(chars, i) <=>
              chars[i] # Newline /\ (i \in LettersAt(chars) \/ LineIsOpen(chars, i - 1))
    BY <1>1, LineEndsAre
  <2>8. Keeps(before, chars[i]) <=> i \in K
    BY <2>1, <2>2, <2>6, <2>7 DEF Keeps, KeptPlaces
  <2>9. read[i] = IF i \in K THEN Append(before, chars[i]) ELSE before
    BY <1>6, <2>2, <2>3, <2>4, <2>8 DEF Kept
  <2>10. CASE i \in K
    <3>1. chars[i] \in Keys \cup {Newline}
      BY <2>10, <2>6, <2>7 DEF KeptPlaces
    <3>2. PICK keys : keys = read[i]
      OBVIOUS
    <3>3. /\ keys # <<>> /\ Len(keys) = len + 1 /\ keys[len + 1] = chars[i]
          /\ \A m \in 1 .. len : keys[m] = before[m]
      <4>1. keys = Append(before, chars[i])
        BY <2>9, <2>10, <3>2
      <4>2. PICK x \in Keys \cup {Newline} : x = chars[i]
        BY <3>1
      <4> DEFINE D == Keys \cup {Newline}
      <4>3. before \in Seq(D) /\ x \in D
        OBVIOUS
      <4> HIDE DEF K, D
      <4>4. /\ Append(before, x) # <<>> /\ Len(Append(before, x)) = Len(before) + 1
            /\ Append(before, x)[Len(before) + 1] = x
            /\ \A m \in 1 .. Len(before) : Append(before, x)[m] = before[m]
        BY ONLY <4>3, AppendIs
      <4> QED BY <2>3, <4>1, <4>2, <4>4
    <3>4. Num(i) = len + 1
      BY <1>3, <2>3, <2>10
    <3>5. \A k \in K : k <= i <=> k <= i - 1 \/ k = i
      BY <1>2
    <3>6. ASSUME NEW k \in K, k <= i - 1 PROVE keys[Num(k)] = chars[k]
      <4>1. before[Num(k)] = chars[k]
        BY <2>1, <2>2, <3>6 DEF Holds
      <4>2. Num(k) \in 1 .. len
        <5>1. k \in 1 .. n /\ k - 1 \in 0 .. n
          BY <1>2
        <5>2. Num(k) = Num(k - 1) + 1 /\ Num(k - 1) \in Nat /\ Num(k) \in Nat
          BY <1>3, <5>1
        <5>3. Num(k) <= Num(i - 1)
          <6>1. i - 1 \in k .. n /\ k \in 0 .. n
            BY <3>6, <5>1
          <6> HIDE DEF K
          <6> QED BY <1>2, <6>1, NumbersGrow
        <5> HIDE DEF Num
        <5> QED BY <2>3, <5>2, <5>3
      <4> QED BY <3>3, <4>1, <4>2
    <3>7. ASSUME NEW p \in 1 .. Len(keys) PROVE \E k \in K : k <= i /\ Num(k) = p
      <4>1. CASE p = len + 1
        BY <2>10, <3>4, <4>1
      <4>2. CASE p # len + 1
        <5>1. p \in 1 .. Len(before)
          BY <2>3, <3>3, <4>2
        <5>2. PICK k \in K : k <= i - 1 /\ Num(k) = p
          BY <2>1, <2>2, <5>1 DEF Holds
        <5> QED BY <3>5, <5>2
      <4> QED BY <4>1, <4>2
    <3>8. Holds(keys, K, chars, i)
      <4> HIDE DEF K
      <4> QED BY <3>3, <3>4, <3>5, <3>6, <3>7 DEF Holds
    <3>9. LastIsKey(keys) <=> LineIsOpen(chars, i)
      <4>1. LastIsKey(keys) <=> chars[i] # Newline
        BY <2>3, <3>3
      <4>2. chars[i] # Newline => i \in LettersAt(chars)
        BY <2>6, <3>1
      <4> QED BY <2>7, <4>1, <4>2
    <3> QED BY <3>2, <3>8, <3>9
  <2>11. CASE i \notin K
    <3>1. read[i] = before /\ Num(i) = len
      BY <1>3, <2>3, <2>9, <2>11
    <3>2. \A k \in K : k <= i <=> k <= i - 1
      BY <1>2, <2>11
    <3>3. Holds(before, K, chars, i)
      <4>1. Holds(before, K, chars, i - 1)
        BY <2>1, <2>2
      <4> HIDE DEF K
      <4> QED BY <2>3, <3>1, <3>2, <4>1 DEF Holds
    <3>4. LineIsOpen(chars, i) <=> LineIsOpen(chars, i - 1)
      <4>1. i \notin LettersAt(chars) /\ i \notin LineEnds(chars)
        BY <2>11 DEF KeptPlaces
      <4> QED BY <2>7, <4>1
    <3> QED BY <2>1, <2>2, <3>1, <3>3, <3>4
  <2> QED BY <2>10, <2>11
<1>9. n \in T
  <2>1. 0 .. n \subseteq T
    <3> HIDE DEF T
    <3> QED BY <1>7, <1>8, Induction
  <2> QED BY <2>1
<1> QED BY <1>1, <1>5, <1>9


(* A place of a set has its number, and no other place has it.             *)
LEMMA NumbersDiffer ==
  ASSUME NEW n \in Nat, NEW S, Among(S, n), NEW j \in S, NEW k \in S
  PROVE  /\ j < k <=> Number(S, j) < Number(S, k)
         /\ Number(S, j) = Number(S, k) => j = k
<1>0. \A i \in S : i \in 1 .. n
  BY DEF Among
<1> USE <1>0
<1>1. ASSUME NEW i \in S, NEW m \in S, i < m PROVE Number(S, i) < Number(S, m)
  <2>1. i \in 0 .. n /\ m \in i .. n
    BY <1>1
  <2> QED BY <1>1, <2>1, NumbersGrow
<1>2. Number(S, j) \in Nat /\ Number(S, k) \in Nat
  BY NumbersAre
<1>3. j < k \/ j = k \/ k < j
  OBVIOUS
<1> QED BY <1>1, <1>2, <1>3

LEMMA NumbersCount ==
  ASSUME NEW n \in Nat, NEW S, Among(S, n), NEW T, \A k \in T : k \in S,
         NEW N, \A k \in T : Number(S, k) \in N, \A y \in N : \E k \in T : Number(S, k) = y
  PROVE  Cardinality(N) = Cardinality(T)
<1>0. \A i \in S : i \in 1 .. n
  BY DEF Among
<1> USE <1>0
<1> DEFINE f == [k \in T |-> Number(S, k)]
<1>1. IsFiniteSet(T)
  <2>1. T \subseteq 1 .. n /\ IsFiniteSet(1 .. n)
    BY FS_Interval
  <2> QED BY <2>1, FS_Subset
<1>2. f \in Bijection(T, N)
  <2>1. \A j, k \in T : f[j] = f[k] => j = k
    <3> SUFFICES ASSUME NEW j \in T, NEW k \in T, f[j] = f[k] PROVE j = k
      OBVIOUS
    <3>1. Number(S, j) = Number(S, k) /\ j \in S /\ k \in S
      OBVIOUS
    <3> QED BY <3>1, NumbersDiffer
  <2>2. f \in [T -> N] /\ \A y \in N : \E k \in T : f[k] = y
    OBVIOUS
  <2> HIDE DEF f
  <2> QED BY <2>1, <2>2 DEF Bijection, Injection, Surjection, IsInjective
<1>3. ExistsBijection(T, N)
  BY <1>2 DEF ExistsBijection
<1> QED BY <1>1, <1>3, FS_Bijection

(* The letters of an art by lines and columns.                             *)
LEMMA PlacesOfArt ==
  ASSUME NEW chars \in Seq(Chars)
  PROVE  /\ Len(chars) \in Nat
         /\ \A i \in LettersAt(chars) : i \in 1 .. Len(chars) /\ chars[i] \in Keys
         /\ \A i \in LineEnds(chars) : i \in 1 .. Len(chars) /\ chars[i] = Newline
         /\ Among(LettersAt(chars), Len(chars)) /\ Among(LineEnds(chars), Len(chars))
         /\ Among(KeptPlaces(chars), Len(chars)) /\ \A i \in KeptPlaces(chars) : i \in 1 .. Len(chars)
         /\ LettersAt(chars) \cap LineEnds(chars) = {}
         /\ \A i \in Int : LineOf(chars, i) = 1 + Number(LineEnds(chars), i - 1)
         /\ \A k : Number(LineEnds(chars), k) \in Nat
<1>1. Len(chars) \in Nat
  BY LenProperties
<1>2. /\ \A i \in LettersAt(chars) : i \in 1 .. Len(chars) /\ chars[i] \in Keys
      /\ \A i \in LineEnds(chars) : i \in 1 .. Len(chars) /\ chars[i] = Newline
      /\ Among(LettersAt(chars), Len(chars)) /\ Among(LineEnds(chars), Len(chars))
      /\ Among(KeptPlaces(chars), Len(chars)) /\ \A i \in KeptPlaces(chars) : i \in 1 .. Len(chars)
  BY DEF LettersAt, LineEnds, KeptPlaces, Among
<1>3. LettersAt(chars) \cap LineEnds(chars) = {}
  BY <1>2, LayoutsAssumption
<1>4. ASSUME NEW i \in Int PROVE LineOf(chars, i) = 1 + Number(LineEnds(chars), i - 1)
  <2>1. \A m \in LineEnds(chars) : m < i <=> m <= i - 1
    BY <1>2
  <2>2. {m \in LineEnds(chars) : m < i} = {m \in LineEnds(chars) : m <= i - 1}
    BY <2>1
  <2> QED BY <2>2 DEF LineOf, Number
<1>5. \A k : Number(LineEnds(chars), k) \in Nat
  BY <1>1, <1>2, NumbersAre
<1> QED BY <1>1, <1>2, <1>3, <1>4, <1>5


(* In an art that is well drawn the letter in line r and column c has      *)
(* r - 1 whole lines, with their newlines, before it.                      *)
LEMMA LettersHavePlaces ==
  ASSUME NEW chars \in Seq(Chars), WellDrawn(chars)
  PROVE  LET h == Lines(chars)
             w == Width(chars)
         IN /\ h \in Nat \ {0} /\ w \in Nat \ {0} /\ Cardinality(KeptPlaces(chars)) = h * (w + 1)
            /\ \A j \in LettersAt(chars) :
                 /\ LineOf(chars, j) \in 1 .. h /\ ColumnOf(chars, j) \in 1 .. w
                 /\ Number(KeptPlaces(chars), j) = (LineOf(chars, j) - 1) * (w + 1) + ColumnOf(chars, j)
<1> DEFINE A == LettersAt(chars)
           E == LineEnds(chars)
           Row(r) == {i \in A : LineOf(chars, i) = r}
           Rows(r) == {i \in A : LineOf(chars, i) <= r}
<1>1. PICK n \in Nat : n = Len(chars)
  BY PlacesOfArt
<1>2. /\ \A i \in A : i \in 1 .. n /\ chars[i] \in Keys
      /\ \A i \in E : i \in 1 .. n /\ chars[i] = Newline
      /\ Among(A, n) /\ Among(E, n) /\ A \cap E = {}
      /\ \A i \in A : LineOf(chars, i) = 1 + Number(E, i - 1)
      /\ \A k : Number(E, k) \in Nat
  <2>1. /\ \A i \in A : i \in 1 .. n /\ chars[i] \in Keys
        /\ \A i \in E : i \in 1 .. n /\ chars[i] = Newline
        /\ Among(A, n) /\ Among(E, n) /\ A \cap E = {} /\ \A k : Number(E, k) \in Nat
    BY <1>1, PlacesOfArt
  <2>2. \A i \in Int : LineOf(chars, i) = 1 + Number(E, i - 1)
    BY PlacesOfArt
  <2>3. \A i \in A : i \in Int
    BY <2>1
  <2> HIDE DEF A, E
  <2> QED BY <2>1, <2>2, <2>3
<1>3. PICK h \in Nat : h = Lines(chars) /\ h = Number(E, n) /\ h = Cardinality(E)
  <2> HIDE DEF E
  <2>1. Number(E, n) = Cardinality(E) /\ Number(E, n) \in Nat
    BY <1>2, NumbersAre
  <2> QED BY <2>1 DEF Lines, E
<1>4. ASSUME NEW S, S \subseteq A PROVE IsFiniteSet(S) /\ Cardinality(S) \in Nat
  <2>1. S \subseteq 1 .. n /\ IsFiniteSet(1 .. n)
    BY <1>2, <1>4, FS_Interval
  <2> QED BY <2>1, FS_Subset, FS_CardinalityType
<1>5. PICK w \in Nat : w = Width(chars) /\ \A r \in 1 .. h : Cardinality(Row(r)) = w
  <2>1. Width(chars) = Cardinality(Row(1)) /\ Row(1) \subseteq A
    BY DEF Width
  <2>2. \A r \in 1 .. h : Cardinality(Row(r)) = Width(chars)
    BY <1>3 DEF WellDrawn
  <2> HIDE DEF Row
  <2> QED BY <1>4, <2>1, <2>2
<1>6. ASSUME NEW j \in A PROVE LineOf(chars, j) \in 1 .. h
  <2>1. PICK m \in E : j < m
    BY DEF WellDrawn
  <2>2. j - 1 \in 0 .. n /\ m \in j - 1 .. n /\ n \in m .. n /\ m \in 0 .. n
    BY <1>2, <2>1
  <2> HIDE DEF E, A
  <2>3. Number(E, j - 1) < Number(E, m) /\ Number(E, m) <= Number(E, n)
    <3>1. j - 1 < m
      BY <1>2, <2>1
    <3>2. Among(E, n)
      BY <1>2
    <3>3. Number(E, j - 1) < Number(E, m)
      BY ONLY <2>2, <3>1, <3>2, NumbersGrow
    <3>4. Number(E, m) <= Number(E, n)
      BY ONLY <2>2, <3>2, NumbersGrow
    <3> QED BY <3>3, <3>4
  <2>4. PICK a \in Nat, b \in Nat : a = Number(E, j - 1) /\ b = Number(E, m)
    BY <1>2
  <2>5. a < b /\ b <= h
    BY <1>3, <2>3, <2>4
  <2> QED BY <1>2, <2>4, <2>5
<1>7. ASSUME NEW i \in A, NEW j \in A
      PROVE  /\ i <= j => LineOf(chars, i) <= LineOf(chars, j)
             /\ LineOf(chars, i) < LineOf(chars, j) => i < j
  <2>1. ASSUME NEW k \in A, NEW l \in A, k <= l PROVE LineOf(chars, k) <= LineOf(chars, l)
    <3>1. k - 1 \in 0 .. n /\ l - 1 \in k - 1 .. n
      BY SMTT(30), <1>2, <2>1
    <3> HIDE DEF E
    <3>2. Number(E, k - 1) <= Number(E, l - 1)
      BY <1>2, <3>1, NumbersGrow
    <3> QED BY <1>2, <3>2
  <2>2. LineOf(chars, i) \in Int /\ LineOf(chars, j) \in Int /\ i \in Int /\ j \in Int
    BY <1>2, <1>6
  <2>3. j <= i => LineOf(chars, j) <= LineOf(chars, i)
    BY <2>1
  <2>4. i <= j => LineOf(chars, i) <= LineOf(chars, j)
    BY <2>1
  <2> QED BY <2>2, <2>3, <2>4
<1>8. ASSUME NEW r \in 0 .. h PROVE Cardinality(Rows(r)) = r * w
  <2> DEFINE T == {k \in Nat : k <= h => Cardinality(Rows(k)) = k * w}
  <2>1. 0 \in T
    <3>1. Rows(0) = {}
      BY <1>6
    <3> HIDE DEF Rows
    <3> QED BY <3>1, FS_EmptySet
  <2>2. ASSUME NEW k \in 1 .. h, k - 1 \in T PROVE k \in T
    <3>1. Rows(k) = Rows(k - 1) \cup Row(k) /\ Rows(k - 1) \cap Row(k) = {}
      <4>1. \A i \in A : LineOf(chars, i) \in Int
        BY <1>6
      <4>2. \A i \in A : /\ LineOf(chars, i) <= k <=> LineOf(chars, i) <= k - 1 \/ LineOf(chars, i) = k
                         /\ ~(LineOf(chars, i) <= k - 1 /\ LineOf(chars, i) = k)
        BY <4>1
      <4> QED BY <4>2
    <3>2. IsFiniteSet(Rows(k - 1)) /\ IsFiniteSet(Row(k))
      BY <1>4
    <3> HIDE DEF Rows, Row
    <3>3. Cardinality(Rows(k - 1)) = (k - 1) * w /\ Cardinality(Row(k)) = w
      BY <1>5, <2>2
    <3>4. Cardinality(Rows(k - 1) \cap Row(k)) = 0
      BY <3>1, FS_EmptySet
    <3>5. Cardinality(Rows(k - 1) \cup Row(k))
            = Cardinality(Rows(k - 1)) + Cardinality(Row(k)) - Cardinality(Rows(k - 1) \cap Row(k))
      BY ONLY <3>2, FS_Union
    <3>6. Cardinality(Rows(k)) = (k - 1) * w + w - 0
      BY <3>1, <3>3, <3>4, <3>5
    <3>7. (k - 1) * w + w - 0 = k * w
      OBVIOUS
    <3> QED BY <3>6, <3>7
  <2>3. 0 .. h \subseteq T
    <3> HIDE DEF T
    <3> QED BY <2>1, <2>2, Induction
  <2> QED BY <2>3
<1>9. h # 0 /\ w # 0
  <2>1. PICK j \in A : TRUE
    BY DEF WellDrawn
  <2>2. LineOf(chars, j) \in 1 .. h /\ j \in Row(LineOf(chars, j))
    BY <1>6, <2>1
  <2>3. PICK r \in 1 .. h : j \in Row(r)
    BY <2>2
  <2>4. Row(r) # {} /\ IsFiniteSet(Row(r))
    BY <1>4, <2>3
  <2> HIDE DEF Row
  <2> QED BY <1>5, <2>4, FS_EmptySet
<1>10. Cardinality(KeptPlaces(chars)) = h * (w + 1)
  <2>1. Rows(h) = A
    BY <1>6
  <2>2. Cardinality(A) = h * w
    BY <1>8, <2>1
  <2>3. IsFiniteSet(A) /\ IsFiniteSet(E)
    <3>1. E \subseteq 1 .. n /\ IsFiniteSet(1 .. n)
      BY <1>2, FS_Interval
    <3>2. IsFiniteSet(E)
      BY <3>1, FS_Subset
    <3> QED BY <1>4, <3>2
  <2> HIDE DEF A, E
  <2>4. Cardinality(A \cap E) = 0
    BY <1>2, FS_EmptySet
  <2>5. Cardinality(A \cup E) = Cardinality(A) + Cardinality(E) - Cardinality(A \cap E)
    BY ONLY <2>3, FS_Union
  <2>6. Cardinality(A \cup E) = h * w + h - 0
    BY <1>3, <2>2, <2>4, <2>5
  <2>7. h * w + h - 0 = h * (w + 1)
    OBVIOUS
  <2> QED BY <2>6, <2>7 DEF KeptPlaces, A, E
<1>11. ASSUME NEW j \in A
       PROVE  /\ ColumnOf(chars, j) \in 1 .. w
              /\ Number(KeptPlaces(chars), j) = (LineOf(chars, j) - 1) * (w + 1) + ColumnOf(chars, j)
  <2>1. PICK r \in 1 .. h : r = LineOf(chars, j)
    BY <1>6
  <2> DEFINE upto == {i \in A : i <= j /\ LineOf(chars, i) = LineOf(chars, j)}
  <2>2. upto \subseteq Row(r) /\ j \in upto /\ upto \subseteq A /\ Row(r) \subseteq A
    BY <1>2, <2>1
  <2>3. PICK c \in Nat : c = ColumnOf(chars, j) /\ c = Cardinality(upto) /\ c \in 1 .. w
    <3>1. IsFiniteSet(upto) /\ Cardinality(upto) \in Nat /\ IsFiniteSet(Row(r))
      BY <1>4, <2>2
    <3>2. Cardinality(Row(r)) = w
      BY <1>5
    <3>3. ColumnOf(chars, j) = Cardinality(upto)
      BY DEF ColumnOf
    <3> HIDE DEF upto, Row
    <3>4. Cardinality(upto) <= Cardinality(Row(r)) /\ Cardinality(upto) # 0
      BY <2>2, <3>1, FS_Subset, FS_EmptySet
    <3> QED BY <3>1, <3>2, <3>3, <3>4
  <2>4. Number(A, j) = (r - 1) * w + c
    <3>1. {i \in A : i <= j} = Rows(r - 1) \cup upto /\ Rows(r - 1) \cap upto = {}
      <4>1. \A i \in A : LineOf(chars, i) \in Int /\ i \in Int
        BY <1>2, <1>6
      <4>2. \A i \in A : i <= j <=> LineOf(chars, i) <= r - 1 \/ (i <= j /\ LineOf(chars, i) = r)
        <5> SUFFICES ASSUME NEW i \in A
                     PROVE  i <= j <=> LineOf(chars, i) <= r - 1 \/ (i <= j /\ LineOf(chars, i) = r)
          OBVIOUS
        <5>1. (i <= j => LineOf(chars, i) <= r) /\ (LineOf(chars, i) < r => i < j)
          BY <1>7, <2>1
        <5>2. LineOf(chars, i) \in Int /\ i \in Int /\ j \in Int
          BY <4>1
        <5> QED BY <5>1, <5>2
      <4>3. \A i \in A : ~(LineOf(chars, i) <= r - 1 /\ LineOf(chars, i) = r)
        BY <4>1
      <4> QED BY <2>1, <4>2, <4>3
    <3>2. IsFiniteSet(Rows(r - 1)) /\ IsFiniteSet(upto)
      BY <1>4
    <3>3. Cardinality(Rows(r - 1)) = (r - 1) * w
      <4>1. r - 1 \in 0 .. h
        OBVIOUS
      <4> HIDE DEF Rows
      <4> QED BY <1>8, <4>1
    <3> HIDE DEF Rows, upto
    <3>4. Cardinality(Rows(r - 1) \cap upto) = 0
      BY <3>1, FS_EmptySet
    <3>5. Cardinality(Rows(r - 1) \cup upto)
            = Cardinality(Rows(r - 1)) + Cardinality(upto) - Cardinality(Rows(r - 1) \cap upto)
      BY ONLY <3>2, FS_Union
    <3>6. Cardinality(Rows(r - 1) \cup upto) = (r - 1) * w + c - 0
      BY <2>3, <3>3, <3>4, <3>5
    <3>7. (r - 1) * w + c - 0 = (r - 1) * w + c
      OBVIOUS
    <3> QED BY <3>1, <3>6, <3>7 DEF Number
  <2>5. Number(E, j) = r - 1
    <3>1. j \in 1 .. n /\ j \notin E
      BY <1>2
    <3>2. Number(E, j) = Number(E, j - 1)
      <4> HIDE DEF E, A
      <4> QED BY <1>2, <3>1, NumbersAre
    <3>3. LineOf(chars, j) = 1 + Number(E, j - 1)
      BY <1>2
    <3> QED BY <1>2, <2>1, <3>2, <3>3
  <2>6. Number(A \cup E, j) = Number(A, j) + Number(E, j)
    <3> HIDE DEF A, E
    <3> QED BY <1>2, NumbersAdd
  <2>7. (r - 1) * w + c + (r - 1) = (r - 1) * (w + 1) + c
    OBVIOUS
  <2>8. Number(A \cup E, j) = (r - 1) * w + c + (r - 1)
    BY <2>4, <2>5, <2>6
  <2> QED BY <2>1, <2>3, <2>7, <2>8 DEF KeptPlaces
<1> QED BY <1>3, <1>5, <1>6, <1>9, <1>10, <1>11


(* The string of a well drawn art has its letters and the ends of its      *)
(* lines, so its lines are counted by the newlines and its columns up to   *)
(* the first of them.                                                      *)
LEMMA ArtIsRead ==
  ASSUME NEW chars \in Seq(Chars), WellDrawn(chars)
  PROVE  LET s == KeyString(chars)
             K == KeptPlaces(chars)
         IN /\ Len(s) = Lines(chars) * (Width(chars) + 1) /\ Len(s) < KeyStrLen
            /\ \A k \in K : s[Number(K, k)] = chars[k]
            /\ RowRatio(s) = Lines(chars) /\ ColRatio(s) = Width(chars)
<1> DEFINE s == KeyString(chars)
           K == KeptPlaces(chars)
           A == LettersAt(chars)
           E == LineEnds(chars)
           Num(k) == Number(K, k)
<1>1. PICK n \in Nat : n = Len(chars)
  BY PlacesOfArt
<1>2. /\ \A i \in A : i \in 1 .. n /\ chars[i] \in Keys
      /\ \A i \in E : i \in 1 .. n /\ chars[i] = Newline
      /\ Among(K, n) /\ \A k \in K : k \in 1 .. n
      /\ A \cap E = {} /\ \A k : Number(E, k) \in Nat
  BY <1>1, PlacesOfArt
<1>3. PICK h \in Nat, w \in Nat : h = Lines(chars) /\ w = Width(chars) /\ Cardinality(K) = h * (w + 1)
  BY LettersHavePlaces
<1>4. Cardinality(K) < KeyStrLen /\ Cardinality(K) \in Nat
  <2>1. IsFiniteSet(A) /\ IsFiniteSet(E)
    <3>1. A \subseteq 1 .. n /\ E \subseteq 1 .. n /\ IsFiniteSet(1 .. n)
      BY <1>2, FS_Interval
    <3> QED BY <3>1, FS_Subset
  <2>2. Cardinality(A) + Lines(chars) < KeyStrLen
    BY DEF WellDrawn
  <2> HIDE DEF A, E
  <2>3. Cardinality(A \cap E) = 0 /\ Cardinality(A) \in Nat /\ Cardinality(E) \in Nat
    BY <1>2, <2>1, FS_EmptySet, FS_CardinalityType
  <2>4. Cardinality(A \cup E) = Cardinality(A) + Cardinality(E) - Cardinality(A \cap E)
    BY ONLY <2>1, FS_Union
  <2>5. Cardinality(A \cup E) = Cardinality(A) + Lines(chars)
    BY <2>3, <2>4 DEF Lines, E
  <2>6. Cardinality(K) = Cardinality(A \cup E)
    BY DEF KeptPlaces, A, E
  <2> QED BY <2>2, <2>3, <2>5, <2>6 DEF Lines, E
<1>5. Holds(s, K, chars, n)
  <2>1. "#" \notin {chars[i] : i \in 1 .. Len(chars)}
    BY DEF WellDrawn
  <2>2. KeyStrLen \in Nat
    BY LayoutsAssumption
  <2>3. Cardinality(K) <= KeyStrLen
    BY <1>4, <2>2
  <2> QED BY <1>1, <2>1, <2>3, KeysAreKept
<1>6. Len(s) = h * (w + 1) /\ Len(s) < KeyStrLen /\ \A k \in K : s[Num(k)] = chars[k]
  <2> HIDE DEF s, K
  <2>1. Num(n) = Cardinality(K)
    BY <1>2, NumbersAre
  <2>2. Len(s) = Cardinality(K)
    BY <1>5, <2>1 DEF Holds
  <2>3. \A k \in K : s[Num(k)] = chars[k]
    BY <1>2, <1>5 DEF Holds
  <2> QED BY <1>3, <1>4, <2>2, <2>3
<1>7. /\ \A k \in K : Num(k) \in 1 .. Len(s)
      /\ \A p \in 1 .. Len(s) : \E k \in K : Num(k) = p
  <2> HIDE DEF s, K
  <2>1. \A p \in 1 .. Len(s) : \E k \in K : Num(k) = p
    BY <1>5 DEF Holds
  <2>2. ASSUME NEW k \in K PROVE Num(k) \in 1 .. Len(s)
    <3>1. k - 1 \in 0 .. n /\ k \in 1 .. n /\ n \in k .. n /\ k \in 0 .. n
      BY <1>2
    <3>2. Num(k) = Num(k - 1) + 1 /\ Num(k - 1) \in Nat
      BY <1>2, <3>1, NumbersAre
    <3>3. Num(k) <= Num(n)
      <4>1. Among(K, n)
        BY <1>2
      <4> QED BY ONLY <3>1, <4>1, NumbersGrow
    <3>4. Num(n) = Len(s) /\ Num(n) \in Nat
      BY <1>2, <1>5, NumbersAre DEF Holds
    <3> HIDE DEF Num
    <3> QED BY <3>2, <3>3, <3>4
  <2> QED BY <2>1, <2>2
<1>8. \A k \in K : (k \in A <=> chars[k] \in Keys) /\ (k \in E <=> chars[k] = Newline) /\ (k \in A \/ k \in E)
  <2>1. \A k \in K : k \in A \/ k \in E
    BY DEF KeptPlaces
  <2>2. Newline \notin Keys
    BY LayoutsAssumption
  <2> HIDE DEF A, E, K
  <2> QED BY <1>2, <2>1, <2>2
<1>9. A \subseteq K /\ E \subseteq K
  BY DEF KeptPlaces
<1>10. Newlines(s) = {Num(k) : k \in E}
  <2> HIDE DEF s, K, E, A, Num
  <2>1. ASSUME NEW p \in 1 .. Len(s), s[p] = Newline PROVE p \in {Num(k) : k \in E}
    <3>1. PICK k \in K : Num(k) = p
      BY <1>7
    <3>2. k \in E
      BY <1>6, <1>8, <2>1, <3>1
    <3> QED BY <3>1, <3>2
  <2>2. ASSUME NEW k \in E PROVE Num(k) \in 1 .. Len(s) /\ s[Num(k)] = Newline
    BY <1>6, <1>7, <1>8, <1>9
  <2> QED BY <2>1, <2>2 DEF Newlines
<1>11. RowRatio(s) = h
  <2> HIDE DEF s, K, E, A
  <2>1. Among(K, n)
    BY <1>2
  <2>2. Cardinality(Newlines(s)) = Cardinality(E)
    <3>1. /\ \A k \in E : k \in K /\ Number(K, k) \in Newlines(s)
          /\ \A y \in Newlines(s) : \E k \in E : Number(K, k) = y
      BY <1>9, <1>10
    <3> QED BY <2>1, <3>1, NumbersCount
  <2>3. Cardinality(E) = h
    BY <1>3 DEF Lines, E
  <2> QED BY <2>2, <2>3 DEF RowRatio
<1>12. ColRatio(s) = w
  <2> DEFINE First1 == {j \in A : LineOf(chars, j) = 1}
             Before1 == {i \in 1 .. Len(s) : s[i] \in Keys /\ \A j \in Newlines(s) : i < j}
  <2>1. ASSUME NEW k \in A PROVE k \in First1 <=> \A m \in E : k < m
    <3>1. LineOf(chars, k) = 1 + Number(E, k - 1)
      <4>1. k \in Int
        BY <1>2
      <4> QED BY <4>1, PlacesOfArt
    <3>2. Number(E, k - 1) \in Nat
      BY <1>2
    <3>3. Number(E, k - 1) = 0 <=> \A m \in E : k < m
      <4>1. {m \in E : m <= k - 1} \subseteq 1 .. n /\ IsFiniteSet(1 .. n)
        BY <1>2, FS_Interval
      <4>2. IsFiniteSet({m \in E : m <= k - 1})
        BY <4>1, FS_Subset
      <4>3. Number(E, k - 1) = 0 <=> {m \in E : m <= k - 1} = {}
        <5> HIDE DEF E
        <5> QED BY <4>2, FS_EmptySet DEF Number
      <4>4. \A m \in E : m <= k - 1 <=> ~(k < m) /\ m # k
        BY <1>2
      <4>5. \A m \in E : m # k
        BY <1>2
      <4> HIDE DEF E
      <4> QED BY <4>3, <4>4, <4>5
    <3> QED BY <3>1, <3>2, <3>3
  <2>2. \A k \in K : \A m \in K : k < m <=> Num(k) < Num(m)
    <3> HIDE DEF K
    <3>1. Among(K, n)
      BY <1>2
    <3> QED BY ONLY <3>1, NumbersDiffer
  <2>3. Before1 = {Num(k) : k \in First1}
    <3> HIDE DEF s, K, Num, E
    <3>1. ASSUME NEW p \in Before1 PROVE p \in {Num(k) : k \in First1}
      <4>1. PICK k \in K : Num(k) = p
        BY <1>7
      <4>2. k \in A
        BY <1>6, <1>8, <4>1
      <4>3. \A m \in E : k < m
        BY <1>9, <1>10, <2>2, <4>1
      <4> HIDE DEF A
      <4>4. k \in First1
        BY <2>1, <4>2, <4>3
      <4> QED BY <4>1, <4>4
    <3>2. ASSUME NEW k \in First1 PROVE Num(k) \in Before1
      <4>1. k \in A /\ k \in K /\ \A m \in E : k < m
        BY <1>9, <2>1
      <4>2. Num(k) \in 1 .. Len(s) /\ s[Num(k)] \in Keys
        BY <1>6, <1>7, <1>8, <4>1
      <4>3. \A j \in Newlines(s) : Num(k) < j
        BY <1>9, <1>10, <2>2, <4>1
      <4> QED BY <4>2, <4>3
    <3> QED BY <3>1, <3>2
  <2>4. First1 \subseteq K
    BY <1>9
  <2>5. Cardinality(First1) = w
    BY <1>3 DEF Width
  <2>6. Among(K, n)
    BY <1>2
  <2>7. ColRatio(s) = Cardinality(Before1)
    BY DEF ColRatio
  <2> HIDE DEF First1, K, Before1
  <2>8. Cardinality(Before1) = Cardinality(First1)
    <3>1. /\ \A k \in First1 : k \in K /\ Number(K, k) \in Before1
          /\ \A y \in Before1 : \E k \in First1 : Number(K, k) = y
      BY <2>3, <2>4
    <3> QED BY <2>6, <3>1, NumbersCount
  <2> QED BY <2>5, <2>7, <2>8
<1> QED BY <1>3, <1>6, <1>11, <1>12


(* So the loop that steps over a character behind every row finds every    *)
(* letter in its line and column, and ends inside the matrix.              *)
LEMMA DrawnIsMatrix ==
  ASSUME NEW chars \in Seq(Chars), WellDrawn(chars)
  PROVE  LET s == KeyString(chars)
             m == Matrix(s)
         IN /\ ~Overflows(chars) /\ RowRatio(s) # 0 /\ ColRatio(s) # 0 /\ ~WritesOutside(s)
            /\ Len(m) = Lines(chars) /\ \A r \in 1 .. Lines(chars) : Len(m[r]) = Width(chars)
            /\ \A j \in LettersAt(chars) : m[LineOf(chars, j)][ColumnOf(chars, j)] = chars[j]
<1> DEFINE s == KeyString(chars)
           K == KeptPlaces(chars)
<1>1. PICK h \in Nat \ {0}, w \in Nat \ {0} : h = Lines(chars) /\ w = Width(chars)
  BY LettersHavePlaces
<1>2. /\ Len(s) = h * (w + 1) /\ Len(s) < KeyStrLen /\ RowRatio(s) = h /\ ColRatio(s) = w
      /\ \A k \in K : s[Number(K, k)] = chars[k]
  BY <1>1, ArtIsRead
<1>3. \A j \in LettersAt(chars) :
        /\ LineOf(chars, j) \in 1 .. h /\ ColumnOf(chars, j) \in 1 .. w
        /\ Number(K, j) = (LineOf(chars, j) - 1) * (w + 1) + ColumnOf(chars, j)
  BY <1>1, LettersHavePlaces
<1>4. h * (w + 1) \in Nat /\ KeyStrLen \in Nat
  BY LayoutsAssumption
<1>5. ~Overflows(chars) /\ RowRatio(s) # 0 /\ ColRatio(s) # 0 /\ ~WritesOutside(s)
  <2> HIDE DEF s
  <2>1. ~(Len(s) >= KeyStrLen) /\ ~(Len(s) > h * (w + 1))
    BY <1>2, <1>4
  <2> QED BY <1>2, <2>1 DEF Overflows, WritesOutside, s
<1> DEFINE cell(i) == IF i <= Len(s) THEN s[i] ELSE Unwritten
           row(r) == [c \in 1 .. w |-> cell((r - 1) * (w + 1) + c)]
<1>6. Matrix(s) = [r \in 1 .. h |-> row(r)]
  BY <1>2 DEF Matrix
<1> HIDE DEF s, cell
<1>7. Len(Matrix(s)) = h /\ \A r \in 1 .. h : Len(Matrix(s)[r]) = w
  BY <1>6
<1>8. ASSUME NEW j \in LettersAt(chars) PROVE Matrix(s)[LineOf(chars, j)][ColumnOf(chars, j)] = chars[j]
  <2>1. PICK r \in 1 .. h, c \in 1 .. w : r = LineOf(chars, j) /\ c = ColumnOf(chars, j)
    BY <1>3
  <2>2. Matrix(s)[r][c] = cell((r - 1) * (w + 1) + c)
    BY <1>6
  <2>3. (r - 1) * (w + 1) + c <= h * (w + 1)
    <3>1. (r - 1) * (w + 1) <= (h - 1) * (w + 1)
      <4>1. r - 1 \in Nat /\ h - 1 \in Nat /\ w + 1 \in Nat /\ r - 1 <= h - 1
        OBVIOUS
      <4>2. (h - 1) * (w + 1) = (r - 1) * (w + 1) + (h - r) * (w + 1)
        OBVIOUS
      <4>3. (h - r) * (w + 1) \in Nat /\ (r - 1) * (w + 1) \in Nat
        OBVIOUS
      <4> QED BY <4>2, <4>3
    <3>2. (h - 1) * (w + 1) + (w + 1) = h * (w + 1)
      OBVIOUS
    <3>3. (r - 1) * (w + 1) \in Int /\ (h - 1) * (w + 1) \in Int
      OBVIOUS
    <3> QED BY <3>1, <3>2, <3>3
  <2>4. j \in K
    BY DEF KeptPlaces
  <2>5. cell((r - 1) * (w + 1) + c) = s[(r - 1) * (w + 1) + c]
    BY <1>2, <2>3 DEF cell
  <2> QED BY <1>2, <1>3, <2>1, <2>2, <2>4, <2>5
<1> QED BY <1>1, <1>5, <1>7, <1>8 DEF s

-----------------------------------------------------------------------------
(* The layouts that were read                                              *)

(* The layouts come in the order of their sections: while the file is read *)
(* there is one for each, and one that is well drawn is never refused.     *)
LayoutsUpTo(i) == {j \in 1 .. i : file[j].section = "layout"}
ArtsAreRead ==
  /\ at.section <= Len(file) + 1
  /\ phase \in Reads => Len(layouts) = Cardinality(LayoutsUpTo(at.section - 1))
  /\ \A i \in 1 .. at.section - 1 :
       file[i].section = "layout" /\ WellDrawn(file[i].art) /\ ~Overflows(file[i].header) =>
         /\ Cardinality(LayoutsUpTo(i)) \in 1 .. Len(layouts)
         /\ layouts[Cardinality(LayoutsUpTo(i))].matrix = Matrix(KeyString(file[i].art))

LEMMA LayoutsAreCounted ==
  ASSUME NEW i \in Nat
  PROVE  /\ Cardinality(LayoutsUpTo(i)) \in Nat
         /\ file[i + 1].section = "layout" => Cardinality(LayoutsUpTo(i + 1)) = Cardinality(LayoutsUpTo(i)) + 1
         /\ file[i + 1].section # "layout" => LayoutsUpTo(i + 1) = LayoutsUpTo(i)
<1>1. IsFiniteSet(LayoutsUpTo(i))
  <2>1. LayoutsUpTo(i) \subseteq 1 .. i /\ IsFiniteSet(1 .. i)
    BY FS_Interval DEF LayoutsUpTo
  <2> QED BY <2>1, FS_Subset
<1>2. file[i + 1].section # "layout" => LayoutsUpTo(i + 1) = LayoutsUpTo(i)
  BY DEF LayoutsUpTo
<1>3. ASSUME file[i + 1].section = "layout" PROVE Cardinality(LayoutsUpTo(i + 1)) = Cardinality(LayoutsUpTo(i)) + 1
  <2>1. LayoutsUpTo(i + 1) = LayoutsUpTo(i) \cup {i + 1} /\ i + 1 \notin LayoutsUpTo(i)
    BY <1>3 DEF LayoutsUpTo
  <2> QED BY <1>1, <2>1, FS_AddElement
<1> QED BY <1>1, <1>2, <1>3, FS_CardinalityType

LEMMA NextReadsArts == BindingInv /\ LayoutsAreRead /\ ArtsAreRead /\ [Next]_vars => ArtsAreRead'
<1> SUFFICES ASSUME BindingInv, LayoutsAreRead, ArtsAreRead, [Next]_vars PROVE ArtsAreRead'
  OBVIOUS
<1>1. PICK l \in Nat, a \in Nat : l = Len(file) /\ a + 1 = at.section
  <2>1. file \in Files /\ at \in [section : Nat \ {0}, line : Nat \ {0}]
    BY DEF BindingInv
  <2>2. at.section - 1 \in Nat /\ (at.section - 1) + 1 = at.section /\ Len(file) \in Nat
    BY <2>1, SectionsAre
  <2> QED BY <2>2
<1>2. layouts \in Seq(Records) /\ Len(layouts) \in Nat
  BY LenProperties DEF LayoutsAreRead
<1>3. ASSUME UNCHANGED <<file, layouts>>, at'.section = at.section, phase' \in Reads => phase \in Reads
      PROVE  ArtsAreRead'
  <2>1. \A i : LayoutsUpTo(i)' = LayoutsUpTo(i)
    BY <1>3 DEF LayoutsUpTo
  <2> QED BY <1>3, <2>1 DEF ArtsAreRead
<1>4. ASSUME UNCHANGED <<file, layouts>>, at'.section = at.section + 1, phase' \in Reads => phase \in Reads,
             at.section <= Len(file), file[at.section].section # "layout"
      PROVE  ArtsAreRead'
  <2>1. \A i : LayoutsUpTo(i)' = LayoutsUpTo(i)
    BY <1>4 DEF LayoutsUpTo
  <2>2. LayoutsUpTo(a + 1) = LayoutsUpTo(a)
    BY <1>1, <1>4, LayoutsAreCounted
  <2>3. at.section - 1 = a /\ at'.section - 1 = a + 1 /\ at'.section <= Len(file) + 1
    BY <1>1, <1>4
  <2>4. \A i \in 1 .. a + 1 : i \in 1 .. a \/ i = at.section
    BY <1>1
  <2>5. \A i \in 1 .. a :
          file[i].section = "layout" /\ WellDrawn(file[i].art) /\ ~Overflows(file[i].header) =>
            /\ Cardinality(LayoutsUpTo(i)) \in 1 .. Len(layouts)
            /\ layouts[Cardinality(LayoutsUpTo(i))].matrix = Matrix(KeyString(file[i].art))
    BY <2>3 DEF ArtsAreRead
  <2>6. phase' \in Reads => Len(layouts) = Cardinality(LayoutsUpTo(a))
    BY <1>4, <2>3 DEF ArtsAreRead
  <2> QED BY <1>4, <2>1, <2>2, <2>3, <2>4, <2>5, <2>6 DEF ArtsAreRead
<1>5. CASE ReadCommand
  <2>1. /\ UNCHANGED <<file, layouts>> /\ phase \in Reads /\ at.section <= Len(file)
        /\ at'.section = at.section + 1 /\ file[at.section].section # "layout"
    BY <1>5 DEF ReadCommand, Reading, NextSection, Reads
  <2> QED BY <1>4, <2>1
<1>6. CASE ReadBinding
  <2>1. /\ UNCHANGED <<file, layouts>> /\ phase \in Reads /\ at.section <= Len(file)
        /\ at'.section \in {at.section, at.section + 1} /\ file[at.section].section # "layout"
    BY <1>6 DEF ReadBinding, Reading, NextSection, Reads
  <2> QED BY <1>3, <1>4, <2>1
<1>7. CASE Probe
  <2>1. UNCHANGED <<file, layouts>> /\ phase \in Reads /\ at'.section = at.section
    <3>1. at \in [section : Nat \ {0}, line : Nat \ {0}]
      BY DEF BindingInv
    <3> QED BY <1>7, <3>1 DEF Probe, Reads
  <2> QED BY <1>3, <2>1
<1>8. CASE ReadLayout
  <2> DEFINE art == KeyString(Section.art)
  <2>1. /\ UNCHANGED file /\ phase \in Reads /\ at.section <= Len(file)
        /\ at'.section = at.section + 1 /\ Section.section = "layout"
    BY <1>8 DEF ReadLayout, Reading, NextSection, Section, Reads
  <2>2. /\ at.section - 1 = a /\ at'.section - 1 = a + 1 /\ at'.section <= Len(file) + 1
        /\ Section = file[a + 1] /\ Section.art \in Seq(Chars)
    <3>1. file \in Files /\ at.section \in 1 .. Len(file)
      BY <1>1, <2>1 DEF BindingInv
    <3>2. Section.art \in Seq(Chars)
      BY <2>1, <3>1, SectionsAre DEF Section
    <3> QED BY <1>1, <2>1, <3>2 DEF Section
  <2>3. \A i : LayoutsUpTo(i)' = LayoutsUpTo(i)
    BY <2>1 DEF LayoutsUpTo
  <2>4. PICK n \in Nat : n = Cardinality(LayoutsUpTo(a)) /\ n = Len(layouts) /\ n + 1 = Cardinality(LayoutsUpTo(a + 1))
    <3>1. Len(layouts) = Cardinality(LayoutsUpTo(a))
      BY <2>1, <2>2 DEF ArtsAreRead
    <3>2. Cardinality(LayoutsUpTo(a + 1)) = Cardinality(LayoutsUpTo(a)) + 1
      BY <2>1, <2>2, LayoutsAreCounted
    <3> QED BY <1>2, <3>1, <3>2
  <2>5. \A i \in 1 .. a :
          file[i].section = "layout" /\ WellDrawn(file[i].art) /\ ~Overflows(file[i].header) =>
            /\ Cardinality(LayoutsUpTo(i)) \in 1 .. n
            /\ layouts[Cardinality(LayoutsUpTo(i))].matrix = Matrix(KeyString(file[i].art))
    BY <2>2, <2>4 DEF ArtsAreRead
  <2>6. \A i \in 1 .. a + 1 : i \in 1 .. a \/ i = a + 1
    OBVIOUS
  <2>7. CASE phase' = "parse"
    <3> DEFINE layout == [label |-> Section.label, header |-> KeyString(Section.header),
                          header_rows |-> RowRatio(KeyString(Section.header)), matrix |-> Matrix(art)]
    <3>1. layouts' = Append(layouts, layout)
      BY <1>8, <2>7 DEF ReadLayout, Reading
    <3>2. layout.matrix = Matrix(art)
      OBVIOUS
    <3> HIDE DEF layout
    <3>3. /\ Len(layouts') = n + 1 /\ layouts'[n + 1].matrix = Matrix(art)
          /\ \A i \in 1 .. n : layouts'[i] = layouts[i]
      BY <1>2, <2>4, <3>1, <3>2
    <3>4. \A i \in 1 .. a :
            file[i].section = "layout" /\ WellDrawn(file[i].art) /\ ~Overflows(file[i].header) =>
              /\ Cardinality(LayoutsUpTo(i)) \in 1 .. n + 1
              /\ layouts'[Cardinality(LayoutsUpTo(i))].matrix = Matrix(KeyString(file[i].art))
      BY <2>5, <3>3
    <3>5. /\ Cardinality(LayoutsUpTo(a + 1)) \in 1 .. n + 1
          /\ layouts'[Cardinality(LayoutsUpTo(a + 1))].matrix = Matrix(KeyString(file[a + 1].art))
      BY <2>2, <2>4, <3>3
    <3> QED BY <2>1, <2>2, <2>3, <2>4, <2>6, <3>3, <3>4, <3>5 DEF ArtsAreRead
  <2>8. CASE phase' # "parse"
    <3>1. phase' \notin Reads /\ UNCHANGED layouts
      BY <1>8, <2>8 DEF ReadLayout, Reading, Reads
    <3>2. ~(WellDrawn(Section.art) /\ ~Overflows(Section.header))
      <4> SUFFICES ASSUME WellDrawn(Section.art), ~Overflows(Section.header) PROVE FALSE
        OBVIOUS
      <4>1. /\ ~Overflows(Section.art) /\ RowRatio(art) # 0 /\ ColRatio(art) # 0 /\ ~WritesOutside(art)
        BY <2>2, DrawnIsMatrix
      <4> HIDE DEF art
      <4>2. UNCHANGED phase
        BY <1>8, <4>1 DEF ReadLayout, art
      <4> QED BY <1>8, <2>8, <4>2 DEF ReadLayout, Reading
    <3> QED BY <2>1, <2>2, <2>3, <2>4, <2>5, <2>6, <3>1, <3>2 DEF ArtsAreRead
  <2> QED BY <2>7, <2>8
<1>9. CASE NotFound \/ Start \/ Free \/ Find \/ Calculate \/ RenderHeader \/ RenderWindows \/ RunPlugin
           \/ OpenPopup \/ Highlight \/ Enter \/ Leave \/ Restart \/ Resize \/ CleanUp
  <2>1. UNCHANGED <<file, layouts, at>> /\ phase' \notin Reads
    BY <1>9 DEF NotFound, Start, Free, FreeNcWindowData, Find, Calculate, RenderHeader, RenderWindows, RunPlugin,
                SendCommand, SelectWindow, FindTitle, OpenPopup, Highlight, Enter, Leave, Restart, Resize,
                CleanUp, parsing, Reads
  <2> QED BY <1>3, <2>1
<1>10. CASE UNCHANGED vars
  BY <1>3, <1>10 DEF vars, parsing
<1> QED BY <1>5, <1>6, <1>7, <1>8, <1>9, <1>10 DEF Next

(* For every file: an art that is well drawn becomes a layout, the one of  *)
(* its section, with every letter in the line and column where it was      *)
(* drawn, whatever blanks and empty lines stand around it.                 *)
THEOREM WellDrawnArtIsMatrix == Spec => []ArtIsMatrix
<1>1. Init => ArtsAreRead
  <2> SUFFICES ASSUME Init PROVE ArtsAreRead
    OBVIOUS
  <2>1. at.section = 1 /\ layouts = <<>> /\ file \in Files
    BY DEF Init
  <2>2. LayoutsUpTo(0) = {} /\ Cardinality(LayoutsUpTo(0)) = 0
    <3>1. LayoutsUpTo(0) = {}
      BY DEF LayoutsUpTo
    <3> QED BY <3>1, FS_EmptySet
  <2>3. Len(layouts) = 0 /\ Len(file) \in Nat
    BY <2>1, SectionsAre
  <2> QED BY <2>1, <2>2, <2>3 DEF ArtsAreRead
<1>2. BindingInv /\ ScreenInv /\ ArtsAreRead /\ [Next]_vars => ArtsAreRead'
  BY NextReadsArts DEF ScreenInv
<1>3. BindingInv /\ ArtsAreRead => ArtIsMatrix
  <2> SUFFICES ASSUME BindingInv, ArtsAreRead, NEW i \in 1 .. at.section - 1,
                      file[i].section = "layout", WellDrawn(file[i].art), ~Overflows(file[i].header)
               PROVE  LET art == file[i].art
                          n == Cardinality({j \in 1 .. i : file[j].section = "layout"})
                      IN /\ n <= Len(layouts) /\ Len(layouts[n].matrix) = Lines(art)
                         /\ \A r \in 1 .. Lines(art) : Len(layouts[n].matrix[r]) = Width(art)
                         /\ \A j \in LettersAt(art) :
                              layouts[n].matrix[LineOf(art, j)][ColumnOf(art, j)] = art[j]
    BY DEF ArtIsMatrix
  <2>1. i \in 1 .. Len(file) /\ file \in Files
    <3>1. at.section \in Nat /\ Len(file) \in Nat /\ at.section <= Len(file) + 1
      BY SectionsAre DEF BindingInv, ArtsAreRead
    <3> QED BY <3>1 DEF BindingInv
  <2>2. file[i].art \in Seq(Chars)
    BY <2>1, SectionsAre
  <2>3. Cardinality(LayoutsUpTo(i)) <= Len(layouts)
        /\ layouts[Cardinality(LayoutsUpTo(i))].matrix = Matrix(KeyString(file[i].art))
    BY DEF ArtsAreRead
  <2> QED BY <2>2, <2>3, DrawnIsMatrix DEF LayoutsUpTo
<1> QED BY <1>1, <1>2, <1>3, BindingInvariant, ScreenInvariant, PTL DEF Spec
=============================================================================
