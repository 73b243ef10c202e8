------------------------------- MODULE Groups -------------------------------
(***************************************************************************)
(* Groups, their printer permits, and what a print costs (db/crud/group.py,*)
(* api/routes/group.py, core/utils.py, the computation in                  *)
(* api/routes/print.py and the list of api/routes/printer.py).  A custom   *)
(* price is a float, so prices are tenths of a cent here; a cost is whole  *)
(* cents, as round_money leaves it.  The routes accept a negative price;   *)
(* the model is of an installation that sets none.                         *)
(***************************************************************************)
EXTENDS Integers, FiniteSets, FiniteSetsExt

CONSTANTS AllUsers, AllGroups, AllPrinters,
          PriceLists,   \* custom prices of a permit: colour mode -> price or NoPrice
          Settings,     \* what PATCH /printer/{name} may make of a printer
          Documents,    \* pages of the files there are to print
          Options       \* print options: [ranges, up, copies, mode]

NoPrice == -1
Modes   == {"bw", "color"}

ASSUME GroupAssumption ==
    /\ PriceLists \subseteq [Modes -> Nat \cup {NoPrice}]
    /\ Settings \subseteq [active : BOOLEAN, restricted : BOOLEAN, colour : BOOLEAN,
                           price : [Modes -> Nat]]
    /\ Documents \subseteq Nat \ {0}
    /\ \A o \in Options : /\ o.up \in Nat \ {0} /\ o.copies \in Nat \ {0}
                          /\ o.mode \in Modes /\ o.ranges \subseteq Int \X Int

VARIABLES people,     \* User rows that exist
          groups,     \* Group rows
          members,    \* UserGroup rows: <<user, group>>
          permits,    \* GroupPrinterPermit rows: <<group, printer>> -> custom prices
          printers    \* Printer rows -> their settings

groupVars == <<people, groups, members, permits, printers>>

\* Any arrangement of groups, members, permits and printers: the routes make them all.
GroupInit ==
    /\ people = AllUsers
    /\ groups \in SUBSET AllGroups
    /\ members \in SUBSET (people \X groups)
    /\ permits \in UNION {[K -> PriceLists] : K \in SUBSET (groups \X AllPrinters)}
    /\ printers \in [AllPrinters -> Settings]

-----------------------------------------------------------------------------
(* Pages and prices.                                                         *)

\* count_pages_in_range: a page named twice counts once; a part that is empty,
\* begins before the first page or ends after the last one makes it 0.
CountPages(ranges, total) ==
    IF \E r \in ranges : r[1] > r[2] \/ r[1] < 1 \/ r[2] > total THEN 0
    ELSE Cardinality(UNION {r[1] .. r[2] : r \in ranges})

\* "all" is written as no ranges; a choice that comes to no page is refused.
PagesOf(ranges, total) == IF ranges = {} THEN total ELSE CountPages(ranges, total)

\* math.ceil(pages / number_up) * copies: the pages of the job.
JobPages(opts, total) ==
    LET pages == PagesOf(opts.ranges, total)
    IN  ((pages + opts.up - 1) \div opts.up) * opts.copies

PermitsOf(u, p) == {k \in DOMAIN permits : <<u, k[1]>> \in members /\ k[2] = p}
CustomPrices(u, p, mode) == {permits[k][mode] : k \in PermitsOf(u, p)} \ {NoPrice}

\* Mutant: a price of nothing is taken for no price.
PositivePrice(u, p, mode) ==
    LET own == CustomPrices(u, p, mode) \ {0}
    IN  IF own = {} THEN printers[p].price[mode] ELSE Min(own)

\* get_effective_prices, and the printer's own price where it gives none.
Price(u, p, mode) ==
    LET own == CustomPrices(u, p, mode)
    IN  IF own = {} THEN printers[p].price[mode] ELSE Min(own)

\* Decimal.quantize(0.01, ROUND_HALF_UP)
RoundMoney(tenths) == (tenths + 5) \div 10

Cost(u, p, total, opts) == RoundMoney(JobPages(opts, total) * Price(u, p, opts.mode))

\* The print route never asks whether the printer is active.
MayPrint(u, p, mode) ==
    /\ p \in DOMAIN printers
    /\ printers[p].restricted => PermitsOf(u, p) # {}
    /\ mode = "color" => printers[p].colour

\* get_accessible_printers
Listed(u) == {p \in DOMAIN printers : /\ printers[p].active
                                      /\ printers[p].restricted => PermitsOf(u, p) # {}}

-----------------------------------------------------------------------------
(* The routes of groups, and the deletions that reach them by cascade.       *)

Without(f, keys) == [k \in DOMAIN f \ keys |-> f[k]]

\* Names are unique: one that is taken is a 409.
CreateGroup(g) ==
    /\ g \notin groups /\ groups' = groups \cup {g}
    /\ UNCHANGED <<people, members, permits, printers>>

DeleteGroup(g) ==
    /\ g \in groups /\ groups' = groups \ {g}
    /\ members' = {m \in members : m[2] # g}
    /\ permits' = Without(permits, {k \in DOMAIN permits : k[1] = g})
    /\ UNCHANGED <<people, printers>>

AddMember(g, u) ==
    /\ g \in groups /\ u \in people
    /\ members' = members \cup {<<u, g>>}
    /\ UNCHANGED <<people, groups, permits, printers>>

RemoveMember(g, u) ==
    /\ g \in groups /\ <<u, g>> \in members
    /\ members' = members \ {<<u, g>>}
    /\ UNCHANGED <<people, groups, permits, printers>>

\* POST makes the permit or overwrites the one there is, PATCH overwrites it.
SetPermit(g, p, list) ==
    /\ g \in groups /\ p \in DOMAIN printers
    /\ permits' = [k \in DOMAIN permits \cup {<<g, p>>} |->
                      IF k = <<g, p>> THEN list ELSE permits[k]]
    /\ UNCHANGED <<people, groups, members, printers>>

RemovePermit(g, p) ==
    /\ <<g, p>> \in DOMAIN permits
    /\ permits' = Without(permits, {<<g, p>>})
    /\ UNCHANGED <<people, groups, members, printers>>

UpdatePrinter(p, settings) ==
    /\ p \in DOMAIN printers
    /\ printers' = [printers EXCEPT ![p] = settings]
    /\ UNCHANGED <<people, groups, members, permits>>

RemovePrinter(p) ==
    /\ p \in DOMAIN printers
    /\ printers' = Without(printers, {p})
    /\ permits' = Without(permits, {k \in DOMAIN permits : k[2] = p})
    /\ UNCHANGED <<people, groups, members>>

RemoveUser(u) ==
    /\ u \in people /\ people' = people \ {u}
    /\ members' = {m \in members : m[1] # u}
    /\ UNCHANGED <<groups, permits, printers>>

GroupNext ==
    \/ \E g \in AllGroups :
          \/ CreateGroup(g) \/ DeleteGroup(g)
          \/ \E u \in AllUsers : AddMember(g, u) \/ RemoveMember(g, u)
          \/ \E p \in AllPrinters :
                (\E list \in PriceLists : SetPermit(g, p, list)) \/ RemovePermit(g, p)
    \/ \E p \in AllPrinters :
          (\E s \in Settings : UpdatePrinter(p, s)) \/ RemovePrinter(p)
    \/ \E u \in AllUsers : RemoveUser(u)

-----------------------------------------------------------------------------
\* Nobody pays more than the rules say: no choice of pages costs more than the
\* whole file, at the custom price of any group of the user that has one for this
\* printer and mode, free included, and at the printer's own price only when none
\* has; and every printer in a user's list is one that the user may print on.
NobodyOverpays ==
    \A u \in people, p \in DOMAIN printers :
       /\ p \in Listed(u) => MayPrint(u, p, "bw")
       /\ \A d \in Documents, o \in Options :
             LET whole  == ((d + o.up - 1) \div o.up) * o.copies
                 priced == {k \in DOMAIN permits : /\ <<u, k[1]>> \in members /\ k[2] = p
                                                   /\ permits[k][o.mode] # NoPrice}
             IN  /\ \A k \in priced : Cost(u, p, d, o) <= RoundMoney(whole * permits[k][o.mode])
                 /\ priced = {} => Cost(u, p, d, o) <= RoundMoney(whole * printers[p].price[o.mode])
=============================================================================
