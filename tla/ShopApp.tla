-------------------------------- MODULE ShopApp --------------------------------
(***************************************************************************)
(* The mock shop as its app shows it (MainActivity.kt): which page leads   *)
(* where, what the buttons change, and the price in the cart.  The query   *)
(* and the title of the selected product are only displayed.               *)
(***************************************************************************)
EXTENDS Naturals

VARIABLES page, spec, coupon

appVars == <<page, spec, coupon>>

AppInit == page = "home" /\ spec = FALSE /\ coupon = FALSE

\* the buttons that show another page
Buttons == {<<"home", "search">>, <<"home", "results">>, <<"search", "results">>,
            <<"results", "detail">>, <<"detail", "coupons">>, <<"coupons", "detail">>,
            <<"detail", "cart">>, <<"cart", "order_confirm">>,
            <<"order_confirm", "payment">>}

Press == /\ \E b \in Buttons : page = b[1] /\ page' = b[2]
         /\ UNCHANGED <<spec, coupon>>

\* the dialog of the detail page
ChooseSpec == page = "detail" /\ spec' = TRUE /\ UNCHANGED <<page, coupon>>

Claim == page = "coupons" /\ coupon' = TRUE /\ UNCHANGED <<page, spec>>

\* onBackPressed; on the first page it leaves the app
Previous == {<<"search", "home">>, <<"results", "search">>, <<"detail", "results">>,
             <<"coupons", "detail">>, <<"cart", "detail">>, <<"order_confirm", "cart">>,
             <<"payment", "order_confirm">>}

BackPressed == /\ \E b \in Previous : page = b[1] /\ page' = b[2]
               /\ UNCHANGED <<spec, coupon>>

CartPrice == IF coupon THEN 1090 ELSE 1290

AppNext == Press \/ ChooseSpec \/ Claim \/ BackPressed
AppSpec == AppInit /\ [][AppNext]_appVars
=============================================================================
