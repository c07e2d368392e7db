------------------------------- MODULE Surfaces --------------------------------
(***************************************************************************)
(* The ways a call takes to its tool.  The model of the window agent is       *)
(* offered one catalogue of tools and arguments, MCP clients another.  The    *)
(* agent turns a call into requests to the REST routes, which pass it on to   *)
(* tools.dispatch or serve it themselves; MCP calls go to dispatch, or to the *)
(* server's own handlers; the REST console names any registered tool.  An     *)
(* argument is lost when some stage leaves it out, renames it, or hands it to *)
(* a handler that never looks at it.                                          *)
(*                                                                          *)
(* The arguments of a call are a function: the name an argument has by now -> *)
(* the name under which the caller gave it.                                   *)
(***************************************************************************)
EXTENDS Naturals, FiniteSets

CONSTANTS
    Extra,      \* bound on the optional arguments given at once
    Chosen      \* \in BOOLEAN sets: is a window chosen on the agent's console?

ASSUME SurfaceAssumption == Extra \in Nat /\ Chosen \subseteq BOOLEAN

Win    == {"window_uid", "window_index"}
Names  == Win \cup {"window_title"}
Elem   == {"selector", "element_id"} \cup Win
Grid   == {"window_index", "grid_width", "grid_height"}

(* An argument alone; and g's entries for the names that f leaves open, which   *)
(* is TLC's @@ with a definition that proofs can use.                          *)
Arg(name, value) == [a \in {name} |-> value]
f ++ g == [x \in DOMAIN f \cup DOMAIN g |-> IF x \in DOMAIN f THEN f[x] ELSE g[x]]

(* A tool as a catalogue offers it: what it requires, and what it may get. *)
Tool(needs, may) == [needs |-> needs, may |-> may]
Bare == Tool({}, {})
-------------------------------------------------------------------------------
(* The catalogue of the window agent. *)
AgentReads ==
    [list_windows |-> Bare,
     observe_window |-> Tool({}, {"window_index"}),
     get_element_tree |-> Tool({}, {"window_index"}),
     get_screen_description |-> Tool({}, Win),
     get_screen_sketch |-> Tool({}, Grid \cup {"ocr"}),
     get_screenshot |-> Tool({}, {"window_index"}),
     get_full_screenshot |-> Tool({}, Grid),
     get_visible_areas |-> Tool({"window_index"}, {})]

AgentPointer ==
    [click_at |-> Tool({"x", "y"}, {"button", "double"}),
     type_text |-> Tool({"text"}, {}),
     press_key |-> Tool({"keys"}, {}),
     scroll |-> Tool({}, {"clicks", "x", "y", "window_index"}),
     bring_to_foreground |-> Tool({"window_index"}, {})]

AgentComposites ==
    [find_element |-> Tool({"selector"}, Win),
     click_element |-> Tool({}, Elem \cup {"button", "count", "dry_run", "confirm_token"}),
     click_element_and_observe |-> Tool({}, Elem \cup {"button", "wait_after_ms", "since"}),
     type_and_observe |-> Tool({"text"}, {"wait_after_ms", "since", "window_uid"}),
     press_key_and_observe |-> Tool({"keys"}, {"wait_after_ms", "since", "window_uid"})]

AgentVerbs ==
    [right_click_element |-> Tool({}, Elem),
     double_click_element |-> Tool({}, Elem),
     select_option |-> Tool({}, Elem \cup {"option_name", "option_index"}),
     set_value |-> Tool({"value"}, Elem \cup {"clear_first"}),
     focus_element |-> Tool({}, Elem),
     invoke_element |-> Tool({}, Elem),
     clear_text |-> Tool({}, Elem)]

AgentMotions ==
    [key_into_element |-> Tool({"keys"}, Elem),
     hover_at |-> Tool({"x", "y"}, {"hover_ms"}),
     hover_element |-> Tool({}, Elem \cup {"hover_ms"}),
     drag |-> Tool({"from", "to"}, Win \cup {"modifiers", "duration_s"})]

AgentWaits ==
    [wait_for |-> Tool({"any_of"}, {"window_uid", "timeout_ms", "poll_ms"}),
     wait_idle |-> Tool({}, Win \cup {"quiet_ms", "timeout_ms"}),
     observe_window_diff |-> Tool({}, Win \cup {"since", "format"}),
     snapshot |-> Bare,
     snapshot_get |-> Tool({"snapshot_id"}, {}),
     snapshot_diff |-> Tool({"a", "b"}, {"format"}),
     snapshot_drop |-> Tool({"snapshot_id"}, {})]

AgentRecords ==
    [trace_start |-> Tool({}, {"label"}), trace_stop |-> Bare, trace_status |-> Bare,
     replay_start |-> Tool({"path"}, {"mode", "on_divergence"}),
     replay_step |-> Tool({"replay_id"}, {}),
     replay_status |-> Tool({"replay_id"}, {}),
     replay_stop |-> Tool({"replay_id"}, {}),
     load_scenario |-> Tool({"path"}, {}),
     assert_state |-> Tool({}, {"predicate", "predicates"})]

AgentOthers ==
    [get_budget_status |-> Bare, get_redaction_status |-> Bare,
     propose_action |-> Tool({"action"}, {"args"}),
     get_capabilities |-> Bare, get_monitors |-> Bare,
     get_screenshot_cropped |->
        Tool({}, Win \cup {"element_id", "padding_px", "max_width"}),
     get_ocr |-> Tool({}, Win \cup {"element_id"}),
     call_tool |-> Tool({"name"}, {"args"})]

AgentOffers ==
    AgentReads ++ AgentPointer ++ AgentComposites ++ AgentVerbs ++ AgentMotions
    ++ AgentWaits ++ AgentRecords ++ AgentOthers

(* Sent without being asked for, and switched on by a word of the task; every *)
(* other tool has to be requested.                                            *)
Basic ==
    {"list_windows", "observe_window", "get_element_tree", "find_element",
     "click_element", "type_text", "press_key", "scroll",
     "click_element_and_observe", "bring_to_foreground", "right_click_element",
     "double_click_element", "select_option", "set_value", "wait_idle",
     "type_and_observe", "press_key_and_observe", "get_screen_description"}
Keywords ==
    [drag |-> {"drag"}, hover |-> {"hover_at", "hover_element"},
     capture |-> {"get_full_screenshot"}, sketch |-> {"get_screen_sketch"},
     screenshot |-> {"get_full_screenshot", "get_screenshot"},
     ocr |-> {"get_ocr", "get_screen_description"},
     cropped |-> {"get_screenshot_cropped"}, occluded |-> {"get_visible_areas"},
     snapshot |-> {"snapshot", "snapshot_get", "snapshot_diff", "snapshot_drop"},
     diff |-> {"observe_window_diff", "snapshot_diff"}, loading |-> {"wait_for"},
     pixel |-> {"click_at"}, clear |-> {"clear_text"}, focus |-> {"focus_element"},
     invoke |-> {"invoke_element"},
     trace |-> {"trace_start", "trace_stop", "trace_status"},
     replay |-> {"replay_start", "replay_step", "replay_status", "replay_stop"},
     assert |-> {"assert_state"}, budget |-> {"get_budget_status"},
     redact |-> {"get_redaction_status"}, capabilities |-> {"get_capabilities"},
     monitors |-> {"get_monitors"}]

(* What the model is sent of a set of tools: those that exist. *)
Sendable(tools) == tools \cap DOMAIN AgentOffers
-------------------------------------------------------------------------------
(* The catalogue of the MCP server. *)
McpLegacy ==
    [list_windows |-> Bare,
     get_window_structure |-> Tool({}, Win \cup {"depth", "scope", "roles",
        "exclude_roles", "name_regex", "visible_only", "max_text_len",
        "prune_empty", "max_nodes", "page_cursor"}),
     get_screen_description |-> Tool({}, Win \cup {"mode", "max_tokens", "focus_element"}),
     get_screen_sketch |-> Tool({}, Grid),
     get_screenshot |-> Tool({}, {"window_index"})]

McpPointer ==
    [click_at |-> Tool({"x", "y"}, {"button", "double"}),
     type_text |-> Tool({"text"}, {}), press_key |-> Tool({"keys"}, {}),
     scroll |-> Tool({}, {"clicks", "x", "y"}),
     get_full_screenshot |-> Tool({}, Grid),
     get_visible_areas |-> Tool({"window_index"}, {}),
     bring_to_foreground |-> Tool({}, Win)]

McpElements ==
    [get_capabilities |-> Bare, get_monitors |-> Bare,
     find_element |-> Tool({"selector"}, Win),
     click_element |-> Tool({}, Elem \cup {"button", "count", "dry_run", "confirm_token"}),
     focus_element |-> Tool({}, Elem \cup {"dry_run"}),
     set_value |-> Tool({"value"}, Elem \cup {"clear_first", "dry_run"}),
     invoke_element |-> Tool({}, Elem \cup {"dry_run"}),
     select_option |-> Tool({}, Elem \cup {"option_name", "option_index", "dry_run"})]

McpObserve ==
    [observe_window |-> Tool({}, Win \cup {"since", "format", "depth", "changed_only"}),
     snapshot |-> Bare, snapshot_get |-> Tool({"snapshot_id"}, {}),
     snapshot_diff |-> Tool({"a", "b"}, {"format"}),
     snapshot_drop |-> Tool({"snapshot_id"}, {}),
     wait_for |-> Tool({"any_of"}, {"window_uid", "timeout_ms", "poll_ms"}),
     wait_idle |-> Tool({}, Win \cup {"quiet_ms", "timeout_ms", "poll_ms"})]

McpComposites ==
    [click_element_and_observe |-> Tool({}, Elem \cup
        {"button", "count", "wait_after_ms", "since", "dry_run"}),
     type_and_observe |-> Tool({"text"}, {"wait_after_ms", "since", "window_uid"}),
     press_key_and_observe |-> Tool({"keys"}, {"wait_after_ms", "since", "window_uid"}),
     get_screenshot_cropped |->
        Tool({}, Win \cup {"element_id", "bbox", "padding_px", "max_width"})]

McpRecords ==
    [trace_start |-> Tool({}, {"label"}), trace_stop |-> Bare, trace_status |-> Bare,
     replay_start |-> Tool({"path"}, {"mode", "on_divergence"}),
     replay_step |-> Tool({"replay_id"}, {}),
     replay_status |-> Tool({"replay_id"}, {}),
     replay_stop |-> Tool({"replay_id"}, {}),
     load_scenario |-> Tool({"path"}, {}),
     get_budget_status |-> Bare, get_redaction_status |-> Bare,
     propose_action |-> Tool({"action"}, {"args"}),
     assert_state |-> Tool({}, {"predicate", "predicates"})]

McpVerbs ==
    [hover_at |-> Tool({"x", "y"}, {"hover_ms"}),
     hover_element |-> Tool({}, Elem \cup {"hover_ms"}),
     right_click_element |-> Tool({}, Elem),
     double_click_element |-> Tool({}, Elem),
     drag |-> Tool({"from", "to"}, Win \cup {"modifiers", "duration_s"}),
     key_into_element |-> Tool({"keys"}, Elem),
     clear_text |-> Tool({}, Elem),
     get_ocr |-> Tool({}, Win \cup {"element_id", "bbox"})]

McpOffers ==
    McpLegacy ++ McpPointer ++ McpElements ++ McpObserve ++ McpComposites
    ++ McpRecords ++ McpVerbs
-------------------------------------------------------------------------------
(* The registry: what each handler reads of its arguments. *)
Acts == Elem \cup {"window_title", "dry_run", "confirm_token"}

ReadReads ==
    [list_windows |-> {}, get_capabilities |-> {}, get_monitors |-> {},
     find_element |-> Names \cup {"selector"},
     get_window_structure |-> Names \cup {"depth", "scope", "roles",
        "exclude_roles", "name_regex", "visible_only", "max_text_len",
        "prune_empty", "max_nodes", "page_cursor"},
     get_screenshot |-> Names, get_visible_areas |-> Names,
     observe_window |-> Names \cup {"since", "format", "depth", "changed_only"},
     get_screenshot_cropped |->
        Names \cup {"element_id", "bbox", "padding_px", "max_width"},
     get_ocr |-> Names \cup {"element_id", "bbox"},
     get_screen_description |-> Names \cup {"max_tokens", "focus_element"}]

VerbReads ==
    [click_element |-> Acts \cup {"button", "count"}, focus_element |-> Acts,
     set_value |-> Acts \cup {"value", "clear_first"}, invoke_element |-> Acts,
     select_option |-> Acts \cup {"option_name", "option_index"},
     right_click_element |-> Acts \cup {"count"},
     double_click_element |-> Acts \cup {"button"},
     hover_element |-> Acts \cup {"hover_ms"},
     key_into_element |-> Acts \cup {"keys"}, clear_text |-> Acts,
     drag |-> Names \cup {"from", "to", "modifiers", "duration_s", "confirm_token"},
     click_element_and_observe |->
        Acts \cup {"button", "count", "wait_after_ms", "since"}]

PointReads ==
    [click_at |-> {"x", "y", "button", "double"}, type_text |-> {"text"},
     press_key |-> {"keys"}, scroll |-> {"clicks", "x", "y"},
     bring_to_foreground |-> Names,
     type_and_observe |-> {"text", "wait_after_ms", "since"},
     press_key_and_observe |-> {"keys", "wait_after_ms", "since"},
     hover_at |-> {"x", "y", "hover_ms"}, right_click_at |-> {"x", "y", "double"},
     double_click_at |-> {"x", "y", "button"}]

OtherReads ==
    [snapshot |-> {}, snapshot_get |-> {"snapshot_id"},
     snapshot_diff |-> {"a", "b", "format"}, snapshot_drop |-> {"snapshot_id"},
     wait_for |-> {"any_of", "window_uid", "timeout_ms", "poll_ms"},
     wait_idle |-> Names \cup {"quiet_ms", "timeout_ms", "poll_ms"},
     trace_start |-> {"label"}, trace_stop |-> {}, trace_status |-> {},
     replay_start |-> {"path", "mode", "on_divergence"},
     replay_step |-> {"replay_id"}, replay_status |-> {"replay_id"},
     replay_stop |-> {"replay_id"}, load_scenario |-> {"path"},
     assert_state |-> {"predicate", "predicates"},
     get_budget_status |-> {}, get_redaction_status |-> {},
     propose_action |-> {"action", "args"}]

Registry == ReadReads ++ VerbReads ++ PointReads ++ OtherReads

InputTools ==
    {"click_at", "type_text", "press_key", "scroll", "bring_to_foreground",
     "click_element", "focus_element", "set_value", "invoke_element",
     "select_option", "hover_at", "hover_element", "right_click_at",
     "right_click_element", "double_click_at", "double_click_element", "drag",
     "key_into_element", "clear_text", "click_element_and_observe",
     "type_and_observe", "press_key_and_observe"}

(* What a surface serves itself, past tools.dispatch. *)
RestDirect ==
    [get_screen_sketch |-> Names \cup Grid \cup {"ocr", "structured"},
     get_screenshot |-> Names, get_visible_areas |-> Names,
     get_full_screenshot |-> Names \cup Grid,
     bring_to_foreground |-> Names]
McpDirect ==
    [get_screen_sketch |-> Grid \cup {"structured"}, get_full_screenshot |-> Grid]
-------------------------------------------------------------------------------
Same(given) == [a \in given |-> a]
Keep(given, some) == Same(given \cap some)

(* _win_params: one selector, the most precise; the window chosen on the      *)
(* console when the call names none.                                          *)
WinParams(given, chosen) ==
    IF "window_uid" \in given THEN Same({"window_uid"})
    ELSE IF "window_index" \in given THEN Same({"window_index"})
    ELSE IF "window_title" \in given THEN Same({"window_title"})
    ELSE IF chosen THEN Arg("window_uid", "default") ELSE <<>>

(* A POST body is what the model wrote, with the chosen window's position.    *)
Body(given, chosen) ==
    Same(given) ++ IF given \cap Names = {} /\ chosen
                   THEN Arg("window_index", "default") ELSE <<>>

Request(route, params) == [route |-> route, params |-> params]

(* The GETs about one window, and what each takes besides the window. *)
Gets ==
    [get_element_tree |-> [route |-> "structure", extra |-> {}],
     get_screen_description |-> [route |-> "description", extra |-> {}],
     get_screen_sketch |->
        [route |-> "sketch", extra |-> {"grid_width", "grid_height", "ocr"}],
     get_screenshot |-> [route |-> "screenshot", extra |-> {}],
     get_full_screenshot |->
        [route |-> "full_screenshot", extra |-> {"grid_width", "grid_height"}],
     get_visible_areas |-> [route |-> "visible_areas", extra |-> {}],
     bring_to_foreground |-> [route |-> "bring_to_foreground", extra |-> {}],
     find_element |-> [route |-> "find_element", extra |-> {"selector"}],
     observe_window_diff |-> [route |-> "observe", extra |-> {"since", "format"}],
     get_screenshot_cropped |->
        [route |-> "screenshot_cropped",
         extra |-> {"element_id", "padding_px", "max_width", "bbox"}],
     get_ocr |-> [route |-> "ocr", extra |-> {"element_id", "bbox"}]]

(* The POSTs of element verbs, drag, composites and wait_idle. *)
Posts ==
    [click_element |-> "element_click", focus_element |-> "element_focus",
     invoke_element |-> "element_invoke", set_value |-> "element_set_value",
     select_option |-> "element_select",
     right_click_element |-> "element_right_click",
     double_click_element |-> "element_double_click", hover_element |-> "hover",
     clear_text |-> "element_clear_text", key_into_element |-> "element_key",
     drag |-> "drag", wait_idle |-> "wait_idle",
     click_element_and_observe |-> "element_click_and_observe",
     type_and_observe |-> "type_and_observe",
     press_key_and_observe |-> "key_and_observe"]

(* The rest, and the arguments each one picks out. *)
Picks ==
    [list_windows |-> [route |-> "windows", keep |-> {}],
     get_capabilities |-> [route |-> "capabilities", keep |-> {}],
     get_monitors |-> [route |-> "monitors", keep |-> {}],
     hover_at |-> [route |-> "hover", keep |-> {"x", "y", "hover_ms"}],
     wait_for |-> [route |-> "wait_for",
                   keep |-> {"any_of", "window_uid", "timeout_ms", "poll_ms"}],
     snapshot |-> [route |-> "snapshot", keep |-> {}],
     snapshot_get |-> [route |-> "snapshot_get", keep |-> {"snapshot_id"}],
     snapshot_diff |-> [route |-> "snapshot_diff", keep |-> {"a", "b", "format"}],
     snapshot_drop |-> [route |-> "snapshot_drop", keep |-> {"snapshot_id"}],
     trace_start |-> [route |-> "trace_start", keep |-> {"label"}],
     trace_stop |-> [route |-> "trace_stop", keep |-> {}],
     trace_status |-> [route |-> "trace_status", keep |-> {}],
     replay_start |->
        [route |-> "replay_start", keep |-> {"path", "mode", "on_divergence"}],
     replay_step |-> [route |-> "replay_step", keep |-> {"replay_id"}],
     replay_status |-> [route |-> "replay_status", keep |-> {"replay_id"}],
     replay_stop |-> [route |-> "replay_stop", keep |-> {"replay_id"}],
     load_scenario |-> [route |-> "scenario_load", keep |-> {"path"}],
     get_budget_status |-> [route |-> "budget_status", keep |-> {}],
     get_redaction_status |-> [route |-> "redaction_status", keep |-> {}],
     propose_action |-> [route |-> "propose_action", keep |-> {"action", "args"}]]

(* Coordinates, text and keys go to one route, which has names of its own.    *)
ActionParams(tool, given) ==
    Arg("action", tool) ++
    (IF tool = "click_at" THEN Keep(given, {"x", "y", "button", "double"})
     ELSE IF tool = "scroll" THEN Keep(given, {"x", "y", "clicks"})
     ELSE IF tool = "type_text" THEN Arg("value", "text") ELSE Arg("value", "keys"))

(* predicate, or else predicates, goes out as predicate. *)
Predicate(given) ==
    IF "predicate" \in given THEN Arg("predicate", "predicate")
    ELSE IF "predicates" \in given THEN Arg("predicate", "predicates") ELSE <<>>

(* What the agent sends for a call: observe_window is two requests, call_tool *)
(* is the console, and get_visible_areas and bring_to_foreground are refused   *)
(* on the spot when no window is known.                                       *)
AgentSends(tool, given, chosen) ==
    LET window == WinParams(given, chosen)
    IN  IF tool = "observe_window"
        THEN {Request("sketch", window), Request("description", window)}
        ELSE IF tool \in {"get_visible_areas", "bring_to_foreground"} /\ window = <<>>
        THEN {}
        ELSE IF tool \in DOMAIN Gets
        THEN {Request(Gets[tool].route, window ++ Keep(given, Gets[tool].extra))}
        ELSE IF tool \in DOMAIN Posts
        THEN {Request(Posts[tool], Body(given, chosen))}
        ELSE IF tool \in DOMAIN Picks
        THEN {Request(Picks[tool].route, Keep(given, Picks[tool].keep))}
        ELSE IF tool = "assert_state" THEN {Request("assert_state", Predicate(given))}
        ELSE IF tool = "call_tool" THEN {Request("tool", Keep(given, {"name", "args"}))}
        ELSE {Request("action", ActionParams(tool, given))}
-------------------------------------------------------------------------------
Arrival(tool, args, direct) == [tool |-> tool, args |-> args, direct |-> direct]

(* The GET routes that hand their query to dispatch. *)
QueryRoutes ==
    [structure |-> "get_window_structure", description |-> "get_screen_description",
     find_element |-> "find_element", observe |-> "observe_window",
     screenshot_cropped |-> "get_screenshot_cropped", ocr |-> "get_ocr"]

(* The routes that hand dispatch their JSON body, or the id in their path. *)
BodyRoutes ==
    [element_click |-> "click_element", element_focus |-> "focus_element",
     element_set_value |-> "set_value", element_invoke |-> "invoke_element",
     element_select |-> "select_option", snapshot |-> "snapshot",
     snapshot_get |-> "snapshot_get", snapshot_diff |-> "snapshot_diff",
     snapshot_drop |-> "snapshot_drop", wait_for |-> "wait_for",
     wait_idle |-> "wait_idle",
     element_click_and_observe |-> "click_element_and_observe",
     type_and_observe |-> "type_and_observe",
     key_and_observe |-> "press_key_and_observe"]

LaterRoutes ==
    [trace_start |-> "trace_start", replay_start |-> "replay_start",
     replay_step |-> "replay_step", replay_status |-> "replay_status",
     replay_stop |-> "replay_stop", scenario_load |-> "load_scenario",
     assert_state |-> "assert_state", propose_action |-> "propose_action",
     element_right_click |-> "right_click_element",
     element_double_click |-> "double_click_element", drag |-> "drag",
     element_key |-> "key_into_element", element_clear_text |-> "clear_text"]

(* The routes that pass no argument on. *)
BareRoutes ==
    [windows |-> "list_windows", capabilities |-> "get_capabilities",
     monitors |-> "get_monitors", trace_stop |-> "trace_stop",
     trace_status |-> "trace_status", budget_status |-> "get_budget_status",
     redaction_status |-> "get_redaction_status"]

DirectRoutes ==
    [sketch |-> "get_screen_sketch", screenshot |-> "get_screenshot",
     full_screenshot |-> "get_full_screenshot",
     visible_areas |-> "get_visible_areas",
     bring_to_foreground |-> "bring_to_foreground"]

(* /api/action: the argument takes back the name its tool knows it by. *)
ActionArrives(params) ==
    LET tool == params["action"]
        Pick(some) == [a \in DOMAIN params \cap some |-> params[a]]
    IN  CASE tool = "click_at"  -> Pick({"x", "y", "button", "double"})
          [] tool = "type_text" -> Arg("text", params["value"])
          [] tool = "press_key" -> Arg("keys", params["value"])
          [] tool = "scroll"    -> Pick(DOMAIN params)

(* Mutant of HoverTool: a point in the body is enough. *)
HoverPoint(params) ==
    IF {"x", "y"} \subseteq DOMAIN params THEN "hover_at" ELSE "hover_element"

(* /api/hover serves two tools. *)
HoverTool(params) ==
    IF {"x", "y"} \subseteq DOMAIN params
       /\ DOMAIN params \cap {"selector", "element_id"} = {}
    THEN "hover_at" ELSE "hover_element"

Forwarding == QueryRoutes ++ BodyRoutes ++ LaterRoutes

Routed(r) ==
    IF r.route \in DOMAIN Forwarding
    THEN Arrival(Forwarding[r.route], r.params, FALSE)
    ELSE IF r.route \in DOMAIN BareRoutes
    THEN Arrival(BareRoutes[r.route], <<>>, FALSE)
    ELSE IF r.route \in DOMAIN DirectRoutes
    THEN Arrival(DirectRoutes[r.route], r.params, TRUE)
    ELSE IF r.route = "hover" THEN Arrival(HoverTool(r.params), r.params, FALSE)
    ELSE Arrival(r.params["action"], ActionArrives(r.params), FALSE)

(* MCPServer._dispatch: the registry first, then its own handlers. *)
McpArrives(tool, given) ==
    Arrival(tool, Same(given), tool \notin DOMAIN Registry)
-------------------------------------------------------------------------------
VARIABLES
    stage,      \* idle, sent, arrived
    surface,    \* agent, mcp
    tool, given,  \* the call as its caller made it
    sent,       \* the requests on their way
    arrived     \* the calls that reached a handler

surfaceVars == <<stage, surface, tool, given, sent, arrived>>

SurfaceInit ==
    /\ stage = "idle" /\ surface = "agent"
    /\ tool = "list_windows" /\ given = {}
    /\ sent = {} /\ arrived = {}

(* The arguments a caller may give: the required ones and a few others; one   *)
(* way to name the window; a point or an element for a hover.                 *)
Givable(offer) ==
    {offer.needs \cup s :
        s \in {x \in SUBSET offer.may :
                  /\ Cardinality(x) <= Extra
                  /\ Cardinality(x \cap Names) <= 1
                  /\ ~ {"predicate", "predicates"} \subseteq x}}

AgentCalls ==
    /\ stage = "idle"
    /\ surface' = "agent"
    /\ \E t \in DOMAIN AgentOffers \ {"call_tool"}, chosen \in Chosen :
       \E g \in Givable(AgentOffers[t]), stray \in SUBSET {"x", "y"} :
          /\ stray # {} => t = "hover_element" /\ g \cap {"selector", "element_id"} # {}
          /\ tool' = t /\ given' = g
          /\ sent' = AgentSends(t, g \cup stray, chosen)
    /\ stage' = "sent"
    /\ UNCHANGED arrived

(* call_tool, and the console of the web page: POST /api/tool/<name>, any name,   *)
(* with any of the arguments its handler reads.                              *)
ConsoleCalls ==
    /\ stage = "idle"
    /\ surface' = "console"
    /\ \E t \in DOMAIN Registry :
       \E g \in Givable(Tool({}, Registry[t])) :
          /\ tool' = t /\ given' = g
          /\ arrived' = {Arrival(t, Same(g), FALSE)}
    /\ stage' = "arrived"
    /\ UNCHANGED sent

McpCalls ==
    /\ stage = "idle"
    /\ surface' = "mcp"
    /\ \E t \in DOMAIN McpOffers :
       \E g \in Givable(McpOffers[t]) :
          /\ tool' = t /\ given' = g
          /\ arrived' = {McpArrives(t, g)}
    /\ stage' = "arrived"
    /\ UNCHANGED sent

RestServes ==
    /\ stage = "sent"
    /\ arrived' = {Routed(r) : r \in sent}
    /\ stage' = "arrived"
    /\ UNCHANGED <<surface, tool, given, sent>>

NextCall ==
    /\ stage = "arrived"
    /\ stage' = "idle" /\ surface' = "agent"
    /\ tool' = "list_windows" /\ given' = {}
    /\ sent' = {} /\ arrived' = {}

SurfaceNext == AgentCalls \/ ConsoleCalls \/ McpCalls \/ RestServes \/ NextCall
SurfaceSpec == SurfaceInit /\ [][SurfaceNext]_surfaceVars
-------------------------------------------------------------------------------
(* The tool that carries out a call of the agent's catalogue. *)
Alias ==
    [get_element_tree |-> {"get_window_structure"},
     observe_window_diff |-> {"observe_window"},
     observe_window |-> {"get_screen_sketch", "get_screen_description"}]
Meant ==
    IF surface = "agent" /\ tool \in DOMAIN Alias THEN Alias[tool] ELSE {tool}

ReadBy(a) ==
    IF ~ a.direct THEN Registry[a.tool]
    ELSE IF surface = "mcp" THEN McpDirect[a.tool] ELSE RestDirect[a.tool]

(* The offers nothing honours: the scroll goes to its point whatever window is *)
(* named, what is observed after typing is the focused window, and a           *)
(* description is always the combined one.                                     *)
Unread ==
    {<<"agent", "scroll", "window_index">>, <<"mcp", "get_screen_description", "mode">>}
    \cup {"agent", "mcp"} \X {"type_and_observe", "press_key_and_observe"}
                         \X {"window_uid"}

(* Every call of either catalogue reaches the tool it names, with every        *)
(* argument it was given, each under the name that tool reads it by; only the   *)
(* offers of Unread are made in vain.  A call that acts is known to act, so     *)
(* that the cache is cleared after it; and no word of a task promises the model *)
(* a tool that does not exist.  Four tables of names in four files and two      *)
(* schemas must agree for it.                                                  *)
CallsArriveWhole ==
    /\ LET promised == Basic \cup UNION {Keywords[k] : k \in DOMAIN Keywords}
       IN  Sendable(promised) = promised
    /\ stage = "arrived" /\ arrived # {} =>
       /\ {a.tool : a \in arrived} = Meant
       /\ \A a \in arrived :
             a.tool \in DOMAIN VerbReads \cup DOMAIN PointReads => a.tool \in InputTools
       /\ \A g \in given : <<surface, tool, g>> \notin Unread =>
             \E a \in arrived : \E n \in DOMAIN a.args \cap ReadBy(a) :
                a.args[n] = g /\ (n = g \/ {n, g} = {"predicate", "predicates"})
===============================================================================
