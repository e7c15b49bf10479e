------------------------------ MODULE UiShell ------------------------------
(***************************************************************************)
(* The shell around the console's pages, in the browser: the providers of  *)
(* the theme, the direction, the font and the layout (context/), the       *)
(* sidebar (components/ui/sidebar.tsx, components/layout), the settings    *)
(* drawer (config-drawer.tsx), the theme switch and the command menu.      *)
(* A preference is a state of the page and a cookie: what is mounted later *)
(* begins with the cookies (lib/cookies.ts).                               *)
(***************************************************************************)
CONSTANTS Fonts,       \* config/fonts
          DefaultFont  \* the first of them

\* getCookie of a name that has none.
NoCookie == ""

ShellParameters == DefaultFont \in Fonts /\ NoCookie \notin Fonts

VARIABLES pref,    \* the preferences in effect
          shown,   \* the layout is mounted, the sidebar's sheet or the menu open
          class,   \* the theme class of the document
          cookies, \* the cookies of the site, NoCookie when there is none
          expired, \* history: preferences whose cookie expired while in effect
          device   \* the colour scheme of the system, and whether it is a phone

vars == <<pref, shown, class, cookies, expired, device>>

Defaults == [theme |-> "system", dir |-> "ltr", font |-> DefaultFont,
             collapsible |-> "icon", variant |-> "inset", sidebar |-> "true"]

LayoutPrefs == {"collapsible", "variant", "sidebar"}

\* getCookie(name) || default
Saved(p) == IF cookies[p] = NoCookie THEN Defaults[p] ELSE cookies[p]

Resolved(theme) == IF theme = "system" THEN device.scheme ELSE theme

Init ==
    /\ cookies = [p \in DOMAIN Defaults |-> NoCookie]
    /\ pref = Defaults
    /\ shown = {"layout"}
    /\ expired = {}
    /\ device \in [scheme : {"light", "dark"}, phone : BOOLEAN]
    /\ class = Resolved("system")

\* The values f has, those of new instead where it has some.
With(f, new) == [p \in DOMAIN f |-> IF p \in DOMAIN new THEN new[p] ELSE f[p]]

\* State and cookies get new values; a new theme is put on the document by the
\* effect of its provider.
Apply(new, saved) ==
    /\ pref' = With(pref, new)
    /\ cookies' = With(cookies, saved)
    /\ class' = IF pref'.theme = pref.theme THEN class ELSE Resolved(pref'.theme)
    /\ expired' = expired \ DOMAIN new
    /\ UNCHANGED device

\* setTheme, setDir, setCollapsible, setVariant, setOpen: the state and the
\* cookie.
Set(new) == Apply(new, new)

Show(v) == shown' = v /\ UNCHANGED <<pref, class, cookies, expired, device>>

Mounted == "layout" \in shown

-----------------------------------------------------------------------------
(* ThemeProvider, DirectionProvider, FontProvider, LayoutProvider *)

SetTheme(theme) == Set([theme |-> theme])

SetDir(dir) == Set([dir |-> dir])

SetFont(font) == Set([font |-> font])

SetVariant(variant) == Set([variant |-> variant])

\* resetTheme and resetDir remove the cookie, resetLayout sets the defaults.
ResetFont == Apply([font |-> DefaultFont], [font |-> NoCookie])

\* Mutant of HandleReset: the drawer forgets to remove the theme's cookie.
ResetKeepingTheme ==
    /\ Apply([p \in DOMAIN Defaults \ {"font"} |-> Defaults[p]],
             [dir |-> NoCookie, collapsible |-> Defaults.collapsible,
              variant |-> Defaults.variant, sidebar |-> "true"])
    /\ UNCHANGED shown

\* ConfigDrawer's handleReset: setOpen(true), resetDir, resetTheme, resetLayout.
HandleReset ==
    /\ Apply([p \in DOMAIN Defaults \ {"font"} |-> Defaults[p]],
             [theme |-> NoCookie, dir |-> NoCookie, collapsible |-> Defaults.collapsible,
              variant |-> Defaults.variant, sidebar |-> "true"])
    /\ UNCHANGED shown

\* handleChange, the listener of the provider: the system's scheme is applied
\* when the preference is to follow it.
SystemTheme == IF pref.theme = "system" THEN device'.scheme ELSE class

SchemeChanges ==
    /\ device' = [device EXCEPT !.scheme = IF @ = "dark" THEN "light" ELSE "dark"]
    /\ class' = SystemTheme
    /\ UNCHANGED <<pref, shown, cookies, expired>>

-----------------------------------------------------------------------------
(* The settings drawer, in the layout: each radio group sets one preference *)
(* to another value and its small button sets the default.                 *)

ThemeConfig ==
    /\ Mounted
    /\ \E theme \in {"system", "light", "dark"} \ {pref.theme} : SetTheme(theme)
    /\ UNCHANGED shown

DirConfig == Mounted /\ (\E dir \in {"ltr", "rtl"} \ {pref.dir} : SetDir(dir)) /\ UNCHANGED shown

\* SidebarConfig and LayoutConfig are hidden on a phone.
SidebarConfig ==
    /\ Mounted /\ ~device.phone
    /\ \E variant \in {"inset", "floating", "sidebar"} \ {pref.variant} : SetVariant(variant)
    /\ UNCHANGED shown

\* "default" is the open sidebar, the other choices close it in their way.
LayoutConfig ==
    /\ Mounted /\ ~device.phone
    /\ \/ pref.sidebar # "true" /\ Set([sidebar |-> "true"])
       \/ \E v \in {"icon", "offcanvas"} :
            /\ <<"false", v>> # <<pref.sidebar, pref.collapsible>>
            /\ Set([sidebar |-> "false", collapsible |-> v])
       \/ /\ pref.sidebar # "true"
          /\ Set([sidebar |-> "true", collapsible |-> Defaults.collapsible])
    /\ UNCHANGED shown

ConfigDrawer ==
    ThemeConfig \/ DirConfig \/ SidebarConfig \/ LayoutConfig \/ (Mounted /\ HandleReset)

\* ThemeSwitch offers the same themes as the drawer; nothing offers a font yet.
FontProvider == (ResetFont \/ \E font \in Fonts : SetFont(font)) /\ UNCHANGED shown

-----------------------------------------------------------------------------
(* The sidebar and the command menu *)

\* The trigger, the rail and Ctrl+B.
ToggleSidebar ==
    /\ Mounted
    /\ \/ /\ device.phone
          /\ Show(IF "sheet" \in shown THEN shown \ {"sheet"} ELSE shown \cup {"sheet"})
       \/ /\ ~device.phone
          /\ Set([sidebar |-> IF pref.sidebar = "true" THEN "false" ELSE "true"])
          /\ UNCHANGED shown

\* The sheet of a phone closes by a tap beside it (Sidebar) or on a link.
CloseSheet == device.phone /\ "sheet" \in shown /\ Show(shown \ {"sheet"})

SidebarMenuLink == Mounted /\ Show(shown \ {"sheet"})

\* Ctrl+K, the search button, Escape.
ToggleMenu ==
    /\ Mounted
    /\ Show(IF "menu" \in shown THEN shown \ {"menu"} ELSE shown \cup {"menu"})

\* runCommand: the menu closes, then a page is opened or a theme set.
CommandMenu ==
    /\ Mounted /\ "menu" \in shown
    /\ shown' = shown \ {"menu"}
    /\ \/ UNCHANGED <<pref, class, cookies, expired, device>>
       \/ \E theme \in {"system", "light", "dark"} : SetTheme(theme)

-----------------------------------------------------------------------------
(* Mounting, the browser and the device *)

\* Leaving the console for the sign-in page, without a new document.
SignOut == Mounted /\ Show({})

\* AuthenticatedLayout: the layout and the sidebar begin with their cookies.
MountLayout ==
    /\ ~Mounted
    /\ shown' = {"layout"}
    /\ Apply([p \in LayoutPrefs |-> Saved(p)], <<>>)

\* A new document: every provider begins with its cookie.
Reload ==
    /\ Apply([p \in DOMAIN Defaults |-> Saved(p)], <<>>)
    /\ shown' = {"layout"}

\* A week after it was set, or a year for the theme, direction and font.
CookieExpires(p) ==
    /\ cookies[p] # NoCookie
    /\ cookies' = [cookies EXCEPT ![p] = NoCookie]
    /\ expired' = expired \cup {p}
    /\ UNCHANGED <<pref, shown, class, device>>

\* useIsMobile: the sheet's state stays when the window grows.
ResizeWindow ==
    /\ device' = [device EXCEPT !.phone = ~@]
    /\ UNCHANGED <<pref, shown, class, cookies, expired>>

Next ==
    \/ ConfigDrawer \/ FontProvider \/ ToggleSidebar \/ CloseSheet \/ SidebarMenuLink
    \/ ToggleMenu \/ CommandMenu \/ SignOut \/ MountLayout \/ Reload
    \/ (\E p \in DOMAIN cookies : CookieExpires(p)) \/ ResizeWindow \/ SchemeChanges

Spec == Init /\ [][Next]_vars

-----------------------------------------------------------------------------
(* Properties *)

\* Whatever was set, toggled or reset, in whatever part of the shell, and
\* whatever was mounted again since: a new document would begin with every
\* preference in effect, unless the cookie has expired.
PreferencesSurvive ==
    \A p \in DOMAIN Defaults : p \in expired \/ Saved(p) = pref[p]

\* The document wears the theme that was chosen, or the system's when that was
\* chosen, through any changes of both (ThemeProvider: a memo of the resolved
\* theme, an effect and a listener).
ThemeApplied == class = Resolved(pref.theme)
=============================================================================
